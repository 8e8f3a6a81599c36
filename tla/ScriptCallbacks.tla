---------------------------- MODULE ScriptCallbacks ----------------------------
(***************************************************************************)
(* How an event reaches the scripts: DispatchPendingEvents                 *)
(* (src/src/natives.cpp) calls AmxCallback::Invoke (src/src/amxutil.cpp),  *)
(* which goes through g_scripts, puts the strings of a callback on the     *)
(* heap of each script that has it, pushes the arguments and runs it.  The *)
(* game server loads and unloads scripts between ticks, and at the bidding *)
(* of a callback while Invoke is in its loop.                              *)
(*                                                                         *)
(* All of it is the main thread's.  The abstract machine is the server's,  *)
(* modelled as far as the calls of Invoke need it: the heap and the stack  *)
(* of a script grow towards each other in one block of cells, amx_Allot    *)
(* and amx_Push fail when they would meet, and amx_Exec may refuse a call. *)
(***************************************************************************)
EXTENDS Integers, Sequences, FiniteSetsExt

CONSTANTS
  Scripts,    \* AMX instances
  Events,     \* events of a tick: a callback's name and its arguments
  Defines,    \* the public functions of each script
  HeapRoom,   \* cells a script has for its heap and its stack together
  MaxBatch    \* bound: events of one tick

\* An argument of a callback: a number, or a string of so many characters.
Num(n)      == [is |-> "num", num |-> n]
Str(s, len) == [is |-> "str", str |-> s, len |-> len]

IsString(arg) == arg.is = "str"

\* The cells a string takes, with its end.
Cells(arg) == arg.len + 1

ASSUME ScriptsAssumption ==
  /\ HeapRoom \in [Scripts -> Nat] /\ MaxBatch \in Nat \ {0}
  /\ \A e \in Events :
       /\ Len(e.args) \in Nat /\ DOMAIN e.args = 1 .. Len(e.args)
       /\ \A k \in 1 .. Len(e.args) :
            \/ e.args[k].is = "num" /\ e.args[k].num \in Int
            \/ e.args[k].is = "str" /\ e.args[k].len \in Nat

VARIABLES
  scripts,   \* g_scripts
  heap,      \* the cells allotted on each script's heap
  stack,     \* the cells pushed on each script's stack, the last one first
  batch,     \* events of this tick, from the current one on
  at,        \* "idle", in Invoke "next", "allot", "push" or "run", "unloaded"
  index,     \* place in g_scripts
  amx,       \* the script taken from that place
  arg,       \* a, the argument that is allotted or pushed next
  addrs,     \* addrs
  firstAddr, \* first_addr, None as long as nothing was allotted
  refused,   \* history: scripts whose last call amx_Exec refused to run
  present,   \* history: scripts loaded since the event was begun
  offered,   \* history: those of them Invoke has come to
  shifted    \* history: a script at or before index was unloaded meanwhile

machineVars == <<heap, stack>>
loopVars    == <<index, amx>>
callVars    == <<arg, addrs, firstAddr>>
historyVars == <<present, offered, shifted>>
vars == <<scripts, machineVars, batch, at, loopVars, callVars, refused,
          historyVars>>

None == -1

Event == Head(batch)
Args  == Event.args

Loaded == {scripts[i] : i \in 1 .. Len(scripts)}

NoAddrs(n) == [k \in 1 .. n |-> None]

Init ==
  /\ scripts = <<>>
  /\ heap = [s \in Scripts |-> <<>>] /\ stack = [s \in Scripts |-> <<>>]
  /\ batch = <<>> /\ at = "idle"
  /\ index = 1 /\ amx = None
  /\ arg = 0 /\ addrs = <<>> /\ firstAddr = None /\ refused = {}
  /\ present = {} /\ offered = {} /\ shifted = FALSE

-----------------------------------------------------------------------------
(* g_scripts                                                                 *)

\* The server calls the plugin between ticks, and while a callback runs.
ServerMayCall == at \in {"idle", "run"}

\* Mutant: the script loaded last comes first.
TrackedFirst(s) == <<s>> \o scripts

Tracked(s) == Append(scripts, s)

\* AmxLoad: AmxTrackScript appends it.
AmxLoad(s) ==
  /\ ServerMayCall /\ s \notin Loaded
  /\ scripts' = Tracked(s)
  /\ heap' = [heap EXCEPT ![s] = <<>>] /\ stack' = [stack EXCEPT ![s] = <<>>]
  /\ refused' = refused \ {s}
  /\ UNCHANGED <<batch, at, loopVars, callVars, historyVars>>

\* vector::erase: what follows moves up.
Erased(i) == SubSeq(scripts, 1, i - 1) \o SubSeq(scripts, i + 1, Len(scripts))

\* AmxUnload: AmxForgetScript.  The server does not unload a script that it is
\* executing.
AmxUnload(i) ==
  /\ ServerMayCall /\ (at = "run" => scripts[i] # amx)
  /\ scripts' = Erased(i)
  /\ present' = present \ {scripts[i]} /\ offered' = offered \ {scripts[i]}
  /\ shifted' = (shifted \/ (at = "run" /\ i <= index))
  /\ UNCHANGED <<machineVars, batch, at, loopVars, callVars, refused>>

\* Unload: AmxForgetAllScripts.
Unload ==
  /\ at = "idle" /\ at' = "unloaded"
  /\ scripts' = <<>>
  /\ UNCHANGED <<machineVars, batch, loopVars, callVars, refused, historyVars>>

-----------------------------------------------------------------------------
(* DispatchPendingEvents and the loop of Invoke                              *)

EventBegins ==
  index' = 1 /\ present' = Loaded /\ offered' = {} /\ shifted' = FALSE

ProcessTick ==
  /\ at = "idle" /\ at' = "next"
  /\ \E n \in 1 .. MaxBatch : batch' \in [1 .. n -> Events]
  /\ EventBegins
  /\ UNCHANGED <<scripts, machineVars, amx, callVars, refused>>

\* Past the end of g_scripts, whose size is read anew: the next event.
LoopEnds ==
  /\ at = "next" /\ index > Len(scripts)
  /\ batch' = Tail(batch)
  /\ at' = IF Len(batch) = 1 THEN "idle" ELSE "next"
  /\ EventBegins
  /\ UNCHANGED <<scripts, machineVars, amx, callVars, refused>>

Offers == at = "next" /\ index <= Len(scripts)
            /\ offered' = offered \cup {scripts[index]}

\* Mutant: a script without the callback ends the loop.
FindPublicFailsForAll ==
  /\ Offers /\ Event.name \notin Defines[scripts[index]]
  /\ index' = Len(scripts) + 1
  /\ UNCHANGED <<scripts, machineVars, batch, at, amx, callVars, refused,
                 present, shifted>>

\* FindPublic fails: on to the next script.
FindPublicFails ==
  /\ Offers /\ Event.name \notin Defines[scripts[index]]
  /\ index' = index + 1
  /\ UNCHANGED <<scripts, machineVars, batch, at, amx, callVars, refused,
                 present, shifted>>

FindPublicSucceeds ==
  /\ Offers /\ Event.name \in Defines[scripts[index]]
  /\ amx' = scripts[index] /\ at' = "allot"
  /\ arg' = Len(Args) /\ addrs' = NoAddrs(Len(Args)) /\ firstAddr' = None
  /\ UNCHANGED <<scripts, machineVars, batch, index, refused, present, shifted>>

-----------------------------------------------------------------------------
(* The strings, the last one first                                           *)

\* Mutant: room for the first cell is room for all.
HasSomeRoom(s, n) == Len(heap[s]) + Len(stack[s]) < HeapRoom[s]

\* The heap and the stack do not meet when either takes n more cells.
HasRoom(s, n) == Len(heap[s]) + Len(stack[s]) + n <= HeapRoom[s]

SkipsNumber ==
  /\ at = "allot" /\ arg > 0 /\ ~IsString(Args[arg])
  /\ arg' = arg - 1
  /\ UNCHANGED <<scripts, machineVars, batch, at, loopVars, addrs, firstAddr,
                 refused, historyVars>>

\* amx_Allot and amx_SetString; cells are counted from 0.
Allots ==
  /\ at = "allot" /\ arg > 0 /\ IsString(Args[arg])
  /\ HasRoom(amx, Cells(Args[arg]))
  /\ heap' = [heap EXCEPT ![amx] =
                @ \o [k \in 1 .. Cells(Args[arg]) |-> <<Args[arg].str, k>>]]
  /\ addrs' = [addrs EXCEPT ![arg] = Len(heap[amx])]
  /\ firstAddr' = IF firstAddr = None THEN Len(heap[amx]) ELSE firstAddr
  /\ arg' = arg - 1
  /\ UNCHANGED <<scripts, stack, batch, at, loopVars, refused, historyVars>>

\* amx_Release of the lowest address frees everything above it.
Releases ==
  heap' = IF firstAddr = None THEN heap
          ELSE [heap EXCEPT ![amx] = SubSeq(@, 1, firstAddr)]

\* The locals of a turn of the loop go out of scope.
TurnEnds ==
  /\ at' = "next" /\ index' = index + 1
  /\ amx' = None /\ arg' = 0 /\ addrs' = <<>> /\ firstAddr' = None

\* Mutant: what was allotted stays on the heap.
AllotFailsLeaking ==
  /\ at = "allot" /\ arg > 0 /\ IsString(Args[arg])
  /\ ~HasRoom(amx, Cells(Args[arg]))
  /\ TurnEnds
  /\ UNCHANGED <<scripts, machineVars, batch, refused, historyVars>>

\* The heap is full: the callback is skipped for this script.
AllotFails ==
  /\ at = "allot" /\ arg > 0 /\ IsString(Args[arg])
  /\ ~HasRoom(amx, Cells(Args[arg]))
  /\ Releases
  /\ TurnEnds
  /\ UNCHANGED <<scripts, stack, batch, refused, historyVars>>

AllotsDone ==
  /\ at = "allot" /\ arg = 0
  /\ at' = "push" /\ arg' = Len(Args)
  /\ UNCHANGED <<scripts, machineVars, batch, loopVars, addrs, firstAddr,
                 refused, historyVars>>

-----------------------------------------------------------------------------
(* The arguments, the last one first, and the call                           *)

\* The argument a turn of the push loop pushes.
Pushed == arg

PushesArgument ==
  /\ at = "push" /\ arg > 0 /\ HasRoom(amx, 1)
  /\ stack' = [stack EXCEPT ![amx] =
       <<IF IsString(Args[Pushed]) THEN addrs[Pushed] ELSE Args[Pushed].num>> \o @]
  /\ arg' = arg - 1
  /\ UNCHANGED <<scripts, heap, batch, at, loopVars, addrs, firstAddr, refused,
                 historyVars>>

\* amx_Push fails, and the loop goes on to the next argument all the same.
PushFails ==
  /\ at = "push" /\ arg > 0 /\ ~HasRoom(amx, 1)
  /\ arg' = arg - 1
  /\ UNCHANGED <<scripts, machineVars, batch, at, loopVars, addrs, firstAddr,
                 refused, historyVars>>

ExecBegins ==
  /\ at = "push" /\ arg = 0
  /\ at' = "run"
  /\ UNCHANGED <<scripts, machineVars, batch, loopVars, callVars, refused,
                 historyVars>>

\* amx_Exec returns an error before it runs anything: the strings are released,
\* the arguments stay on the stack.
ExecRefuses ==
  /\ at = "push" /\ arg = 0
  /\ refused' = refused \cup {amx}
  /\ Releases
  /\ TurnEnds
  /\ UNCHANGED <<scripts, stack, batch, historyVars>>

\* Exec returns, run to its end or aborted, with all that was pushed popped, what
\* refused calls had left too; a callback leaves its heap balanced.
ExecReturns ==
  /\ at = "run"
  /\ stack' = [stack EXCEPT ![amx] = <<>>]
  /\ refused' = refused \ {amx}
  /\ Releases
  /\ TurnEnds
  /\ UNCHANGED <<scripts, batch, historyVars>>

-----------------------------------------------------------------------------
InvokeSteps ==
  \/ LoopEnds \/ FindPublicFails \/ FindPublicSucceeds
  \/ SkipsNumber \/ Allots \/ AllotFails \/ AllotsDone
  \/ PushesArgument \/ PushFails \/ ExecBegins \/ ExecRefuses \/ ExecReturns

Next ==
  \/ \E s \in Scripts : AmxLoad(s)
  \/ \E i \in 1 .. Len(scripts) : AmxUnload(i)
  \/ Unload \/ ProcessTick \/ InvokeSteps

Spec == Init /\ [][Next]_vars

-----------------------------------------------------------------------------
(* Properties                                                                *)

TypeOK ==
  /\ scripts \in Seq(Scripts)
  /\ DOMAIN heap = Scripts /\ stack \in [Scripts -> Seq(Int)]
  /\ \A s \in Scripts : Len(heap[s]) + Len(stack[s]) \in 0 .. HeapRoom[s]
  /\ batch \in Seq(Events)
  /\ at \in {"idle", "next", "allot", "push", "run", "unloaded"}
  /\ at \in {"next", "allot", "push", "run"} => batch # <<>>
  /\ index \in Nat \ {0}
  /\ at \in {"allot", "push", "run"} =>
       /\ amx \in Loaded /\ arg \in 0 .. Len(Args)
       /\ addrs \in [1 .. Len(Args) -> Nat \cup {None}]
  /\ firstAddr \in Nat \cup {None}
  /\ refused \subseteq Scripts
  /\ present \subseteq Scripts /\ offered \subseteq Scripts
  /\ shifted \in BOOLEAN

Calling(s) == at \in {"allot", "push", "run"} /\ s = amx

\* However a callback ends, run, failed or skipped for want of room half-way
\* through its strings, it leaves nothing on a script's heap, and nothing on its
\* stack either unless amx_Exec refused the call: there is no way to take an
\* argument back, and cells not released are lost for good.
NothingIsLeftBehind ==
  \A s \in Scripts : ~Calling(s) =>
    heap[s] = <<>> /\ (s \notin refused => stack[s] = <<>>)

\* The k-th argument stands in a cell: a number itself, a string as the address
\* at which it is on the heap, whole.
Stands(k, cell) ==
  IF IsString(Args[k])
  THEN SubSeq(heap[amx], cell + 1, cell + Cells(Args[k]))
         = [j \in 1 .. Cells(Args[k]) |-> <<Args[k].str, j>>]
  ELSE cell = Args[k].num

\* A running callback finds its arguments in the order of its declaration, every
\* string whole at its address.  It may lack some, since Invoke goes on when a
\* push fails: then its script's room is full to the last cell, and those that
\* are missing are the first.
ArgumentsArrive ==
  at = "run" /\ amx \notin refused =>
    \E missing \in 0 .. Len(Args) :
      /\ Len(stack[amx]) = Len(Args) - missing
      /\ \A k \in 1 .. Len(stack[amx]) : Stands(missing + k, stack[amx][k])
      /\ missing > 0 => ~HasRoom(amx, 1)

\* What a call of a script leaves behind and what it was given.
CallsKeepTheMachine == NothingIsLeftBehind /\ ArgumentsArrive

\* No script hears an event twice, whatever is loaded and unloaded in between.
HeardOnce ==
  at = "next" /\ index <= Len(scripts) => scripts[index] \notin offered

\* Every script loaded all the while is offered the event, unless a callback
\* had an earlier one unloaded, which makes the loop step over the next.
OfferedToAll ==
  at = "next" /\ index > Len(scripts) /\ ~shifted => present \subseteq offered
=============================================================================

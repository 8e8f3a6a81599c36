------------------------ MODULE ScriptCallbacksProofs ------------------------
(***************************************************************************)
(* Machine-checked proofs about ScriptCallbacks, for any scripts, heaps    *)
(* and events.                                                             *)
(***************************************************************************)
EXTENDS ScriptCallbacks, SequenceTheorems, TLAPS

-----------------------------------------------------------------------------
(* The inductive invariant                                                   *)

InCall == at \in {"allot", "push", "run"}

\* g_scripts holds a script once, and Invoke works on one that is in it.
InvScripts ==
  /\ scripts \in Seq(Scripts)
  /\ \A i, j \in 1 .. Len(scripts) : scripts[i] = scripts[j] => i = j
  /\ at \in {"idle", "next", "allot", "push", "run", "unloaded"}
  /\ index \in Nat \ {0}
  /\ InCall => amx \in Loaded

\* The places in g_scripts that the loop has still to come to.
Ahead(i) == i > index \/ (i = index /\ at = "next")

\* Nobody ahead was offered the event, and unless the list shifted everybody
\* present is ahead or was.
InvOffers ==
  /\ offered \subseteq Loaded
  /\ at \in {"idle", "unloaded"} => offered = {}
  /\ \A i \in 1 .. Len(scripts) : Ahead(i) => scripts[i] \notin offered
  /\ (at = "next" \/ InCall) /\ ~shifted =>
       \A s \in present : \/ s \in offered
                          \/ \E i \in 1 .. Len(scripts) : Ahead(i) /\ scripts[i] = s

OffersInv == InvScripts /\ InvOffers

\* What Invoke has allotted begins at the bottom of the heap, and before it
\* pushes nothing is on the stack but what refused calls have left.
InvMachine ==
  /\ at \in {"idle", "next", "allot", "push", "run", "unloaded"}
  /\ DOMAIN heap = Scripts /\ DOMAIN stack = Scripts
  /\ \A s \in Scripts : ~Calling(s) =>
       heap[s] = <<>> /\ (s \notin refused => stack[s] = <<>>)
  /\ InCall => firstAddr = 0 \/ (firstAddr = None /\ heap[amx] = <<>>)
  /\ at = "allot" /\ amx \notin refused => stack[amx] = <<>>

Cell == {e.args[k].str : e \in Events, k \in Nat} \X Nat

\* The k-th argument is a string that stands whole on the heap of the script.
Holds(k) ==
  /\ addrs[k] \in Nat /\ addrs[k] + Cells(Args[k]) <= Len(heap[amx])
  /\ \A j \in 1 .. Cells(Args[k]) : heap[amx][addrs[k] + j] = <<Args[k].str, j>>

\* The cell that is pushed for the k-th argument.
Value(k) == IF IsString(Args[k]) THEN addrs[k] ELSE Args[k].num

\* On the stack are the arguments pushed so far, but for the last ones of these,
\* for which the room was full.
InvPushed ==
  at \in {"push", "run"} =>
    \E missing \in 0 .. Len(Args) :
      /\ arg <= missing /\ (arg < missing => ~HasRoom(amx, 1))
      /\ Len(stack[amx]) = Len(Args) - missing
      /\ \A j \in 1 .. Len(stack[amx]) : stack[amx][j] = Value(missing + j)

\* The arguments a call has come to are where they belong.
InvArgs ==
  InCall =>
    /\ heap[amx] \in Seq(Cell)
    /\ arg \in 0 .. Len(Args) /\ DOMAIN addrs = 1 .. Len(Args)
    /\ \A k \in 1 .. Len(Args) :
         (at = "allot" => k > arg) /\ IsString(Args[k]) => Holds(k)
    /\ at = "run" => arg = 0
    /\ amx \notin refused => stack[amx] \in Seq(Int) /\ InvPushed

InvBatch ==
  /\ batch \in Seq(Events)
  /\ at = "next" \/ InCall => batch # <<>>

-----------------------------------------------------------------------------
(* g_scripts                                                                 *)

\* What erasing a place of g_scripts leaves: those behind it move up by one.
LEMMA Erasing ==
  ASSUME scripts \in Seq(Scripts), NEW i \in 1 .. Len(scripts)
  PROVE  /\ Erased(i) \in Seq(Scripts)
         /\ Len(Erased(i)) = Len(scripts) - 1
         /\ \A j \in 1 .. Len(scripts) - 1 :
              Erased(i)[j] = IF j < i THEN scripts[j] ELSE scripts[j + 1]
<1> DEFINE low  == SubSeq(scripts, 1, i - 1)
           high == SubSeq(scripts, i + 1, Len(scripts))
<1>1. Len(scripts) \in Nat /\ \A j \in 1 .. Len(scripts) : scripts[j] \in Scripts
  BY LenProperties, ElementOfSeq
<1>2. /\ low \in Seq(Scripts) /\ Len(low) = i - 1
      /\ \A j \in 1 .. i - 1 : low[j] = scripts[j]
  <2>1. \A j \in 1 .. i - 1 : scripts[j] \in Scripts
    BY <1>1
  <2>2. /\ low \in Seq(Scripts)
        /\ Len(low) = IF 1 <= i - 1 THEN (i - 1) - 1 + 1 ELSE 0
        /\ \A j \in 1 .. (i - 1) - 1 + 1 : low[j] = scripts[1 + j - 1]
    BY <1>1, <2>1, SubSeqProperties
  <2> HIDE DEF low
  <2> QED BY <1>1, <2>2
<1>3. /\ high \in Seq(Scripts) /\ Len(high) = Len(scripts) - i
      /\ \A j \in 1 .. Len(scripts) - i : high[j] = scripts[i + j]
  <2>1. \A j \in i + 1 .. Len(scripts) : scripts[j] \in Scripts
    BY <1>1
  <2>2. /\ high \in Seq(Scripts)
        /\ Len(high) = IF i + 1 <= Len(scripts)
                       THEN Len(scripts) - (i + 1) + 1 ELSE 0
        /\ \A j \in 1 .. Len(scripts) - (i + 1) + 1 :
             high[j] = scripts[(i + 1) + j - 1]
    BY <1>1, <2>1, SubSeqProperties
  <2> HIDE DEF high
  <2> QED BY <1>1, <2>2
<1>4. Erased(i) = low \o high
  BY DEF Erased
<1> HIDE DEF low, high
<1>5. /\ low \o high \in Seq(Scripts)
      /\ Len(low \o high) = Len(low) + Len(high)
      /\ \A j \in 1 .. Len(low) + Len(high) :
           (low \o high)[j] = IF j <= Len(low) THEN low[j] ELSE high[j - Len(low)]
  BY <1>2, <1>3, ConcatProperties
<1> QED BY <1>1, <1>2, <1>3, <1>4, <1>5

\* Loading a script that is not loaded keeps what the loop relies on.
LEMMA LoadKeepsOffers ==
  ASSUME OffersInv, NEW s \in Scripts, AmxLoad(s)
  PROVE  OffersInv'
<1>1. /\ Len(scripts) \in Nat /\ scripts' \in Seq(Scripts)
      /\ Len(scripts') = Len(scripts) + 1
      /\ \A i \in 1 .. Len(scripts) : scripts'[i] = scripts[i]
      /\ scripts'[Len(scripts) + 1] = s
  <2>1. scripts \in Seq(Scripts) /\ scripts' = Append(scripts, s)
    BY DEF OffersInv, InvScripts, AmxLoad, Tracked
  <2> QED BY <2>1, AppendProperties, LenProperties
<1>2. /\ \A i \in 1 .. Len(scripts) : scripts[i] # s
      /\ at \in {"idle", "run"}
      /\ UNCHANGED <<at, index, amx, present, offered, shifted>>
  BY DEF AmxLoad, ServerMayCall, Loaded, loopVars, historyVars
<1>3. InvScripts'
  BY <1>1, <1>2 DEF OffersInv, InvScripts, InCall, Loaded
<1>4. \A i \in 1 .. Len(scripts) : Ahead(i)' <=> Ahead(i)
  BY <1>2 DEF Ahead
<1>5. s \notin offered
  BY <1>2 DEF OffersInv, InvOffers, Loaded
<1>6. (offered \subseteq Loaded)'
  BY <1>1, <1>2 DEF OffersInv, InvOffers, Loaded
<1>7. ASSUME NEW i \in 1 .. Len(scripts'), Ahead(i)'
      PROVE  scripts'[i] \notin offered'
  <2>1. CASE i \in 1 .. Len(scripts)
    BY <1>1, <1>2, <1>4, <1>7, <2>1 DEF OffersInv, InvOffers
  <2>2. CASE i = Len(scripts) + 1
    BY <1>1, <1>2, <1>5, <2>2
  <2> QED BY <1>1, <2>1, <2>2
<1>8. ((at = "next" \/ InCall) /\ ~shifted =>
        \A t \in present : \/ t \in offered
                           \/ \E i \in 1 .. Len(scripts) : Ahead(i) /\ scripts[i] = t)'
  <2> SUFFICES ASSUME at' = "next" \/ InCall', ~shifted', NEW t \in present',
                      t \notin offered'
               PROVE  \E i \in 1 .. Len(scripts') : Ahead(i)' /\ scripts'[i] = t
    OBVIOUS
  <2>1. PICK i \in 1 .. Len(scripts) : Ahead(i) /\ scripts[i] = t
    BY <1>2 DEF OffersInv, InvOffers, InCall
  <2> QED BY <1>1, <1>4, <2>1
<1> QED BY <1>2, <1>3, <1>6, <1>7, <1>8 DEF OffersInv, InvOffers

\* So does unloading one: behind it everybody moves up, which the loop takes
\* for its own step only where `shifted` says so.
LEMMA UnloadKeepsOffers ==
  ASSUME OffersInv, NEW i \in 1 .. Len(scripts), AmxUnload(i)
  PROVE  OffersInv'
<1> DEFINE from(j) == IF j < i THEN j ELSE j + 1
<1>1. /\ Len(scripts) \in Nat /\ scripts' \in Seq(Scripts)
      /\ Len(scripts') = Len(scripts) - 1
      /\ \A j \in 1 .. Len(scripts') : scripts'[j] = scripts[from(j)]
  <2>1. scripts \in Seq(Scripts) /\ scripts' = Erased(i)
    BY DEF OffersInv, InvScripts, AmxUnload
  <2> QED BY <2>1, Erasing, LenProperties
<1>2. /\ at \in {"idle", "run"} /\ (at = "run" => scripts[i] # amx)
      /\ UNCHANGED <<at, index, amx>>
      /\ present' = present \ {scripts[i]} /\ offered' = offered \ {scripts[i]}
      /\ shifted' = (shifted \/ (at = "run" /\ i <= index))
  BY DEF AmxUnload, ServerMayCall, loopVars
<1>3. index \in Nat \ {0}
  BY DEF OffersInv, InvScripts
<1>4. \A j \in 1 .. Len(scripts') : from(j) \in 1 .. Len(scripts) /\ from(j) # i
  BY <1>1
<1>5. ASSUME NEW k \in 1 .. Len(scripts), k # i
      PROVE  \E j \in 1 .. Len(scripts') : from(j) = k /\ j >= k - 1
                                             /\ (k > i => j >= i) /\ (k < i => j = k)
  <2>1. CASE k < i
    BY <1>1, <1>5, <2>1
  <2>2. CASE k > i
    <3>1. k - 1 \in 1 .. Len(scripts') /\ from(k - 1) = k
      BY <1>1, <2>2
    <3> QED BY <2>2, <3>1
  <2> QED BY <1>5, <2>1, <2>2
<1>6. \A j, k \in 1 .. Len(scripts) : scripts[j] = scripts[k] => j = k
  BY DEF OffersInv, InvScripts
<1>7. ASSUME NEW s \in Loaded, s # scripts[i]
      PROVE  s \in Loaded'
  <2>1. PICK k \in 1 .. Len(scripts) : scripts[k] = s /\ k # i
    BY <1>7 DEF Loaded
  <2> QED BY <1>1, <1>5, <2>1 DEF Loaded
<1>8. InvScripts'
  <2>1. \A j, k \in 1 .. Len(scripts') : from(j) = from(k) => j = k
    BY <1>1
  <2>2. ASSUME NEW j \in 1 .. Len(scripts'), NEW k \in 1 .. Len(scripts'),
               scripts'[j] = scripts'[k]
        PROVE  j = k
    BY <1>1, <1>4, <1>6, <2>1, <2>2
  <2>3. InCall' => amx' \in Loaded'
    BY <1>2, <1>7 DEF OffersInv, InvScripts, InCall
  <2> QED BY <1>1, <1>2, <1>3, <2>2, <2>3 DEF InvScripts
<1>9. (offered \subseteq Loaded)'
  BY <1>2, <1>7 DEF OffersInv, InvOffers
<1>10. ASSUME NEW j \in 1 .. Len(scripts'), Ahead(j)'
       PROVE  scripts'[j] \notin offered'
  <2>1. from(j) > index
    BY <1>1, <1>2, <1>3, <1>10 DEF Ahead
  <2>2. scripts[from(j)] \notin offered
    BY <1>4, <2>1 DEF OffersInv, InvOffers, Ahead
  <2> QED BY <1>1, <1>2, <2>2
<1>11. ((at = "next" \/ InCall) /\ ~shifted =>
         \A t \in present : \/ t \in offered
                            \/ \E j \in 1 .. Len(scripts) : Ahead(j) /\ scripts[j] = t)'
  <2> SUFFICES ASSUME at' = "next" \/ InCall', ~shifted', NEW t \in present',
                      t \notin offered'
               PROVE  \E j \in 1 .. Len(scripts') : Ahead(j)' /\ scripts'[j] = t
    OBVIOUS
  <2>1. /\ at = "run" /\ i > index
        /\ t \in present /\ t # scripts[i] /\ t \notin offered
    <3>1. at = "run" /\ ~(i <= index)
      BY <1>2 DEF InCall
    <3>2. i > index
      BY <1>1, <1>3, <3>1
    <3> QED BY <1>2, <3>1, <3>2
  <2>2. PICK k \in 1 .. Len(scripts) : Ahead(k) /\ scripts[k] = t
    BY <1>2, <2>1 DEF OffersInv, InvOffers, InCall
  <2>3. k > index /\ k # i
    BY <2>1, <2>2 DEF Ahead
  <2>4. PICK j \in 1 .. Len(scripts') : /\ from(j) = k
                                        /\ k > i => j >= i
                                        /\ k < i => j = k
    BY <1>5, <2>3
  <2>5. j > index
    BY <1>1, <1>3, <2>1, <2>3, <2>4
  <2> QED BY <1>1, <1>2, <2>2, <2>4, <2>5 DEF Ahead
<1> QED BY <1>2, <1>8, <1>9, <1>10, <1>11 DEF OffersInv, InvOffers

\* The loop comes to a place of g_scripts and to the one behind it.
LEMMA LoopKeepsOffers ==
  ASSUME OffersInv,
         \/ FindPublicFails \/ FindPublicSucceeds
         \/ SkipsNumber \/ Allots \/ AllotFails \/ AllotsDone
         \/ PushesArgument \/ PushFails \/ ExecBegins \/ ExecRefuses
         \/ ExecReturns
  PROVE  OffersInv'
<1> USE DEF OffersInv
<1>1. /\ Len(scripts) \in Nat /\ index \in Nat \ {0}
      /\ \A i, j \in 1 .. Len(scripts) : scripts[i] = scripts[j] => i = j
  BY LenProperties DEF InvScripts
<1>2. CASE FindPublicFails
  <2>1. /\ at = "next" /\ index \in 1 .. Len(scripts) /\ index' = index + 1
        /\ offered' = offered \cup {scripts[index]}
        /\ UNCHANGED <<scripts, at, amx, present, shifted>>
    BY <1>1, <1>2 DEF FindPublicFails, Offers
  <2>2. \A i \in 1 .. Len(scripts) : Ahead(i) <=> Ahead(i)' \/ i = index
    BY <1>1, <2>1 DEF Ahead
  <2>3. InvScripts'
    BY <1>1, <2>1 DEF InvScripts, InCall, Loaded
  <2>4. \A i \in 1 .. Len(scripts) : Ahead(i)' => scripts[i] \notin offered'
    <3> TAKE i \in 1 .. Len(scripts)
    <3> HAVE Ahead(i)'
    <3>1. i # index
      BY <1>1, <2>1 DEF Ahead
    <3> QED BY <1>1, <2>1, <2>2, <3>1 DEF InvOffers
  <2> QED BY <2>1, <2>2, <2>3, <2>4 DEF InvOffers, Loaded, InCall
<1>3. CASE FindPublicSucceeds
  <2>1. /\ at = "next" /\ index \in 1 .. Len(scripts)
        /\ at' = "allot" /\ amx' = scripts[index]
        /\ offered' = offered \cup {scripts[index]}
        /\ UNCHANGED <<scripts, index, present, shifted>>
    BY <1>1, <1>3 DEF FindPublicSucceeds, Offers
  <2>2. \A i \in 1 .. Len(scripts) : Ahead(i) <=> Ahead(i)' \/ i = index
    BY <1>1, <2>1 DEF Ahead
  <2>3. InvScripts'
    BY <1>1, <2>1 DEF InvScripts, InCall, Loaded
  <2>4. \A i \in 1 .. Len(scripts) : Ahead(i)' => scripts[i] \notin offered'
    <3> TAKE i \in 1 .. Len(scripts)
    <3> HAVE Ahead(i)'
    <3>1. i # index
      BY <1>1, <2>1 DEF Ahead
    <3> QED BY <1>1, <2>1, <2>2, <3>1 DEF InvOffers
  <2> QED BY <2>1, <2>2, <2>3, <2>4 DEF InvOffers, Loaded, InCall
<1>4. CASE \/ SkipsNumber \/ Allots \/ AllotsDone
           \/ PushesArgument \/ PushFails \/ ExecBegins
  <2>1. /\ InCall /\ InCall'
        /\ UNCHANGED <<scripts, index, amx, offered, present, shifted>>
    BY <1>4 DEF SkipsNumber, Allots, AllotsDone, PushesArgument, PushFails,
                ExecBegins, InCall, loopVars, historyVars
  <2>2. \A i \in 1 .. Len(scripts) : Ahead(i) <=> Ahead(i)'
    BY <2>1 DEF Ahead, InCall
  <2>3. InvScripts'
    BY <2>1 DEF InvScripts, InCall, Loaded
  <2> QED BY <2>1, <2>2, <2>3 DEF InvOffers, Loaded, InCall
<1>5. CASE AllotFails \/ ExecRefuses \/ ExecReturns
  <2>1. /\ InCall /\ at' = "next" /\ index' = index + 1
        /\ UNCHANGED <<scripts, offered, present, shifted>>
    BY <1>5 DEF AllotFails, ExecRefuses, ExecReturns, TurnEnds, InCall,
                historyVars
  <2>2. \A i \in 1 .. Len(scripts) : Ahead(i) <=> Ahead(i)'
    BY <1>1, <2>1 DEF Ahead, InCall
  <2>3. InvScripts'
    BY <1>1, <2>1 DEF InvScripts, InCall, Loaded
  <2> QED BY <2>1, <2>2, <2>3 DEF InvOffers, Loaded, InCall
<1> QED BY <1>2, <1>3, <1>4, <1>5

\* An event is begun with all scripts ahead and none offered.
LEMMA BeginningKeepsOffers ==
  ASSUME OffersInv, ProcessTick \/ LoopEnds \/ Unload
  PROVE  OffersInv'
<1> USE DEF OffersInv
<1>1. CASE ProcessTick \/ LoopEnds
  <2>1. /\ at' \in {"idle", "next"} /\ index' = 1
        /\ present' = Loaded /\ offered' = {} /\ UNCHANGED scripts
    BY <1>1 DEF ProcessTick, LoopEnds, EventBegins
  <2>2. at' = "next" => \A i \in 1 .. Len(scripts) : Ahead(i)'
    BY <2>1, LenProperties DEF InvScripts, Ahead
  <2>3. InvScripts'
    BY <2>1 DEF InvScripts, InCall, Loaded
  <2> QED BY <2>1, <2>2, <2>3 DEF InvOffers, Loaded, InCall
<1>2. CASE Unload
  <2>1. /\ at = "idle" /\ at' = "unloaded" /\ scripts' = <<>>
        /\ UNCHANGED <<index, amx, offered, present, shifted>>
    BY <1>2 DEF Unload, loopVars, historyVars
  <2>2. offered = {} /\ Len(scripts') = 0
    BY <2>1 DEF InvOffers
  <2> QED BY <2>1, <2>2 DEF InvScripts, InvOffers, InCall
<1> QED BY <1>1, <1>2

\* However g_scripts changes while Invoke goes through it, the places ahead hold
\* scripts that were not yet offered the event.
THEOREM OffersInvariant == Spec => []OffersInv
<1>1. Init => OffersInv
  BY DEF Init, OffersInv, InvScripts, InvOffers, InCall, Loaded
<1>2. OffersInv /\ [Next]_vars => OffersInv'
  <2> SUFFICES ASSUME OffersInv, [Next]_vars PROVE OffersInv'
    OBVIOUS
  <2>1. CASE \E s \in Scripts : AmxLoad(s)
    BY <2>1, LoadKeepsOffers
  <2>2. CASE \E i \in 1 .. Len(scripts) : AmxUnload(i)
    BY <2>2, UnloadKeepsOffers
  <2>3. CASE Unload \/ ProcessTick \/ LoopEnds
    BY <2>3, BeginningKeepsOffers
  <2>4. CASE InvokeSteps /\ ~LoopEnds
    BY <2>4, LoopKeepsOffers DEF InvokeSteps
  <2>5. CASE UNCHANGED vars
    BY <2>5 DEF vars, loopVars, historyVars, OffersInv, InvScripts, InvOffers,
                InCall, Loaded, Ahead
  <2> QED BY <2>1, <2>2, <2>3, <2>4, <2>5 DEF Next
<1> QED BY <1>1, <1>2, PTL DEF Spec

\* No script hears an event twice, however many are loaded and unloaded by the
\* callbacks in between.
THEOREM NoEventIsHeardTwice == Spec => []HeardOnce
<1>1. OffersInv => HeardOnce
  <2> SUFFICES ASSUME OffersInv, at = "next", index <= Len(scripts)
               PROVE  scripts[index] \notin offered
    BY DEF HeardOnce
  <2>1. index \in 1 .. Len(scripts)
    BY LenProperties DEF OffersInv, InvScripts
  <2> QED BY <2>1 DEF OffersInv, InvOffers, Ahead
<1> QED BY <1>1, OffersInvariant, PTL

\* Every script loaded all the while is offered the event, unless an earlier one
\* was unloaded by a callback.
THEOREM NobodyIsSteppedOver == Spec => []OfferedToAll
<1>1. OffersInv => OfferedToAll
  <2> SUFFICES ASSUME OffersInv, at = "next", index > Len(scripts), ~shifted,
                      NEW s \in present
               PROVE  s \in offered
    BY DEF OfferedToAll
  <2>1. \A i \in 1 .. Len(scripts) : ~Ahead(i)
    BY LenProperties DEF OffersInv, InvScripts, Ahead
  <2> QED BY <2>1 DEF OffersInv, InvOffers
<1> QED BY <1>1, OffersInvariant, PTL

-----------------------------------------------------------------------------
(* The heap and the stack of a script                                        *)

\* Releasing from the bottom of the heap leaves it empty.
LEMMA ReleasesAll ==
  ASSUME InvMachine, InCall, amx \in Scripts, Releases
  PROVE  /\ DOMAIN heap' = Scripts /\ heap'[amx] = <<>>
         /\ \A s \in Scripts \ {amx} : heap'[s] = heap[s]
<1>1. CASE firstAddr = None
  BY <1>1 DEF InvMachine, Releases, None
<1>2. CASE firstAddr = 0
  <2>1. heap' = [heap EXCEPT ![amx] = SubSeq(heap[amx], 1, 0)]
    BY <1>2 DEF Releases, None
  <2>2. SubSeq(heap[amx], 1, 0) = <<>>
    BY SubSeqEmpty
  <2> QED BY <2>1, <2>2 DEF InvMachine
<1> QED BY <1>1, <1>2 DEF InvMachine

\* A step that the script called takes no part in leaves its heap and its stack.
LEMMA OthersKeepMachine ==
  ASSUME OffersInv, InvMachine,
         \/ \E s \in Scripts : AmxLoad(s)
         \/ \E i \in 1 .. Len(scripts) : AmxUnload(i)
         \/ Unload \/ ProcessTick \/ LoopEnds \/ FindPublicFails
         \/ FindPublicSucceeds
  PROVE  InvMachine'
<1>1. CASE \E s \in Scripts : AmxLoad(s)
  <2>1. PICK s \in Scripts : AmxLoad(s)
    BY <1>1
  <2>2. InCall => s # amx
    BY <2>1 DEF AmxLoad, OffersInv, InvScripts
  <2>3. /\ heap' = [heap EXCEPT ![s] = <<>>] /\ stack' = [stack EXCEPT ![s] = <<>>]
        /\ at \in {"idle", "run"} /\ UNCHANGED <<at, amx, firstAddr>>
        /\ refused' = refused \ {s}
    BY <2>1 DEF AmxLoad, ServerMayCall, loopVars, callVars
  <2> QED BY <2>2, <2>3 DEF InvMachine, InCall, Calling
<1>2. CASE \E i \in 1 .. Len(scripts) : AmxUnload(i)
  <2>1. UNCHANGED <<heap, stack, at, amx, firstAddr, refused>>
    BY <1>2 DEF AmxUnload, machineVars, loopVars, callVars
  <2> QED BY <2>1 DEF InvMachine, InCall, Calling
<1>3. CASE Unload \/ ProcessTick \/ LoopEnds \/ FindPublicFails
  <2>1. /\ UNCHANGED <<heap, stack, refused>>
        /\ at \in {"idle", "next"} /\ at' \in {"idle", "next", "unloaded"}
    BY <1>3
       DEF Unload, ProcessTick, LoopEnds, FindPublicFails, Offers, machineVars
  <2> QED BY <2>1 DEF InvMachine, InCall, Calling
<1>4. CASE FindPublicSucceeds
  <2>1. scripts[index] \in Scripts
    BY <1>4, ElementOfSeq, LenProperties
    DEF FindPublicSucceeds, Offers, OffersInv, InvScripts
  <2>2. /\ UNCHANGED <<heap, stack, refused>> /\ at = "next" /\ at' = "allot"
        /\ amx' = scripts[index] /\ firstAddr' = None
    BY <1>4 DEF FindPublicSucceeds, Offers, machineVars
  <2> QED BY <2>1, <2>2 DEF InvMachine, InCall, Calling
<1> QED BY <1>1, <1>2, <1>3, <1>4

\* A call begins at the bottom of the heap and clears what it has put there.
LEMMA CallKeepsMachine ==
  ASSUME OffersInv, InvMachine,
         \/ SkipsNumber \/ Allots \/ AllotFails \/ AllotsDone
         \/ PushesArgument \/ PushFails \/ ExecBegins \/ ExecRefuses
         \/ ExecReturns
  PROVE  InvMachine'
<1>1. InCall /\ amx \in Scripts
  <2>1. InCall
    BY DEF InCall, SkipsNumber, Allots, AllotFails, AllotsDone, PushesArgument,
           PushFails, ExecBegins, ExecRefuses, ExecReturns
  <2> QED BY <2>1, ElementOfSeq DEF OffersInv, InvScripts, Loaded
<1>2. CASE SkipsNumber \/ AllotsDone \/ PushFails \/ ExecBegins
  <2>1. /\ UNCHANGED <<heap, stack, amx, firstAddr, refused>>
        /\ at' \in {"allot", "push", "run"} /\ (at' = "allot" => at = "allot")
    BY <1>2 DEF SkipsNumber, AllotsDone, PushFails, ExecBegins, machineVars,
                loopVars, callVars
  <2>2. InCall' /\ \A s \in Scripts : Calling(s)' <=> Calling(s)
    BY <1>1, <2>1 DEF InCall, Calling
  <2>3. /\ at' \in {"idle", "next", "allot", "push", "run", "unloaded"}
        /\ firstAddr' = 0 \/ (firstAddr' = None /\ heap'[amx'] = <<>>)
        /\ at' = "allot" /\ amx' \notin refused' => stack'[amx'] = <<>>
    BY <1>1, <2>1 DEF InvMachine
  <2> QED BY <2>1, <2>2, <2>3 DEF InvMachine
<1>3. CASE Allots
  <2>1. PICK cells : heap' = [heap EXCEPT ![amx] = cells]
    BY <1>3 DEF Allots
  <2>2. firstAddr' = 0
    <3>1. CASE firstAddr = None
      BY <1>1, <1>3, <3>1 DEF Allots, InvMachine, None
    <3>2. CASE firstAddr = 0
      BY <1>3, <3>2 DEF Allots, None
    <3> QED BY <1>1, <3>1, <3>2 DEF InvMachine
  <2>3. at = "allot" /\ UNCHANGED <<stack, at, amx, refused>>
    BY <1>3 DEF Allots, loopVars
  <2> QED BY <1>1, <2>1, <2>2, <2>3 DEF InvMachine, InCall, Calling
<1>4. CASE PushesArgument
  <2>1. PICK pushed : stack' = [stack EXCEPT ![amx] = pushed]
    BY <1>4 DEF PushesArgument
  <2>2. at = "push" /\ UNCHANGED <<heap, at, amx, firstAddr, refused>>
    BY <1>4 DEF PushesArgument, loopVars
  <2> QED BY <1>1, <2>1, <2>2 DEF InvMachine, InCall, Calling
<1>5. CASE AllotFails \/ ExecRefuses \/ ExecReturns
  <2>1. Releases /\ at' = "next"
    BY <1>5 DEF AllotFails, ExecRefuses, ExecReturns, TurnEnds
  <2>2. /\ DOMAIN heap' = Scripts
        /\ \A s \in Scripts : heap'[s] = <<>>
    BY <1>1, <2>1, ReleasesAll DEF InvMachine, Calling
  <2>3. /\ DOMAIN stack' = Scripts
        /\ \A s \in Scripts : s \notin refused' => stack'[s] = <<>>
    <3>1. CASE AllotFails
      BY <1>1, <3>1 DEF AllotFails, InvMachine, Calling
    <3>2. CASE ExecRefuses
      BY <1>1, <3>2 DEF ExecRefuses, InvMachine, Calling
    <3>3. CASE ExecReturns
      BY <1>1, <3>3 DEF ExecReturns, InvMachine, Calling
    <3> QED BY <1>5, <3>1, <3>2, <3>3
  <2> QED BY <2>1, <2>2, <2>3 DEF InvMachine, InCall
<1> QED BY <1>2, <1>3, <1>4, <1>5

\* Between the calls of a script its heap is empty, its stack too unless the last
\* of them was refused, and a call has its strings from the bottom of the heap up.
THEOREM MachineInvariant == Spec => []InvMachine
<1>1. Init => InvMachine
  BY DEF Init, InvMachine, InCall
<1>2. OffersInv /\ InvMachine /\ [Next]_vars => InvMachine'
  <2> SUFFICES ASSUME OffersInv, InvMachine, [Next]_vars PROVE InvMachine'
    OBVIOUS
  <2>1. CASE Next
    BY <2>1, OthersKeepMachine, CallKeepsMachine DEF Next, InvokeSteps
  <2>2. CASE UNCHANGED vars
    BY <2>2
       DEF vars, machineVars, loopVars, callVars, InvMachine, InCall, Calling
  <2> QED BY <2>1, <2>2
<1> QED BY <1>1, <1>2, OffersInvariant, PTL DEF Spec

-----------------------------------------------------------------------------
(* The arguments                                                             *)

\* An argument is a number or a string with a length.
LEMMA EventShape ==
  ASSUME InvBatch, batch # <<>>
  PROVE  /\ Event \in Events /\ Len(Args) \in Nat /\ DOMAIN Args = 1 .. Len(Args)
         /\ \A k \in 1 .. Len(Args) :
              /\ IsString(Args[k]) =>
                   /\ Args[k].len \in Nat /\ Cells(Args[k]) \in Nat \ {0}
                   /\ \A j \in Nat : <<Args[k].str, j>> \in Cell
              /\ ~IsString(Args[k]) => Args[k].num \in Int
<1>1. Event \in Events
  BY HeadTailProperties DEF InvBatch, Event
<1>2. /\ Len(Args) \in Nat /\ DOMAIN Args = 1 .. Len(Args)
      /\ \A k \in 1 .. Len(Args) :
           \/ Args[k].is = "num" /\ Args[k].num \in Int
           \/ Args[k].is = "str" /\ Args[k].len \in Nat
  BY <1>1, ScriptsAssumption DEF Args
<1>3. \A k \in 1 .. Len(Args) : Args[k].str \in {e.args[i].str : e \in Events, i \in Nat}
  BY <1>1, <1>2 DEF Args
<1>4. \A k \in 1 .. Len(Args), j \in Nat : <<Args[k].str, j>> \in Cell
  BY <1>3 DEF Cell
<1> QED BY <1>1, <1>2, <1>4 DEF IsString, Cells

LEMMA BatchIsKept ==
  ASSUME InvBatch, [Next]_vars
  PROVE  InvBatch'
<1>1. CASE ProcessTick
  <2>1. PICK n \in 1 .. MaxBatch : batch' \in [1 .. n -> Events]
    BY <1>1 DEF ProcessTick
  <2>2. batch' \in Seq(Events) /\ Len(batch') = n
    BY <2>1, ScriptsAssumption
  <2> QED BY <2>2, ScriptsAssumption DEF InvBatch
<1>2. CASE LoopEnds
  <2>1. /\ batch # <<>> /\ batch' = Tail(batch)
        /\ Len(batch) = 1 => at' = "idle"
    BY <1>2 DEF LoopEnds, InvBatch
  <2>2. batch' \in Seq(Events) /\ Len(batch') = Len(batch) - 1
    BY <2>1, HeadTailProperties DEF InvBatch
  <2>3. Len(batch) \in Nat /\ (batch' = <<>> => Len(batch) = 1)
    BY <2>2, LenProperties DEF InvBatch
  <2>4. at' \in {"idle", "next"}
    BY <1>2 DEF LoopEnds
  <2> QED BY <2>1, <2>2, <2>3, <2>4 DEF InvBatch, InCall
<1>3. CASE \/ \E s \in Scripts : AmxLoad(s)
           \/ \E i \in 1 .. Len(scripts) : AmxUnload(i)
           \/ Unload \/ UNCHANGED vars
  <2>1. batch' = batch /\ (at' = at \/ at' = "unloaded")
    BY <1>3 DEF AmxLoad, AmxUnload, Unload, vars
  <2> QED BY <2>1 DEF InvBatch, InCall
<1>4. CASE InvokeSteps /\ ~LoopEnds
  <2>1. batch' = batch /\ (at = "next" \/ InCall)
    BY <1>4 DEF InvokeSteps, FindPublicFails, FindPublicSucceeds, Offers,
                SkipsNumber, Allots, AllotFails, AllotsDone, PushesArgument,
                PushFails, ExecBegins, ExecRefuses, ExecReturns, InCall
  <2> QED BY <2>1 DEF InvBatch
<1> QED BY <1>1, <1>2, <1>3, <1>4 DEF Next

\* What a call has put in place stays, whoever else is loaded or unloaded.
LEMMA QuietStepsKeepArgs ==
  ASSUME InvArgs, InCall, UNCHANGED <<at, batch, amx, arg, addrs>>,
         heap'[amx] = heap[amx], stack'[amx] = stack[amx],
         amx \in refused => amx \in refused'
  PROVE  InvArgs'
<1>1. Args' = Args
  BY DEF Args, Event
<1>2. \A k \in 1 .. Len(Args) : Holds(k) => Holds(k)'
  BY <1>1 DEF Holds
<1>3. \A k \in Int : Value(k)' = Value(k)
  BY <1>1 DEF Value
<1>4. InvPushed => InvPushed'
  <2> SUFFICES ASSUME InvPushed, at \in {"push", "run"} PROVE InvPushed'
    BY DEF InvPushed
  <2>1. PICK missing \in 0 .. Len(Args) :
          /\ arg <= missing /\ (arg < missing => ~HasRoom(amx, 1))
          /\ Len(stack[amx]) = Len(Args) - missing
          /\ \A j \in 1 .. Len(stack[amx]) : stack[amx][j] = Value(missing + j)
    BY DEF InvPushed
  <2>2. HasRoom(amx, 1)' <=> HasRoom(amx, 1)
    BY DEF HasRoom
  <2>3. \A j \in 1 .. Len(stack[amx]) : stack[amx][j] = Value(missing + j)'
    BY <1>3, <2>1
  <2> QED BY <1>1, <2>1, <2>2, <2>3 DEF InvPushed
<1> QED BY <1>1, <1>2, <1>4 DEF InvArgs, InCall

\* A string is written behind those that are there.
LEMMA AllotsKeepsArgs ==
  ASSUME InvMachine, InvArgs, InvBatch, amx \in Scripts, Allots
  PROVE  InvArgs'
<1> DEFINE str   == [k \in 1 .. Cells(Args[arg]) |-> <<Args[arg].str, k>>]
           room  == heap[amx]
           room2 == heap'[amx]
<1>1. /\ at = "allot" /\ arg > 0 /\ IsString(Args[arg])
      /\ heap' = [heap EXCEPT ![amx] = room \o str]
      /\ addrs' = [addrs EXCEPT ![arg] = Len(room)] /\ arg' = arg - 1
      /\ UNCHANGED <<stack, batch, at, amx, refused>>
  BY DEF Allots, loopVars
<1>2. /\ room \in Seq(Cell) /\ (amx \notin refused => stack[amx] \in Seq(Int))
      /\ arg \in 1 .. Len(Args) /\ DOMAIN addrs = 1 .. Len(Args)
      /\ \A k \in 1 .. Len(Args) : k > arg /\ IsString(Args[k]) => Holds(k)
  BY <1>1 DEF InvArgs, InCall
<1>3. Args' = Args
  BY <1>1 DEF Args, Event
<1>4. /\ Len(Args) \in Nat /\ Cells(Args[arg]) \in Nat \ {0}
      /\ \A j \in Nat : <<Args[arg].str, j>> \in Cell
      /\ \A k \in 1 .. Len(Args) : IsString(Args[k]) => Cells(Args[k]) \in Nat \ {0}
  BY <1>1, <1>2, EventShape DEF InvBatch, InCall
<1>5. /\ str \in Seq(Cell) /\ Len(str) = Cells(Args[arg])
      /\ \A j \in 1 .. Cells(Args[arg]) : str[j] = <<Args[arg].str, j>>
  BY <1>4
<1> HIDE DEF str
<1>6. /\ room2 \in Seq(Cell) /\ Len(room2) = Len(room) + Cells(Args[arg])
      /\ \A j \in 1 .. Len(room) : room2[j] = room[j]
      /\ \A j \in 1 .. Cells(Args[arg]) : room2[Len(room) + j] = <<Args[arg].str, j>>
  <2>1. room2 = room \o str
    BY <1>1 DEF InvMachine
  <2>2. /\ room \o str \in Seq(Cell) /\ Len(room \o str) = Len(room) + Len(str)
        /\ \A j \in 1 .. Len(room) + Len(str) :
             (room \o str)[j] = IF j <= Len(room) THEN room[j] ELSE str[j - Len(room)]
    BY <1>2, <1>5, ConcatProperties
  <2>3. Len(room) \in Nat
    BY <1>2, LenProperties
  <2> QED BY <1>4, <1>5, <2>1, <2>2, <2>3
<1>7. Len(room) \in Nat
  BY <1>2, LenProperties
<1>8. ASSUME NEW k \in 1 .. Len(Args), k > arg', IsString(Args[k])
      PROVE  Holds(k)'
  <2> DEFINE addr == addrs'[k]
  <2> HIDE DEF room, room2
  <2>0. SUFFICES /\ addr \in Nat /\ addr + Cells(Args[k]) <= Len(room2)
                 /\ \A j \in 1 .. Cells(Args[k]) :
                      room2[addr + j] = <<Args[k].str, j>>
    BY <1>1, <1>3 DEF Holds, room2
  <2>1. CASE k = arg
    <3>1. addrs'[k] = Len(room)
      BY <1>1, <1>2, <2>1
    <3> QED BY <1>4, <1>6, <1>7, <2>1, <3>1
  <2>2. CASE k # arg
    <3>1. k > arg /\ addrs'[k] = addrs[k]
      BY <1>1, <1>2, <1>8, <2>2
    <3>2. /\ addrs[k] \in Nat /\ addrs[k] + Cells(Args[k]) <= Len(room)
          /\ \A j \in 1 .. Cells(Args[k]) : room[addrs[k] + j] = <<Args[k].str, j>>
      BY <1>2, <1>8, <3>1 DEF Holds, room
    <3>3. addrs'[k] + Cells(Args[k]) <= Len(room2)
      BY <1>4, <1>6, <1>7, <1>8, <3>1, <3>2
    <3>4. ASSUME NEW j \in 1 .. Cells(Args[k])
          PROVE  room2[addrs[k] + j] = <<Args[k].str, j>>
      <4>1. Cells(Args[k]) \in Nat \ {0}
        BY <1>4, <1>8
      <4>2. addrs[k] + j \in 1 .. Len(room)
        BY <1>7, <3>2, <4>1
      <4> QED BY <1>6, <3>2, <4>2
    <3>5. addr = addrs[k]
      BY <3>1
    <3> HIDE DEF addr
    <3>6. addr + Cells(Args[k]) <= Len(room2)
      BY <3>1, <3>3, <3>5
    <3> QED BY <3>2, <3>4, <3>5, <3>6
  <2> QED BY <2>1, <2>2
<1> HIDE DEF room, room2
<1>9. arg' \in 0 .. Len(Args) /\ DOMAIN addrs' = 1 .. Len(Args)
  BY <1>1, <1>2, <1>4
<1>10. /\ room2 \in Seq(Cell) /\ at' = "allot"
       /\ amx' \notin refused' => stack'[amx'] \in Seq(Int) /\ InvPushed'
  BY <1>1, <1>2, <1>6 DEF InvPushed
<1> QED BY <1>1, <1>3, <1>8, <1>9, <1>10 DEF InvArgs, room2

\* A cell that is pushed is a number.
LEMMA PushedIsNumber ==
  ASSUME InvArgs, InvBatch, PushesArgument
  PROVE  Value(arg) \in Int
<1>1. at = "push" /\ arg > 0
  BY DEF PushesArgument
<1>2. /\ arg \in 1 .. Len(Args)
      /\ \A k \in 1 .. Len(Args) : IsString(Args[k]) => Holds(k)
  BY <1>1 DEF InvArgs, InCall
<1>3. ~IsString(Args[arg]) => Args[arg].num \in Int
  BY <1>1, <1>2, EventShape DEF InvBatch, InCall
<1>4. IsString(Args[arg]) => addrs[arg] \in Nat
  BY <1>2 DEF Holds
<1> QED BY <1>3, <1>4 DEF Value

\* The arguments are pushed from the last one down.
LEMMA PushesKeepsPushed ==
  ASSUME InvMachine, InvArgs, InvBatch, amx \in Scripts \ refused, PushesArgument
  PROVE  stack'[amx] \in Seq(Int) /\ InvPushed'
<1> DEFINE pile  == stack[amx]
           pile2 == stack'[amx]
<1>1. /\ at = "push" /\ arg > 0
      /\ stack' = [stack EXCEPT ![amx] = <<Value(arg)>> \o pile]
      /\ HasRoom(amx, 1)
      /\ arg' = arg - 1 /\ UNCHANGED <<heap, batch, at, amx, addrs>>
  BY DEF PushesArgument, Pushed, Value, loopVars
<1>2. /\ pile \in Seq(Int) /\ arg \in 1 .. Len(Args)
      /\ \A k \in 1 .. Len(Args) : IsString(Args[k]) => Holds(k)
      /\ Len(pile) = Len(Args) - arg
      /\ \A j \in 1 .. Len(pile) : pile[j] = Value(arg + j)
  <2>1. /\ pile \in Seq(Int) /\ arg \in 1 .. Len(Args)
        /\ \A k \in 1 .. Len(Args) : IsString(Args[k]) => Holds(k)
        /\ InvPushed
    BY <1>1 DEF InvArgs, InCall
  <2>2. PICK missing \in 0 .. Len(Args) :
          /\ arg <= missing /\ (arg < missing => ~HasRoom(amx, 1))
          /\ Len(pile) = Len(Args) - missing
          /\ \A j \in 1 .. Len(pile) : pile[j] = Value(missing + j)
    BY <1>1, <2>1 DEF InvPushed
  <2>3. missing = arg
    BY <1>1, <2>1, <2>2
  <2> QED BY <2>1, <2>2, <2>3
<1>3. Args' = Args
  BY <1>1 DEF Args, Event
<1>4. Len(Args) \in Nat /\ Value(arg) \in Int
  <2>1. /\ Len(Args) \in Nat
        /\ ~IsString(Args[arg]) => Args[arg].num \in Int
    BY <1>1, <1>2, EventShape DEF InvBatch, InCall
  <2>2. IsString(Args[arg]) => addrs[arg] \in Nat
    BY <1>2 DEF Holds
  <2> QED BY <2>1, <2>2 DEF Value
<1>5. pile2 = <<Value(arg)>> \o pile
  BY <1>1 DEF InvMachine
<1>6. /\ pile2 \in Seq(Int) /\ Len(pile2) = Len(pile) + 1 /\ pile2[1] = Value(arg)
      /\ \A j \in 2 .. Len(pile) + 1 : pile2[j] = pile[j - 1]
  <2>1. /\ <<Value(arg)>> \in Seq(Int) /\ Len(<<Value(arg)>>) = 1
        /\ <<Value(arg)>>[1] = Value(arg)
    BY <1>4
  <2> DEFINE first == <<Value(arg)>>
  <2> HIDE DEF first
  <2>2. first \in Seq(Int) /\ Len(first) = 1 /\ first[1] = Value(arg)
    BY <2>1 DEF first
  <2>3. /\ first \o pile \in Seq(Int)
        /\ Len(first \o pile) = Len(first) + Len(pile)
        /\ \A j \in 1 .. Len(first) + Len(pile) :
             (first \o pile)[j] = IF j <= Len(first) THEN first[j]
                                  ELSE pile[j - Len(first)]
    BY <1>2, <2>2, ConcatProperties
  <2>4. pile2 = first \o pile
    BY <1>5 DEF first
  <2>5. Len(pile) \in Nat
    BY <1>2, LenProperties
  <2> HIDE DEF pile, pile2
  <2> QED BY <2>2, <2>3, <2>4, <2>5
<1> HIDE DEF pile, pile2
<1>7. Len(pile2) = Len(Args) - arg'
  BY <1>1, <1>2, <1>4, <1>6
<1>8. \A j \in 1 .. Len(pile2) : pile2[j] = Value(arg' + j)
  <2> TAKE j \in 1 .. Len(pile2)
  <2>1. CASE j = 1
    BY <1>1, <1>2, <1>4, <1>6, <2>1
  <2>2. CASE j # 1
    <3>1. j - 1 \in 1 .. Len(pile) /\ j \in 2 .. Len(pile) + 1
      BY <1>2, <1>4, <1>6, <2>2
    <3>2. arg + (j - 1) = arg' + j
      BY <1>1, <1>2, <1>4, <3>1
    <3> QED BY <1>2, <1>6, <3>1, <3>2
  <2> QED BY <2>1, <2>2
<1>9. \A k \in Int : Value(k)' = Value(k)
  BY <1>1, <1>3 DEF Value
<1>10. PICK missing \in 0 .. Len(Args) : missing = arg'
  BY <1>1, <1>2, <1>4
<1>11. \A j \in 1 .. Len(pile2) : pile2[j] = Value(missing + j)'
  <2> TAKE j \in 1 .. Len(pile2)
  <2>1. pile2[j] = Value(missing + j) /\ Value(missing + j)' = Value(missing + j)
    BY <1>1, <1>3, <1>8, <1>10 DEF Value
  <2> QED BY <2>1
<1>12. arg' <= missing /\ ~(arg' < missing) /\ missing \in 0 .. Len(Args')
  BY <1>3, <1>10
<1>13. InvPushed'
  <2>1. /\ missing \in (0 .. Len(Args))'
        /\ arg' <= missing /\ (arg' < missing => ~HasRoom(amx, 1)')
        /\ Len(pile2) = Len(Args)' - missing
    BY <1>3, <1>7, <1>10, <1>12
  <2>2. pile2 = stack[amx]'
    BY <1>1 DEF pile2
  <2> QED BY ONLY <1>11, <2>1, <2>2 DEF InvPushed
<1> QED BY <1>6, <1>13 DEF pile2

\* A push, and one that fails, leaves the strings where they are.
LEMMA PushesKeepsArgs ==
  ASSUME InvMachine, InvArgs, InvBatch, amx \in Scripts,
         PushesArgument \/ PushFails
  PROVE  InvArgs'
<1>1. /\ at = "push" /\ arg > 0 /\ arg' = arg - 1
      /\ UNCHANGED <<heap, batch, at, amx, addrs, refused>>
  BY DEF PushesArgument, PushFails, machineVars, loopVars
<1>2. Args' = Args
  BY <1>1 DEF Args, Event
<1>3. /\ heap[amx] \in Seq(Cell) /\ arg \in 1 .. Len(Args)
      /\ DOMAIN addrs = 1 .. Len(Args)
      /\ \A k \in 1 .. Len(Args) : IsString(Args[k]) => Holds(k)
      /\ amx \notin refused => stack[amx] \in Seq(Int) /\ InvPushed
  BY <1>1 DEF InvArgs, InCall
<1>4. \A k \in 1 .. Len(Args) : Holds(k) => Holds(k)'
  BY <1>1, <1>2 DEF Holds
<1>5. arg' \in 0 .. Len(Args) /\ Len(Args) \in Nat
  BY <1>1, <1>3, EventShape DEF InvBatch, InCall
<1>6. ASSUME amx \notin refused
      PROVE  stack'[amx] \in Seq(Int) /\ InvPushed'
  <2>1. CASE PushesArgument
    BY <1>6, <2>1, PushesKeepsPushed
  <2>2. CASE PushFails
    <3>1. stack' = stack /\ ~HasRoom(amx, 1)
      BY <2>2 DEF PushFails, machineVars
    <3>2. PICK missing \in 0 .. Len(Args) :
            /\ arg <= missing
            /\ Len(stack[amx]) = Len(Args) - missing
            /\ \A j \in 1 .. Len(stack[amx]) : stack[amx][j] = Value(missing + j)
      BY <1>1, <1>3, <1>6 DEF InvPushed
    <3>3. arg' <= missing
      BY <1>1, <1>3, <1>5, <3>2
    <3>4. ~HasRoom(amx, 1)'
      BY <1>1, <3>1 DEF HasRoom
    <3>5. \A j \in 1 .. Len(stack[amx]) : stack[amx][j] = Value(missing + j)'
      BY <1>1, <1>2, <3>2 DEF Value
    <3>6. InvPushed'
      BY <1>1, <1>2, <3>1, <3>2, <3>3, <3>4, <3>5 DEF InvPushed
    <3> QED BY <1>3, <1>6, <3>1, <3>6
  <2> QED BY <2>1, <2>2
<1> QED BY <1>1, <1>2, <1>3, <1>4, <1>5, <1>6 DEF InvArgs, InCall

LEMMA ArgsAreKept ==
  ASSUME OffersInv, InvMachine, InvArgs, InvBatch, [Next]_vars
  PROVE  InvArgs'
<1>1. InCall => amx \in Scripts
  BY ElementOfSeq DEF OffersInv, InvScripts, Loaded
<1>2. CASE \/ \E s \in Scripts : AmxLoad(s)
           \/ \E i \in 1 .. Len(scripts) : AmxUnload(i)
           \/ UNCHANGED vars
  <2> SUFFICES ASSUME InCall' PROVE InvArgs'
    BY DEF InvArgs
  <2>1. CASE \E s \in Scripts : AmxLoad(s)
    <3>1. PICK s \in Scripts : AmxLoad(s)
      BY <2>1
    <3>2. /\ s \notin Loaded /\ UNCHANGED <<at, batch, amx, arg, addrs>>
          /\ heap' = [heap EXCEPT ![s] = <<>>]
          /\ stack' = [stack EXCEPT ![s] = <<>>]
          /\ refused' = refused \ {s}
      BY <3>1 DEF AmxLoad, loopVars, callVars
    <3>3. InCall /\ s # amx
      BY <3>2 DEF OffersInv, InvScripts, InCall
    <3>4. /\ heap'[amx] = heap[amx] /\ stack'[amx] = stack[amx]
          /\ amx \in refused => amx \in refused'
      BY <1>1, <3>2, <3>3 DEF InvMachine
    <3> QED BY <3>2, <3>3, <3>4, QuietStepsKeepArgs
  <2>2. CASE \E i \in 1 .. Len(scripts) : AmxUnload(i)
    <3>1. UNCHANGED <<at, batch, amx, arg, addrs, heap, stack, refused>>
      BY <2>2 DEF AmxUnload, machineVars, loopVars, callVars
    <3> QED BY <3>1, QuietStepsKeepArgs DEF InCall
  <2>3. CASE UNCHANGED vars
    <3>1. UNCHANGED <<at, batch, amx, arg, addrs, heap, stack, refused>>
      BY <2>3 DEF vars, machineVars, loopVars, callVars
    <3> QED BY <3>1, QuietStepsKeepArgs DEF InCall
  <2> QED BY <1>2, <2>1, <2>2, <2>3
<1>3. CASE \/ Unload \/ ProcessTick \/ LoopEnds \/ FindPublicFails
           \/ AllotFails \/ ExecRefuses \/ ExecReturns
  <2>1. at' \in {"unloaded", "next", "idle"}
    BY <1>3 DEF Unload, ProcessTick, LoopEnds, FindPublicFails, Offers,
                AllotFails, ExecRefuses, ExecReturns, TurnEnds
  <2> QED BY <2>1 DEF InvArgs, InCall
<1>4. CASE FindPublicSucceeds
  <2>1. /\ at = "next" /\ at' = "allot" /\ amx' = scripts[index]
        /\ index \in 1 .. Len(scripts)
        /\ arg' = Len(Args) /\ addrs' = NoAddrs(Len(Args))
        /\ UNCHANGED <<heap, stack, batch, refused>>
    BY <1>4, LenProperties
    DEF FindPublicSucceeds, Offers, machineVars, OffersInv, InvScripts
  <2>2. scripts[index] \in Scripts
    BY <2>1, ElementOfSeq DEF OffersInv, InvScripts
  <2>3. heap'[amx'] = <<>> /\ (amx' \notin refused' => stack'[amx'] = <<>>)
    BY <2>1, <2>2 DEF InvMachine, Calling
  <2>4. Args' = Args /\ Len(Args) \in Nat
    BY <2>1, EventShape DEF Args, Event, InvBatch
  <2>5. \A S : <<>> \in Seq(S)
    BY EmptySeq
  <2>6. amx' \notin refused' => stack'[amx'] \in Seq(Int) /\ InvPushed'
    BY <2>1, <2>3, <2>5 DEF InvPushed
  <2> QED BY <2>1, <2>3, <2>4, <2>5, <2>6 DEF InvArgs, NoAddrs
<1>5. CASE SkipsNumber
  <2>1. /\ at = "allot" /\ arg > 0 /\ ~IsString(Args[arg]) /\ arg' = arg - 1
        /\ UNCHANGED <<at, batch, amx, addrs, heap, stack, refused>>
    BY <1>5 DEF SkipsNumber, machineVars, loopVars
  <2>2. Args' = Args /\ Len(Args) \in Nat
    BY <2>1, EventShape DEF Args, Event, InvBatch, InCall
  <2>3. \A k \in 1 .. Len(Args) : Holds(k) => Holds(k)'
    BY <2>1, <2>2 DEF Holds
  <2>4. arg \in 0 .. Len(Args)
    BY <2>1 DEF InvArgs, InCall
  <2>5. \A k \in 1 .. Len(Args) : k > arg' /\ IsString(Args[k]) => k > arg
    BY <2>1, <2>2, <2>4
  <2>6. amx' \notin refused' => stack'[amx'] \in Seq(Int) /\ InvPushed'
    BY <2>1 DEF InvArgs, InvPushed, InCall
  <2> QED BY <2>1, <2>2, <2>3, <2>4, <2>5, <2>6 DEF InvArgs, InCall
<1>6. CASE Allots
  BY <1>1, <1>6, AllotsKeepsArgs DEF Allots, InCall
<1>7. CASE AllotsDone
  <2>1. /\ at = "allot" /\ arg = 0 /\ at' = "push" /\ arg' = Len(Args)
        /\ UNCHANGED <<batch, amx, addrs, heap, stack, refused>>
    BY <1>7 DEF AllotsDone, machineVars, loopVars
  <2>2. Args' = Args /\ Len(Args) \in Nat
    BY <2>1, EventShape DEF Args, Event, InvBatch, InCall
  <2>3. \A k \in 1 .. Len(Args) : Holds(k) => Holds(k)'
    BY <2>1, <2>2 DEF Holds
  <2>4. ASSUME amx \notin refused
        PROVE  stack'[amx'] \in Seq(Int) /\ InvPushed'
    <3>1. stack'[amx'] = <<>> /\ Len(stack'[amx']) = 0
      BY <2>1, <2>4 DEF InvMachine
    <3>2. Len(Args') \in 0 .. Len(Args') /\ Len(Args') - Len(Args') = 0
      BY <2>2
    <3>3. arg' = Len(Args')
      BY <2>1, <2>2
    <3>4. InvPushed'
      BY <3>1, <3>2, <3>3 DEF InvPushed
    <3> QED BY <3>1, <3>4, EmptySeq
  <2>5. /\ arg' \in 0 .. Len(Args') /\ heap'[amx'] \in Seq(Cell)
        /\ DOMAIN addrs' = 1 .. Len(Args')
    BY <2>1, <2>2 DEF InvArgs, InCall
  <2>6. \A k \in 1 .. Len(Args') : IsString(Args'[k]) => Holds(k)'
    BY <2>1, <2>2, <2>3 DEF InvArgs, InCall
  <2> QED BY <2>1, <2>4, <2>5, <2>6 DEF InvArgs, InCall
<1>8. CASE PushesArgument \/ PushFails
  BY <1>1, <1>8, PushesKeepsArgs DEF PushesArgument, PushFails, InCall
<1>9. CASE ExecBegins
  <2>1. /\ at = "push" /\ arg = 0 /\ at' = "run"
        /\ UNCHANGED <<batch, amx, arg, addrs, heap, stack, refused>>
    BY <1>9 DEF ExecBegins, machineVars, loopVars, callVars
  <2>2. Args' = Args
    BY <2>1 DEF Args, Event
  <2>3. \A k \in 1 .. Len(Args) : Holds(k) => Holds(k)'
    BY <2>1, <2>2 DEF Holds
  <2>4. \A k : Value(k)' = Value(k)
    BY <2>1, <2>2 DEF Value
  <2>5. HasRoom(amx, 1)' <=> HasRoom(amx, 1)
    BY <2>1 DEF HasRoom
  <2>6. InvPushed => InvPushed'
    BY <2>1, <2>2, <2>4, <2>5 DEF InvPushed
  <2> QED BY <2>1, <2>2, <2>3, <2>6 DEF InvArgs, InCall
<1> QED BY <1>2, <1>3, <1>4, <1>5, <1>6, <1>7, <1>8, <1>9 DEF Next, InvokeSteps

\* A part of a sequence that is all in it.
LEMMA PartOfSeq ==
  ASSUME NEW S, NEW s \in Seq(S), NEW a \in Nat, NEW c \in Nat, a + c <= Len(s)
  PROVE  /\ SubSeq(s, a + 1, a + c) \in Seq(S)
         /\ Len(SubSeq(s, a + 1, a + c)) = c
         /\ \A j \in 1 .. c : SubSeq(s, a + 1, a + c)[j] = s[a + j]
<1>1. Len(s) \in Nat
  BY LenProperties
<1> DEFINE m == a + 1
           n == a + c
<1>2. /\ m \in Int /\ n \in Int /\ m >= 1 /\ n <= Len(s)
      /\ (IF m <= n THEN n - m + 1 ELSE 0) = c
      /\ \A j \in 1 .. c : j \in 1 .. n - m + 1 /\ m + j - 1 = a + j
  BY <1>1
<1>3. \A i \in m .. n : s[i] \in S
  BY <1>1, <1>2, ElementOfSeq
<1> HIDE DEF m, n
<1>4. /\ SubSeq(s, m, n) \in Seq(S)
      /\ Len(SubSeq(s, m, n)) = IF m <= n THEN n - m + 1 ELSE 0
      /\ \A j \in 1 .. n - m + 1 : SubSeq(s, m, n)[j] = s[m + j - 1]
  BY <1>2, <1>3, SubSeqProperties
<1>5. \A j \in 1 .. c : SubSeq(s, m, n)[j] = s[a + j]
  BY <1>2, <1>4
<1>6. Len(SubSeq(s, m, n)) = c
  BY <1>2, <1>4
<1> QED BY <1>4, <1>5, <1>6 DEF m, n

\* What is pushed for an argument is the number, or the address of the string.
LEMMA ValuesStand ==
  ASSUME InvArgs, InvBatch, at = "run", NEW k \in 1 .. Len(Args)
  PROVE  Stands(k, Value(k))
<1>1. InCall /\ batch # <<>>
  BY DEF InCall, InvBatch
<1>2. heap[amx] \in Seq(Cell) /\ (IsString(Args[k]) => Holds(k))
  BY <1>1 DEF InvArgs
<1>3. CASE ~IsString(Args[k])
  BY <1>3 DEF Value, Stands
<1>4. CASE IsString(Args[k])
  <2> DEFINE a == addrs[k]
             c == Cells(Args[k])
             string == SubSeq(heap[amx], a + 1, a + c)
  <2>1. /\ a \in Nat /\ a + c <= Len(heap[amx]) /\ c \in Nat \ {0}
        /\ \A j \in 1 .. c : heap[amx][a + j] = <<Args[k].str, j>>
    BY <1>1, <1>2, <1>4, EventShape DEF Holds, InvBatch
  <2> HIDE DEF a, c
  <2>5. /\ string \in Seq(Cell) /\ Len(string) = c
        /\ \A j \in 1 .. c : string[j] = <<Args[k].str, j>>
    BY <1>2, <2>1, PartOfSeq
  <2> HIDE DEF string
  <2>6. string = [j \in 1 .. c |-> <<Args[k].str, j>>]
    BY <2>5, LenProperties
  <2>7. Value(k) = a
    BY <1>4 DEF Value, a
  <2> QED BY <1>4, <2>6, <2>7 DEF Stands, string, c
<1> QED BY <1>3, <1>4

\* What a callback in the middle of its call has on its script's stack are its
\* arguments in their order, each string whole at the address given for it, all
\* of them or as many of the last ones as there was room for; and what it leaves
\* is nothing, but for the arguments of a call that amx_Exec refused.
THEOREM CallsKeepTheirMachine == Spec => []CallsKeepTheMachine
<1>1. Init => InvArgs /\ InvBatch
  BY EmptySeq DEF Init, InvArgs, InvBatch, InCall
<1>2. OffersInv /\ InvMachine /\ InvArgs /\ InvBatch /\ [Next]_vars
        => (InvArgs /\ InvBatch)'
  BY ArgsAreKept, BatchIsKept
<1>3. InvArgs /\ InvBatch => ArgumentsArrive
  <2> SUFFICES ASSUME InvArgs, InvBatch, at = "run", amx \notin refused
               PROVE  \E missing \in 0 .. Len(Args) :
                        /\ Len(stack[amx]) = Len(Args) - missing
                        /\ \A k \in 1 .. Len(stack[amx]) :
                             Stands(missing + k, stack[amx][k])
                        /\ missing > 0 => ~HasRoom(amx, 1)
    BY DEF ArgumentsArrive
  <2>1. InCall /\ arg = 0 /\ InvPushed /\ Len(Args) \in Nat
    BY EventShape DEF InCall, InvBatch, InvArgs
  <2>2. PICK missing \in 0 .. Len(Args) :
          /\ arg < missing => ~HasRoom(amx, 1)
          /\ Len(stack[amx]) = Len(Args) - missing
          /\ \A j \in 1 .. Len(stack[amx]) : stack[amx][j] = Value(missing + j)
    BY <2>1 DEF InvPushed
  <2>3. ASSUME NEW k \in 1 .. Len(stack[amx])
        PROVE  Stands(missing + k, stack[amx][k])
    <3>1. missing + k \in 1 .. Len(Args) /\ stack[amx][k] = Value(missing + k)
      BY <2>1, <2>2, <2>3
    <3> QED BY <2>1, <3>1, ValuesStand
  <2>4. missing > 0 => ~HasRoom(amx, 1)
    BY <2>1, <2>2
  <2> QED BY <2>2, <2>3, <2>4
<1>4. InvMachine => NothingIsLeftBehind
  BY DEF InvMachine, NothingIsLeftBehind
<1>5. NothingIsLeftBehind /\ ArgumentsArrive => CallsKeepTheMachine
  BY DEF CallsKeepTheMachine
<1> QED BY <1>1, <1>2, <1>3, <1>4, <1>5, OffersInvariant, MachineInvariant, PTL
        DEF Spec

-----------------------------------------------------------------------------
(* Type correctness                                                          *)

\* What the types add to the invariants above.
InvRooms ==
  /\ stack \in [Scripts -> Seq(Int)]
  /\ InCall => addrs \in [1 .. Len(Args) -> Nat \cup {None}]
  /\ firstAddr \in Nat \cup {None} /\ refused \subseteq Scripts
  /\ present \subseteq Scripts /\ shifted \in BOOLEAN

\* The heap and the stack of a script are within the room it has.
InvFits ==
  \A s \in Scripts : Len(heap[s]) + Len(stack[s]) <= HeapRoom[s]

LEMMA OthersKeepRooms ==
  ASSUME OffersInv, InvMachine, InvArgs, InvBatch, InvRooms,
         \/ \E s \in Scripts : AmxLoad(s)
         \/ \E i \in 1 .. Len(scripts) : AmxUnload(i)
         \/ Unload \/ ProcessTick \/ LoopEnds \/ FindPublicFails
         \/ FindPublicSucceeds
  PROVE  InvRooms'
<1>1. Loaded \subseteq Scripts
  BY ElementOfSeq DEF OffersInv, InvScripts, Loaded
<1>2. CASE \E s \in Scripts : AmxLoad(s)
  <2>1. PICK s \in Scripts : AmxLoad(s)
    BY <1>2
  <2>2. /\ stack' = [stack EXCEPT ![s] = <<>>] /\ refused' \subseteq refused
        /\ UNCHANGED <<batch, at, addrs, firstAddr, present, shifted>>
    BY <2>1 DEF AmxLoad, loopVars, callVars, historyVars
  <2>3. stack' \in [Scripts -> Seq(Int)]
    BY <2>2, EmptySeq DEF InvRooms
  <2>4. Args' = Args /\ (InCall' <=> InCall)
    BY <2>2 DEF Args, Event, InCall
  <2> QED BY <2>2, <2>3, <2>4 DEF InvRooms
<1>3. CASE \E i \in 1 .. Len(scripts) : AmxUnload(i)
  <2>1. PICK i \in 1 .. Len(scripts) : AmxUnload(i)
    BY <1>3
  <2>2. /\ UNCHANGED <<stack, batch, at, addrs, firstAddr, refused>>
        /\ present' \subseteq present /\ shifted' \in BOOLEAN
    BY <2>1 DEF AmxUnload, machineVars, loopVars, callVars, InvRooms
  <2>3. Args' = Args /\ (InCall' <=> InCall)
    BY <2>2 DEF Args, Event, InCall
  <2> QED BY <2>2, <2>3 DEF InvRooms
<1>4. CASE Unload \/ ProcessTick \/ LoopEnds \/ FindPublicFails
  <2>1. /\ UNCHANGED <<stack, firstAddr, refused>> /\ ~InCall'
        /\ present' = present \/ present' = Loaded
        /\ shifted' = shifted \/ shifted' = FALSE
    BY <1>4 DEF Unload, ProcessTick, LoopEnds, FindPublicFails, Offers,
                machineVars, callVars, historyVars, EventBegins, InCall
  <2> QED BY <1>1, <2>1 DEF InvRooms
<1>5. CASE FindPublicSucceeds
  <2>1. /\ addrs' = NoAddrs(Len(Args)) /\ firstAddr' = None
        /\ UNCHANGED <<stack, batch, refused, present, shifted>>
    BY <1>5 DEF FindPublicSucceeds, machineVars
  <2>2. Args' = Args
    BY <2>1 DEF Args, Event
  <2> QED BY <2>1, <2>2 DEF InvRooms, NoAddrs
<1> QED BY <1>2, <1>3, <1>4, <1>5

LEMMA CallKeepsRooms ==
  ASSUME OffersInv, InvMachine, InvArgs, InvBatch, InvRooms,
         \/ SkipsNumber \/ Allots \/ AllotFails \/ AllotsDone
         \/ PushesArgument \/ PushFails \/ ExecBegins \/ ExecRefuses
         \/ ExecReturns
  PROVE  InvRooms'
<1>1. InCall /\ amx \in Scripts
  <2>1. InCall
    BY DEF InCall, SkipsNumber, Allots, AllotFails, AllotsDone, PushesArgument,
           PushFails, ExecBegins, ExecRefuses, ExecReturns
  <2> QED BY <2>1, ElementOfSeq DEF OffersInv, InvScripts, Loaded
<1>2. UNCHANGED <<batch, present, shifted>> /\ Args' = Args
  BY DEF SkipsNumber, Allots, AllotFails, AllotsDone, PushesArgument, PushFails,
         ExecBegins, ExecRefuses, ExecReturns, historyVars, Args, Event
<1>3. CASE SkipsNumber \/ AllotsDone \/ PushFails \/ ExecBegins
  <2>1. UNCHANGED <<stack, addrs, firstAddr, refused>>
    BY <1>3 DEF SkipsNumber, AllotsDone, PushFails, ExecBegins, machineVars,
                callVars
  <2> QED BY <1>1, <1>2, <2>1 DEF InvRooms
<1>4. CASE Allots
  <2>1. /\ at = "allot" /\ arg > 0
        /\ addrs' = [addrs EXCEPT ![arg] = Len(heap[amx])]
        /\ firstAddr' = IF firstAddr = None THEN Len(heap[amx]) ELSE firstAddr
        /\ UNCHANGED <<stack, refused>>
    BY <1>4 DEF Allots
  <2>2. Len(heap[amx]) \in Nat /\ arg \in 1 .. Len(Args)
    BY <1>1, <2>1, LenProperties DEF InvArgs
  <2>3. addrs' \in [1 .. Len(Args) -> Nat \cup {None}]
    BY <1>1, <2>1, <2>2 DEF InvRooms
  <2>4. firstAddr' \in Nat \cup {None}
    BY <2>1, <2>2 DEF InvRooms
  <2> QED BY <1>2, <2>1, <2>3, <2>4 DEF InvRooms
<1>5. CASE PushesArgument
  <2>1. /\ stack' = [stack EXCEPT ![amx] = <<Value(arg)>> \o stack[amx]]
        /\ UNCHANGED <<addrs, firstAddr, refused>>
    BY <1>5 DEF PushesArgument, Pushed, Value
  <2>2. stack[amx] \in Seq(Int)
    BY <1>1 DEF InvRooms
  <2>3. <<Value(arg)>> \o stack[amx] \in Seq(Int)
    BY <1>1, <1>5, <2>2, PushedIsNumber, ConcatProperties
  <2> QED BY <1>1, <1>2, <2>1, <2>3 DEF InvRooms
<1>6. CASE AllotFails \/ ExecRefuses \/ ExecReturns
  <2>1. ~InCall' /\ firstAddr' = None
    BY <1>6 DEF AllotFails, ExecRefuses, ExecReturns, TurnEnds, InCall
  <2>2. stack' = stack \/ stack' = [stack EXCEPT ![amx] = <<>>]
    BY <1>6 DEF AllotFails, ExecRefuses, ExecReturns
  <2>3. refused' \subseteq Scripts
    BY <1>1, <1>6 DEF AllotFails, ExecRefuses, ExecReturns, InvRooms
  <2> QED BY <1>2, <2>1, <2>2, <2>3, EmptySeq DEF InvRooms
<1> QED BY <1>3, <1>4, <1>5, <1>6

\* What is on a heap and on a stack has a length.
LEMMA LengthsAreNumbers ==
  ASSUME InvMachine, InvArgs, InvRooms, NEW s \in Scripts
  PROVE  Len(heap[s]) \in Nat /\ Len(stack[s]) \in Nat
<1>1. stack[s] \in Seq(Int)
  BY DEF InvRooms
<1>2. CASE InCall /\ s = amx
  BY <1>1, <1>2, LenProperties DEF InvArgs
<1>3. CASE ~(InCall /\ s = amx)
  <2>1. heap[s] = <<>>
    BY <1>3 DEF InvMachine, Calling, InCall
  <2> QED BY <1>1, <2>1, LenProperties
<1> QED BY <1>2, <1>3

\* A step that grows no heap and no stack keeps all in their rooms.
LEMMA EmptyingKeepsFits ==
  ASSUME InvMachine, InvArgs, InvRooms, InvFits,
         \A s \in Scripts : /\ heap'[s] = heap[s] \/ heap'[s] = <<>>
                            /\ stack'[s] = stack[s] \/ stack'[s] = <<>>
  PROVE  InvFits'
<1> SUFFICES ASSUME NEW s \in Scripts
             PROVE  Len(heap'[s]) + Len(stack'[s]) <= HeapRoom[s]
  BY DEF InvFits
<1> DEFINE h  == Len(heap[s])
           k  == Len(stack[s])
           h2 == Len(heap'[s])
           k2 == Len(stack'[s])
<1>1. h + k <= HeapRoom[s] /\ h \in Nat /\ k \in Nat
  BY LengthsAreNumbers DEF InvFits
<1>2. (h2 = h \/ h2 = 0) /\ (k2 = k \/ k2 = 0)
  <2>1. Len(<<>>) = 0
    OBVIOUS
  <2> QED BY <2>1
<1>3. HeapRoom[s] \in Nat
  BY ScriptsAssumption
<1> HIDE DEF h, k, h2, k2
<1>4. h2 + k2 <= HeapRoom[s]
  BY <1>1, <1>2, <1>3
<1> QED BY <1>4 DEF h2, k2

\* Allot and Push take no cell that is not there.
LEMMA FitsIsKept ==
  ASSUME OffersInv, InvMachine, InvArgs, InvBatch, InvRooms, InvFits, [Next]_vars
  PROVE  InvFits'
<1>1. InCall => amx \in Scripts
  BY ElementOfSeq DEF OffersInv, InvScripts, Loaded
<1>2. CASE \/ \E i \in 1 .. Len(scripts) : AmxUnload(i)
           \/ Unload \/ ProcessTick \/ LoopEnds \/ FindPublicFails
           \/ FindPublicSucceeds \/ SkipsNumber \/ AllotsDone \/ PushFails
           \/ ExecBegins \/ UNCHANGED vars
  <2>1. UNCHANGED <<heap, stack>>
    BY <1>2 DEF AmxUnload, Unload, ProcessTick, LoopEnds, FindPublicFails,
                FindPublicSucceeds, SkipsNumber, AllotsDone, PushFails,
                ExecBegins, vars, machineVars
  <2> QED BY <2>1, EmptyingKeepsFits
<1>3. CASE \E s \in Scripts : AmxLoad(s)
  <2>1. PICK s \in Scripts : /\ heap' = [heap EXCEPT ![s] = <<>>]
                             /\ stack' = [stack EXCEPT ![s] = <<>>]
    BY <1>3 DEF AmxLoad
  <2> QED BY <2>1, EmptyingKeepsFits DEF InvMachine
<1>4. CASE AllotFails \/ ExecRefuses \/ ExecReturns
  <2>1. InCall /\ Releases
    BY <1>4 DEF AllotFails, ExecRefuses, ExecReturns, InCall
  <2>2. \A s \in Scripts : heap'[s] = heap[s] \/ heap'[s] = <<>>
    BY <1>1, <2>1, ReleasesAll
  <2>3. \A s \in Scripts : stack'[s] = stack[s] \/ stack'[s] = <<>>
    BY <1>1, <1>4, <2>1 DEF AllotFails, ExecRefuses, ExecReturns, InvMachine
  <2> QED BY <2>2, <2>3, EmptyingKeepsFits
<1>5. CASE Allots
  <2> DEFINE room == heap[amx]
             str  == [k \in 1 .. Cells(Args[arg]) |-> <<Args[arg].str, k>>]
  <2>1. /\ at = "allot" /\ arg > 0 /\ IsString(Args[arg])
        /\ Len(room) + Len(stack[amx]) + Cells(Args[arg]) <= HeapRoom[amx]
        /\ heap' = [heap EXCEPT ![amx] = room \o str] /\ stack' = stack
    BY <1>5 DEF Allots, HasRoom
  <2>2. InCall /\ amx \in Scripts /\ room \in Seq(Cell) /\ arg \in 1 .. Len(Args)
    BY <1>1, <2>1 DEF InvArgs, InCall
  <2>3. /\ Cells(Args[arg]) \in Nat \ {0}
        /\ \A j \in Nat : <<Args[arg].str, j>> \in Cell
    BY <2>1, <2>2, EventShape DEF InvBatch
  <2>4. str \in Seq(Cell) /\ Len(str) = Cells(Args[arg])
    BY <2>3
  <2>5. heap'[amx] = room \o str /\ \A s \in Scripts \ {amx} : heap'[s] = heap[s]
    BY <2>1, <2>2 DEF InvMachine
  <2>6. Len(room) \in Nat /\ Len(stack[amx]) \in Nat
    BY <2>2, LengthsAreNumbers
  <2> HIDE DEF room, str
  <2>7. Len(room \o str) = Len(room) + Len(str)
    BY <2>2, <2>4, ConcatProperties
  <2>8. Len(heap'[amx]) + Len(stack'[amx]) <= HeapRoom[amx]
    <3> DEFINE h == Len(room)
               k == Len(stack[amx])
               n == Cells(Args[arg])
    <3>1. /\ Len(heap'[amx]) = h + n /\ Len(stack'[amx]) = k
          /\ h \in Nat /\ k \in Nat /\ n \in Nat
          /\ h + k + n <= HeapRoom[amx]
      BY <2>1, <2>3, <2>4, <2>5, <2>6, <2>7
    <3>2. HeapRoom[amx] \in Nat
      BY <2>2, ScriptsAssumption
    <3> HIDE DEF h, k, n
    <3>3. (h + n) + k <= HeapRoom[amx]
      BY <3>1, <3>2
    <3> QED BY <3>1, <3>3
  <2> QED
    <3> SUFFICES ASSUME NEW s \in Scripts
                 PROVE  Len(heap'[s]) + Len(stack'[s]) <= HeapRoom[s]
      BY DEF InvFits
    <3>1. CASE s = amx
      BY <2>8, <3>1
    <3>2. CASE s # amx
      BY <2>1, <2>5, <3>2 DEF InvFits
    <3> QED BY <3>1, <3>2
<1>6. CASE PushesArgument
  <2>1. /\ at = "push" /\ heap' = heap
        /\ stack' = [stack EXCEPT ![amx] = <<Value(arg)>> \o stack[amx]]
        /\ Len(heap[amx]) + Len(stack[amx]) + 1 <= HeapRoom[amx]
    BY <1>6 DEF PushesArgument, Pushed, Value, HasRoom
  <2>2. amx \in Scripts /\ stack[amx] \in Seq(Int)
    BY <1>1, <2>1 DEF InvRooms, InCall
  <2>3. Len(heap[amx]) \in Nat /\ Len(stack[amx]) \in Nat
    BY <2>2, LengthsAreNumbers
  <2> DEFINE first == <<Value(arg)>>
  <2>4. first \in Seq(Int) /\ Len(first) = 1
    BY <1>6, PushedIsNumber
  <2>5. stack'[amx] = first \o stack[amx]
    BY <2>1, <2>2 DEF InvMachine
  <2>6. \A s \in Scripts \ {amx} : stack'[s] = stack[s]
    BY <2>1, <2>2 DEF InvMachine
  <2> HIDE DEF first
  <2>7. Len(stack'[amx]) = 1 + Len(stack[amx])
    <3>1. Len(first \o stack[amx]) = Len(first) + Len(stack[amx])
      BY <2>2, <2>4, ConcatProperties
    <3> QED BY <2>4, <2>5, <3>1
  <2>8. Len(heap'[amx]) + Len(stack'[amx]) <= HeapRoom[amx]
    <3> DEFINE h == Len(heap[amx])
               k == Len(stack[amx])
    <3>1. /\ Len(heap'[amx]) = h /\ Len(stack'[amx]) = 1 + k
          /\ h \in Nat /\ k \in Nat /\ h + k + 1 <= HeapRoom[amx]
      BY <2>1, <2>3, <2>7
    <3>2. HeapRoom[amx] \in Nat
      BY <2>2, ScriptsAssumption
    <3> HIDE DEF h, k
    <3>3. h + (1 + k) <= HeapRoom[amx]
      BY <3>1, <3>2
    <3> QED BY <3>1, <3>3
  <2> QED
    <3> SUFFICES ASSUME NEW s \in Scripts
                 PROVE  Len(heap'[s]) + Len(stack'[s]) <= HeapRoom[s]
      BY DEF InvFits
    <3>1. CASE s = amx
      BY <2>8, <3>1
    <3>2. CASE s # amx
      BY <2>1, <2>6, <3>2 DEF InvFits
    <3> QED BY <3>1, <3>2
<1> QED BY <1>2, <1>3, <1>4, <1>5, <1>6 DEF Next, InvokeSteps

\* Every variable keeps its type.  In particular what is put on a script's heap
\* and on its stack never meets, and Invoke never works on an event that is gone.
THEOREM CallbacksTypeOK == Spec => []TypeOK
<1>1. Init => InvRooms /\ InvFits /\ InvArgs /\ InvBatch
  <2> SUFFICES ASSUME Init PROVE InvRooms /\ InvFits /\ InvArgs /\ InvBatch
    OBVIOUS
  <2>1. InvRooms /\ InvArgs /\ InvBatch
    BY EmptySeq DEF Init, InvRooms, InvArgs, InvBatch, InCall
  <2>2. InvFits
    BY ScriptsAssumption DEF Init, InvFits
  <2> QED BY <2>1, <2>2
<1>2. OffersInv /\ InvMachine /\ InvArgs /\ InvBatch /\ InvRooms /\ InvFits
        /\ [Next]_vars => (InvRooms /\ InvFits /\ InvArgs /\ InvBatch)'
  <2> SUFFICES ASSUME OffersInv, InvMachine, InvArgs, InvBatch, InvRooms, InvFits,
                      [Next]_vars
               PROVE  InvRooms'
    BY ArgsAreKept, BatchIsKept, FitsIsKept
  <2>1. CASE Next
    BY <2>1, OthersKeepRooms, CallKeepsRooms DEF Next, InvokeSteps
  <2>2. CASE UNCHANGED vars
    BY <2>2 DEF vars, machineVars, loopVars, callVars, historyVars, InvRooms,
                InCall, Args, Event
  <2> QED BY <2>1, <2>2
<1>3. OffersInv /\ InvMachine /\ InvArgs /\ InvBatch /\ InvRooms /\ InvFits
        => TypeOK
  <2> SUFFICES ASSUME OffersInv, InvMachine, InvArgs, InvBatch, InvRooms, InvFits
               PROVE  TypeOK
    OBVIOUS
  <2>1. ASSUME NEW s \in Scripts
        PROVE  Len(heap[s]) + Len(stack[s]) \in 0 .. HeapRoom[s]
    <3> DEFINE h == Len(heap[s])
               k == Len(stack[s])
    <3>1. h \in Nat /\ k \in Nat /\ h + k <= HeapRoom[s]
      BY LengthsAreNumbers DEF InvFits
    <3>2. HeapRoom[s] \in Nat
      BY ScriptsAssumption
    <3> HIDE DEF h, k
    <3>3. h + k \in 0 .. HeapRoom[s]
      BY <3>1, <3>2
    <3> QED BY <3>3 DEF h, k
  <2>2. at \in {"allot", "push", "run"} =>
          /\ amx \in Loaded /\ arg \in 0 .. Len(Args)
          /\ addrs \in [1 .. Len(Args) -> Nat \cup {None}]
    BY DEF OffersInv, InvScripts, InvArgs, InvRooms, InCall
  <2>3. offered \subseteq Scripts
    BY ElementOfSeq DEF OffersInv, InvScripts, InvOffers, Loaded
  <2>4. at \in {"next", "allot", "push", "run"} => batch # <<>>
    BY DEF InvBatch, InCall
  <2> QED BY <2>1, <2>2, <2>3, <2>4
          DEF TypeOK, OffersInv, InvScripts, InvMachine, InvBatch, InvRooms
<1> QED BY <1>1, <1>2, <1>3, OffersInvariant, MachineInvariant, PTL DEF Spec
=============================================================================

---------------------------- MODULE ServerProofs ----------------------------
(***************************************************************************)
(* The servers beside unified_server: one request at a time has the NPU of *)
(* the web server, those that wait in turn (NpuQueue), the daemon leaves   *)
(* no backend behind and its waits are bounded (Onebitd), and the Jarvis   *)
(* server keeps the keys it issued and bounds the usage (JarvisAccounts),  *)
(* each for every value of its constants.                                  *)
(***************************************************************************)
EXTENDS NpuQueue, Onebitd, JarvisAccounts, FiniteSetTheorems, TLAPS

(***************************************************************************)
(* NpuQueue                                                                *)
(***************************************************************************)
QueueShapes ==
  /\ inUse \in BOOLEAN /\ npuQueue \in Seq(Sessions)
  /\ phase \in [Sessions -> {"away", "try", "push", "queued", "posted", "running", "handOn",
                            "cooldown", "tail"}]

\* NpuExclusive in three parts.
FlagIsHeld == inUse = (Holders # {})
OneHolder == \A s, t \in Holders : s = t
QueuedOnce ==
  /\ \A i \in DOMAIN npuQueue : phase[npuQueue[i]] = "queued"
  /\ \A s \in Sessions : phase[s] = "queued" => \E i \in DOMAIN npuQueue : npuQueue[i] = s
  /\ \A i, j \in DOMAIN npuQueue : npuQueue[i] = npuQueue[j] => i = j

QueueInv == QueueShapes /\ FlagIsHeld /\ OneHolder /\ QueuedOnce

\* The invariant is kept by Request.
LEMMA KeepsRequest == ASSUME QueueInv, NEW s \in Sessions, Request(s) PROVE QueueInv'
<1>1. QueueShapes'
  BY DEF QueueInv, QueueShapes, QueuedOnce, Request, GoTo
<1>2. FlagIsHeld'
  BY DEF QueueInv, QueueShapes, FlagIsHeld, OneHolder, QueuedOnce, Holders, Request, GoTo
<1>3. OneHolder'
  BY DEF QueueInv, QueueShapes, FlagIsHeld, OneHolder, QueuedOnce, Holders, Request, GoTo
<1>4. QueuedOnce'
  BY DEF QueueInv, QueueShapes, QueuedOnce, Request, GoTo
<1> QED BY <1>1, <1>2, <1>3, <1>4 DEF QueueInv

\* The invariant is kept by TryAcquire.
LEMMA KeepsTryAcquire == ASSUME QueueInv, NEW s \in Sessions, TryAcquire(s) PROVE QueueInv'
<1>1. QueueShapes'
  BY DEF QueueInv, QueueShapes, QueuedOnce, TryAcquire, GoTo
<1>2. FlagIsHeld'
  BY DEF QueueInv, QueueShapes, FlagIsHeld, OneHolder, QueuedOnce, Holders, TryAcquire, GoTo
<1>3. OneHolder'
  <2>1. CASE inUse
    BY <2>1 DEF QueueInv, QueueShapes, OneHolder, Holders, TryAcquire, GoTo
  <2>2. CASE ~inUse
    <3>1. Holders = {}
      BY <2>2 DEF QueueInv, FlagIsHeld
    <3>2. Holders' = {s}
      BY <2>2, <3>1 DEF QueueInv, QueueShapes, Holders, TryAcquire, GoTo
    <3> QED BY <3>2 DEF OneHolder
  <2> QED BY <2>1, <2>2
<1>4. QueuedOnce'
  BY DEF QueueInv, QueueShapes, QueuedOnce, TryAcquire, GoTo
<1> QED BY <1>1, <1>2, <1>3, <1>4 DEF QueueInv

\* The invariant is kept by Push.
LEMMA KeepsPush == ASSUME QueueInv, NEW s \in Sessions, Push(s) PROVE QueueInv'
<1>1. QueueShapes'
  BY DEF QueueInv, QueueShapes, QueuedOnce, Push, GoTo
<1>2. FlagIsHeld'
  BY DEF QueueInv, QueueShapes, FlagIsHeld, OneHolder, QueuedOnce, Holders, Push, GoTo
<1>3. OneHolder'
  BY DEF QueueInv, QueueShapes, FlagIsHeld, OneHolder, QueuedOnce, Holders, Push, GoTo
<1>4. QueuedOnce'
  BY DEF QueueInv, QueueShapes, QueuedOnce, Push, GoTo
<1> QED BY <1>1, <1>2, <1>3, <1>4 DEF QueueInv

\* The invariant is kept by RunPosted.
LEMMA KeepsRunPosted == ASSUME QueueInv, NEW s \in Sessions, RunPosted(s) PROVE QueueInv'
<1>1. QueueShapes'
  BY DEF QueueInv, QueueShapes, QueuedOnce, RunPosted, GoTo
<1>2. FlagIsHeld'
  BY DEF QueueInv, QueueShapes, FlagIsHeld, OneHolder, QueuedOnce, Holders, RunPosted, GoTo
<1>3. OneHolder'
  BY DEF QueueInv, QueueShapes, FlagIsHeld, OneHolder, QueuedOnce, Holders, RunPosted, GoTo
<1>4. QueuedOnce'
  BY DEF QueueInv, QueueShapes, QueuedOnce, RunPosted, GoTo
<1> QED BY <1>1, <1>2, <1>3, <1>4 DEF QueueInv

\* The invariant is kept by Answer.
LEMMA KeepsAnswer == ASSUME QueueInv, NEW s \in Sessions, Answer(s) PROVE QueueInv'
<1>1. QueueShapes'
  BY DEF QueueInv, QueueShapes, QueuedOnce, Answer, GoTo
<1>2. FlagIsHeld'
  BY DEF QueueInv, QueueShapes, FlagIsHeld, OneHolder, QueuedOnce, Holders, Answer, GoTo
<1>3. OneHolder'
  BY DEF QueueInv, QueueShapes, FlagIsHeld, OneHolder, QueuedOnce, Holders, Answer, GoTo
<1>4. QueuedOnce'
  BY DEF QueueInv, QueueShapes, QueuedOnce, Answer, GoTo
<1> QED BY <1>1, <1>2, <1>3, <1>4 DEF QueueInv

\* The invariant is kept by HandOn.
LEMMA KeepsHandOn == ASSUME QueueInv, NEW s \in Sessions, HandOn(s) PROVE QueueInv'
<1>1. QueueShapes'
  BY DEF QueueInv, QueueShapes, QueuedOnce, HandOn, GoTo
<1>2. FlagIsHeld'
  BY DEF QueueInv, QueueShapes, FlagIsHeld, OneHolder, QueuedOnce, Holders, HandOn, GoTo
<1>3. OneHolder'
  BY DEF QueueInv, QueueShapes, FlagIsHeld, OneHolder, QueuedOnce, Holders, HandOn, GoTo
<1>4. QueuedOnce'
  BY DEF QueueInv, QueueShapes, QueuedOnce, HandOn, GoTo
<1> QED BY <1>1, <1>2, <1>3, <1>4 DEF QueueInv

\* The invariant is kept by PopNext: who was the holder gives way to the head of the queue.
LEMMA KeepsPopNext == ASSUME QueueInv, NEW s \in Sessions, PopNext(s) PROVE QueueInv'
<1>h. phase[s] = "cooldown" /\ Holders = {s} /\ inUse
  BY DEF QueueInv, QueueShapes, FlagIsHeld, OneHolder, Holders, PopNext
<1>1. CASE npuQueue = <<>>
  <2>1. phase' = [phase EXCEPT ![s] = "tail"] /\ npuQueue' = npuQueue /\ inUse' = FALSE
    BY <1>1 DEF PopNext, GoTo
  <2>2. Holders' = {}
    BY <1>h, <2>1 DEF QueueInv, QueueShapes, Holders
  <2>3. QueueShapes'
    BY <2>1 DEF QueueInv, QueueShapes
  <2>4. QueuedOnce'
    BY <1>h, <2>1 DEF QueueInv, QueueShapes, QueuedOnce
  <2> QED BY <2>1, <2>2, <2>3, <2>4 DEF QueueInv, FlagIsHeld, OneHolder
<1>2. CASE npuQueue # <<>>
  <2> DEFINE t == Head(npuQueue)
  <2>1. t \in Sessions /\ t = npuQueue[1] /\ 1 \in DOMAIN npuQueue
    BY <1>2 DEF QueueInv, QueueShapes
  <2>2. phase[t] = "queued" /\ t # s
    BY <1>h, <2>1 DEF QueueInv, QueuedOnce
  <2>3. /\ phase' = [phase EXCEPT ![t] = "posted", ![s] = "tail"]
        /\ npuQueue' = Tail(npuQueue) /\ inUse' = inUse
    BY <1>2 DEF PopNext
  <2>4. npuQueue' \in Seq(Sessions)
    BY <1>2, <2>3 DEF QueueInv, QueueShapes
  <2>5. QueueShapes'
    BY <1>h, <2>1, <2>3, <2>4 DEF QueueInv, QueueShapes
  <2>6. Holders' = {t}
    BY <1>h, <2>1, <2>2, <2>3 DEF QueueInv, QueueShapes, Holders
  <2>7. /\ Len(npuQueue') = Len(npuQueue) - 1
        /\ \A i \in 1 .. Len(npuQueue') : npuQueue'[i] = npuQueue[i + 1]
        /\ DOMAIN npuQueue' = 1 .. Len(npuQueue') /\ DOMAIN npuQueue = 1 .. Len(npuQueue)
        /\ Len(npuQueue) \in Nat \ {0}
    BY <1>2, <2>3, <2>4 DEF QueueInv, QueueShapes
  <2>8. QueuedOnce'
    <3>1. \A i \in DOMAIN npuQueue : npuQueue[i] \in Sessions
      BY DEF QueueInv, QueueShapes
    <3>2. ASSUME NEW i \in DOMAIN npuQueue' PROVE phase'[npuQueue'[i]] = "queued"
      <4>1. i + 1 \in DOMAIN npuQueue /\ i + 1 # 1 /\ npuQueue'[i] = npuQueue[i + 1]
        BY <2>7
      <4>2. npuQueue[i + 1] # t /\ phase[npuQueue[i + 1]] = "queued"
        BY <2>1, <4>1 DEF QueueInv, QueuedOnce
      <4> QED BY <1>h, <2>3, <3>1, <4>1, <4>2 DEF QueueInv, QueueShapes
    <3>3. ASSUME NEW u \in Sessions, phase'[u] = "queued" PROVE \E i \in DOMAIN npuQueue' : npuQueue'[i] = u
      <4>1. phase[u] = "queued" /\ u # t
        BY <1>h, <2>1, <2>3, <3>3 DEF QueueInv, QueueShapes
      <4>2. PICK k \in DOMAIN npuQueue : npuQueue[k] = u
        BY <4>1 DEF QueueInv, QueuedOnce
      <4>3. k # 1
        BY <2>1, <4>1, <4>2
      <4>4. k - 1 \in DOMAIN npuQueue' /\ npuQueue'[k - 1] = npuQueue[k]
        BY <2>7, <4>2, <4>3
      <4> QED BY <4>2, <4>4
    <3>4. ASSUME NEW i \in DOMAIN npuQueue', NEW j \in DOMAIN npuQueue', npuQueue'[i] = npuQueue'[j]
          PROVE i = j
      <4>1. i + 1 \in DOMAIN npuQueue /\ j + 1 \in DOMAIN npuQueue /\ npuQueue[i + 1] = npuQueue[j + 1]
        BY <2>7, <3>4
      <4>2. i + 1 = j + 1
        BY <4>1 DEF QueueInv, QueuedOnce
      <4> QED BY <2>7, <4>2
    <3> QED BY <3>2, <3>3, <3>4 DEF QueuedOnce
  <2> HIDE DEF t
  <2> QED BY <1>h, <2>3, <2>5, <2>6, <2>8 DEF QueueInv, FlagIsHeld, OneHolder
<1> QED BY <1>1, <1>2

\* The invariant is kept by Return.
LEMMA KeepsReturn == ASSUME QueueInv, NEW s \in Sessions, Return(s) PROVE QueueInv'
<1>1. QueueShapes'
  BY DEF QueueInv, QueueShapes, QueuedOnce, Return, GoTo
<1>2. FlagIsHeld'
  BY DEF QueueInv, QueueShapes, FlagIsHeld, OneHolder, QueuedOnce, Holders, Return, GoTo
<1>3. OneHolder'
  BY DEF QueueInv, QueueShapes, FlagIsHeld, OneHolder, QueuedOnce, Holders, Return, GoTo
<1>4. QueuedOnce'
  BY DEF QueueInv, QueueShapes, QueuedOnce, Return, GoTo
<1> QED BY <1>1, <1>2, <1>3, <1>4 DEF QueueInv

\* Every step keeps the invariant.
LEMMA QueueStep == QueueInv /\ [NpuQueueNext]_queueVars => QueueInv'
<1> SUFFICES ASSUME QueueInv, [NpuQueueNext]_queueVars PROVE QueueInv'
  OBVIOUS
<1>1. ASSUME NEW s \in Sessions, Request(s) \/ SessionStep(s) PROVE QueueInv'
  BY <1>1, KeepsRequest, KeepsTryAcquire, KeepsPush, KeepsRunPosted, KeepsAnswer, KeepsHandOn,
     KeepsPopNext, KeepsReturn DEF SessionStep
<1>2. CASE UNCHANGED queueVars
  BY <1>2 DEF QueueInv, QueueShapes, FlagIsHeld, OneHolder, QueuedOnce, Holders, queueVars
<1> QED BY <1>1, <1>2 DEF NpuQueueNext

\* The first state satisfies it.
LEMMA QueueStart == NpuQueueInit => QueueInv
<1>1. NpuQueueInit => Holders = {}
  BY DEF NpuQueueInit, Holders
<1>2. NpuQueueInit => QueueShapes
  <2>1. <<>> \in Seq(Sessions)
    OBVIOUS
  <2>2. NpuQueueInit => inUse \in BOOLEAN
    BY Zenon DEF NpuQueueInit
  <2>3. NpuQueueInit => npuQueue \in Seq(Sessions)
    BY <2>1, Zenon DEF NpuQueueInit
  <2>4. NpuQueueInit => phase \in [Sessions -> {"away", "try", "push", "queued", "posted",
                                      "running", "handOn", "cooldown", "tail"}]
    BY DEF NpuQueueInit
  <2> QED BY <2>2, <2>3, <2>4 DEF QueueShapes
<1>3. NpuQueueInit => QueuedOnce
  <2>1. NpuQueueInit => DOMAIN npuQueue = {}
    BY DEF NpuQueueInit
  <2> QED BY <2>1 DEF NpuQueueInit, QueuedOnce
<1> QED BY <1>1, <1>2, <1>3 DEF NpuQueueInit, QueueInv, FlagIsHeld, OneHolder

\* One request at a time has the NPU, the flag says so, and the queue holds who waits.
THEOREM QueueNpuExclusive == NpuQueueSpec => []NpuExclusive
<1>1. QueueInv => NpuExclusive
  BY DEF QueueInv, QueueShapes, FlagIsHeld, OneHolder, QueuedOnce, NpuExclusive
<1> QED BY <1>1, QueueStart, QueueStep, PTL DEF NpuQueueSpec

\* While a request waits in the queue, a step gives the NPU to nobody but the one that has
\* waited longest.
HeadIsNext == npuQueue # <<>> => Holders' \ Holders \subseteq {Head(npuQueue)}

LEMMA OnlyHeadIsNext ==
  ASSUME QueueInv, inUse, NpuQueueNext
  PROVE  HeadIsNext
<1>1. PICK s \in Sessions : Request(s) \/ SessionStep(s)
  BY DEF NpuQueueNext
<1>2. CASE TryAcquire(s) \/ Request(s) \/ Push(s) \/ RunPosted(s) \/ Answer(s) \/ Return(s)
  BY <1>2 DEF QueueInv, QueueShapes, HeadIsNext, Holders, TryAcquire, Request, Push, RunPosted,
     Answer, Return, GoTo
<1>3. CASE HandOn(s)
  BY <1>3 DEF QueueInv, QueueShapes, HeadIsNext, Holders, HandOn, GoTo
<1>4. CASE PopNext(s)
  <2> SUFFICES ASSUME npuQueue # <<>> PROVE Holders' \ Holders \subseteq {Head(npuQueue)}
    BY DEF HeadIsNext
  <2>1. Head(npuQueue) \in Sessions
    BY DEF QueueInv, QueueShapes
  <2>2. phase' = [phase EXCEPT ![Head(npuQueue)] = "posted", ![s] = "tail"]
    BY <1>4 DEF PopNext
  <2> QED BY <2>1, <2>2 DEF QueueInv, QueueShapes, Holders
<1> QED BY <1>1, <1>2, <1>3, <1>4 DEF SessionStep

\* A step takes from the queue at its head and adds to it at its end only.
MovesUp == npuQueue' = npuQueue \/ npuQueue' = Tail(npuQueue) \/ \E s \in Sessions : npuQueue' = Append(npuQueue, s)

LEMMA QueueMovesUp == ASSUME [NpuQueueNext]_queueVars PROVE MovesUp
<1>1. CASE UNCHANGED queueVars
  BY <1>1 DEF queueVars, MovesUp
<1>2. CASE NpuQueueNext
  BY <1>2, Zenon DEF NpuQueueNext, SessionStep, Request, TryAcquire, Push, RunPosted, Answer, HandOn,
     PopNext, Return, MovesUp, GoTo
<1> QED BY <1>1, <1>2

\* The requests that wait while the NPU is taken get it in the order in which they were
\* queued, and none that comes later is let in before them (try_acquire_npu_access(),
\* process_next_npu_request()).  What no theorem can say is that the flag is set while
\* somebody waits: a request pushed after the last release waits with the NPU free, and
\* there the next one that comes overtakes it.
THEOREM QueueServesInOrder ==
  NpuQueueSpec => [][MovesUp /\ (inUse => HeadIsNext)]_queueVars
<1>1. NpuQueueSpec => []QueueInv
  BY QueueStart, QueueStep, PTL DEF NpuQueueSpec
<1>2. QueueInv /\ [NpuQueueNext]_queueVars => [MovesUp /\ (inUse => HeadIsNext)]_queueVars
  BY OnlyHeadIsNext, QueueMovesUp
<1> QED BY <1>1, <1>2, PTL DEF NpuQueueSpec

(***************************************************************************)
(* Onebitd                                                                 *)
(***************************************************************************)
DaemonTypes ==
  /\ child \in {"none", "alive", "zombie", "reaped"}
  /\ pidSet \in BOOLEAN
  /\ mainAt \in {"spawn", "waiting", "serving", "stop", "join", "term", "grace", "kill",
                 "reap", "ended"}

\* Where there is no process number there is no process, and main() goes through kill_child()
\* with the number it got from fork() unless a waitpid() of its own took the process first.
DaemonInv ==
  /\ DaemonTypes
  /\ mainAt = "spawn" => child = "none"
  /\ mainAt \notin {"spawn", "ended"} => child # "none"
  /\ mainAt \in {"waiting", "serving", "stop", "join"} => pidSet
  /\ ~pidSet => child \in {"none", "reaped"}
  /\ NoChildLeft

\* Every step of the daemon keeps the invariant.
LEMMA DaemonStep == DaemonInv /\ [DaemonNext]_daemonVars => DaemonInv'
<1> SUFFICES ASSUME DaemonInv, [DaemonNext]_daemonVars PROVE DaemonInv'
  OBVIOUS
<1> USE DEF DaemonInv, DaemonTypes, NoChildLeft
<1>1. CASE Spawns BY <1>1 DEF Spawns, MainGoesTo
<1>2. CASE WaitsForBackend BY <1>2 DEF WaitsForBackend, StopWaiting, MainGoesTo
<1>3. CASE Serves BY <1>3 DEF Serves, MainGoesTo
<1>4. CASE Stops BY <1>4 DEF Stops, MainGoesTo
<1>5. CASE Joins BY <1>5 DEF Joins, MainGoesTo
<1>6. CASE Terminates BY <1>6 DEF Terminates, MainGoesTo
<1>7. CASE Grace BY <1>7 DEF Grace, MainGoesTo
<1>8. CASE Kills BY <1>8 DEF Kills, MainGoesTo
<1>9. CASE Reaps BY <1>9 DEF Reaps, MainGoesTo
<1>10. CASE SignalArrives \/ ChildDies \/ Listens \/ ListenReturns
  BY <1>10 DEF SignalArrives, ChildDies, Listens, ListenReturns
<1>11. CASE UNCHANGED daemonVars BY <1>11 DEF daemonVars
<1> QED
  BY <1>1, <1>2, <1>3, <1>4, <1>5, <1>6, <1>7, <1>8, <1>9, <1>10, <1>11
  DEF DaemonNext, MainStep

\* However long it waits and whenever the backend dies or a signal comes: when main() has
\* ended, the backend has ended and was waited for.
THEOREM DaemonLeavesNoChild == DaemonSpec => []NoChildLeft
<1>1. DaemonInit => DaemonInv
  BY DEF DaemonInit, DaemonInv, DaemonTypes, NoChildLeft
<1>2. DaemonInv => NoChildLeft
  BY DEF DaemonInv
<1> QED BY <1>1, <1>2, DaemonStep, PTL DEF DaemonSpec

\* How far main() is, and how long it may stay in each of its loops.
Far == [spawn |-> 0, waiting |-> 1, serving |-> 2, stop |-> 3, join |-> 4, term |-> 5,
        grace |-> 6, kill |-> 7, reap |-> 8, ended |-> 9]
RoundsOf(place) ==
  IF place = "waiting" THEN HealthRounds ELSE IF place = "grace" THEN GraceRounds ELSE 0

\* A step of main() goes to a later place, or is one of the rounds of a loop.
GoesOn ==
  \/ Far[mainAt] < Far[mainAt'] /\ round' = 0
  \/ mainAt' = mainAt /\ round' = round + 1 /\ round' <= RoundsOf(mainAt)

\* What a step of main() waits for is there, where it was told to stop: a round
\* within the bounds, a child to be asked for, a process that SIGKILL has ended.
\* (join() waits for the server's thread, which may not have been told.)
NothingToWaitFor ==
  /\ round \in 0 .. RoundsOf(mainAt)
  /\ mainAt = "waiting" => child \in {"alive", "zombie"}
  /\ mainAt = "reap" => child \in {"zombie", "reaped"}

ProgressInv == DaemonInv /\ NothingToWaitFor

LEMMA ProgressStep == ProgressInv /\ [DaemonNext]_daemonVars => ProgressInv'
<1> SUFFICES ASSUME ProgressInv, [DaemonNext]_daemonVars PROVE NothingToWaitFor'
  BY DaemonStep DEF ProgressInv
<1> USE RoundsAssumption DEF ProgressInv, DaemonInv, DaemonTypes, NothingToWaitFor, RoundsOf
<1>1. CASE Spawns BY <1>1 DEF Spawns, MainGoesTo
<1>2. CASE WaitsForBackend
  <2>0. mainAt = "waiting" /\ round \in Nat /\ round <= HealthRounds /\ child \in {"alive", "zombie"}
    BY <1>2 DEF WaitsForBackend
  <2>1. \/ mainAt' = "term" /\ round' = 0
        \/ mainAt' = "serving" /\ round' = 0
        \/ mainAt' = "waiting" /\ round < HealthRounds /\ round' = round + 1 /\ child' = child
    BY <1>2, <2>0, Zenon DEF WaitsForBackend, StopWaiting, MainGoesTo
  <2> QED BY <2>0, <2>1
<1>3. CASE Serves BY <1>3 DEF Serves, MainGoesTo
<1>4. CASE Stops BY <1>4 DEF Stops, MainGoesTo
<1>5. CASE Joins BY <1>5 DEF Joins, MainGoesTo
<1>6. CASE Terminates BY <1>6 DEF Terminates, MainGoesTo
<1>7. CASE Grace BY <1>7 DEF Grace, MainGoesTo
<1>8. CASE Kills BY <1>8 DEF Kills, MainGoesTo
<1>9. CASE Reaps BY <1>9 DEF Reaps, MainGoesTo
<1>10. CASE SignalArrives \/ ChildDies \/ Listens \/ ListenReturns
  BY <1>10 DEF SignalArrives, ChildDies, Listens, ListenReturns
<1>11. CASE UNCHANGED daemonVars BY <1>11 DEF daemonVars
<1> QED
  BY <1>1, <1>2, <1>3, <1>4, <1>5, <1>6, <1>7, <1>8, <1>9, <1>10, <1>11
  DEF DaemonNext, MainStep

LEMMA MainGoesOn == ASSUME ProgressInv, MainStep PROVE GoesOn
<1> USE RoundsAssumption DEF ProgressInv, DaemonInv, DaemonTypes, NothingToWaitFor, RoundsOf, GoesOn, Far
<1>1. CASE Spawns BY <1>1 DEF Spawns, MainGoesTo
<1>2. CASE WaitsForBackend
  <2>0. mainAt = "waiting" /\ round \in Nat /\ round <= HealthRounds /\ child \in {"alive", "zombie"}
    BY <1>2 DEF WaitsForBackend
  <2>1. \/ mainAt' = "term" /\ round' = 0
        \/ mainAt' = "serving" /\ round' = 0
        \/ mainAt' = "waiting" /\ round < HealthRounds /\ round' = round + 1 /\ child' = child
    BY <1>2, <2>0, Zenon DEF WaitsForBackend, StopWaiting, MainGoesTo
  <2> QED BY <2>0, <2>1
<1>3. CASE Serves BY <1>3 DEF Serves, MainGoesTo
<1>4. CASE Stops BY <1>4 DEF Stops, MainGoesTo
<1>5. CASE Joins BY <1>5 DEF Joins, MainGoesTo
<1>6. CASE Terminates BY <1>6 DEF Terminates, MainGoesTo
<1>7. CASE Grace BY <1>7 DEF Grace, MainGoesTo
<1>8. CASE Kills BY <1>8 DEF Kills, MainGoesTo
<1>9. CASE Reaps BY <1>9 DEF Reaps, MainGoesTo
<1> QED BY <1>1, <1>2, <1>3, <1>4, <1>5, <1>6, <1>7, <1>8, <1>9 DEF MainStep

\* main() never turns back and never stays longer than its loops allow, and nothing it waits
\* for can be missing once it was told to stop: with a scheduler that runs main(), what is
\* left between the signal and the end is join() (main(), wait_for_backend(), kill_child()).
THEOREM DaemonGoesOn == DaemonSpec => [](NothingToWaitFor) /\ [][MainStep => GoesOn]_daemonVars
<1>1. DaemonInit => ProgressInv
  <2>1. DaemonInit => DaemonInv
    BY DEF DaemonInit, DaemonInv, DaemonTypes, NoChildLeft
  <2>2. DaemonInit => mainAt = "spawn" /\ round = 0
    BY DEF DaemonInit
  <2>3. mainAt = "spawn" /\ round = 0 => NothingToWaitFor
    BY DEF NothingToWaitFor, RoundsOf
  <2> QED BY <2>1, <2>2, <2>3 DEF ProgressInv
<1>2. ProgressInv => NothingToWaitFor
  BY DEF ProgressInv
<1>3. ProgressInv /\ [DaemonNext]_daemonVars => [MainStep => GoesOn]_daemonVars
  BY MainGoesOn
<1> QED BY <1>1, <1>2, <1>3, ProgressStep, PTL DEF DaemonSpec

(***************************************************************************)
(* JarvisAccounts: keys                                                    *)
(***************************************************************************)
KeyStates == {"unknown", "active", "revoked"}

Places == {"idle", "rate", "limit", "none", "chat", "create", "revoke",
           "save", "write", "answer"}
Jobs == [op : {"none", "chat", "create", "revoke"}, target : Keys]

KeyTypes ==
  /\ keyState \in [Keys -> KeyStates]
  /\ keysFile \in [Keys -> KeyStates] \cup {Torn}
  /\ told \in [Keys -> KeyStates]
  /\ drawn \subseteq Keys
  /\ excused \in BOOLEAN
  /\ clientAt \in [Clients -> Places]
  /\ job \in [Clients -> Jobs]

\* What has been told of a key, or is about to be told to a client, is so in state.
Covers(state) ==
  /\ \A k \in Keys :
       /\ told[k] = "active" => state[k] # "unknown"
       /\ told[k] = "revoked" => state[k] = "revoked"
  /\ \A c \in Clients : clientAt[c] = "answer" =>
       /\ state[job[c].target] # "unknown"
       /\ job[c].op = "revoke" => state[job[c].target] = "revoked"

\* A client that saves has changed the key in memory.
SaversChanged ==
  \A c \in Clients : clientAt[c] \in {"save", "write"} =>
    /\ keyState[job[c].target] # "unknown"
    /\ job[c].op = "revoke" => keyState[job[c].target] = "revoked"

\* A key that is known anywhere was drawn.
KnownWereDrawn ==
  \A k \in Keys \ drawn : keyState[k] = "unknown" /\ keysFile[k] \in {"unknown", "torn"}

\* Where a client is says what its request is.
OpOfPlace ==
  \A c \in Clients : clientAt[c] = "create" => job[c].op = "create"

KeysInv ==
  /\ KeyTypes /\ SaversChanged /\ KnownWereDrawn /\ OpOfPlace
  /\ ~excused => Covers(keyState)
  /\ ~excused /\ keysFile # Torn => Covers(keysFile)

\* A client that goes anywhere but to a save or an answer disturbs nothing.
LEMMA KeysIfMoved ==
  ASSUME KeysInv, NEW c \in Clients, NEW place \in Places \ {"save", "write", "answer"},
         UNCHANGED <<keyState, keysFile, told, drawn, excused>>,
         GoesTo(c, place), job' \in [Clients -> Jobs],
         \A d \in Clients \ {c} : job'[d] = job[d],
         place = "create" => job'[c].op = "create"
  PROVE  KeysInv'
<1>0. /\ clientAt' \in [Clients -> Places] /\ clientAt'[c] = place
      /\ \A d \in Clients \ {c} : clientAt'[d] = clientAt[d]
  BY DEF KeysInv, KeyTypes, GoesTo
<1>1. KeyTypes'
  BY <1>0 DEF KeysInv, KeyTypes, Torn
<1>2. SaversChanged'
  BY <1>0 DEF KeysInv, SaversChanged
<1>3. OpOfPlace'
  BY <1>0 DEF KeysInv, OpOfPlace
<1>4. KnownWereDrawn'
  BY DEF KeysInv, KnownWereDrawn
<1>5. ~excused' => Covers(keyState)'
  BY <1>0 DEF KeysInv, Covers
<1>6. ~excused' /\ keysFile' # Torn => Covers(keysFile)'
  BY <1>0 DEF KeysInv, Covers, Torn
<1>7. Torn' = Torn
  BY DEF Torn
<1> QED BY <1>1, <1>2, <1>3, <1>4, <1>5, <1>6, <1>7 DEF KeysInv

\* Ending a request is such a move.
LEMMA KeysIfEnded ==
  ASSUME KeysInv, NEW c \in Clients, Ends(c),
         UNCHANGED <<keyState, keysFile, told, drawn, excused>>
  PROVE  KeysInv'
<1>1. job' \in [Clients -> Jobs] /\ \A d \in Clients \ {c} : job'[d] = job[d]
  BY AccountsAssumption DEF Ends, NoJob, KeysInv, KeyTypes, Jobs
<1>2. "idle" \in Places \ {"save", "write", "answer"} /\ GoesTo(c, "idle")
  BY DEF Ends, Places
<1> QED BY <1>1, <1>2, KeysIfMoved

\* The steps of a request before it touches a key.
LEMMA KeysByRequest ==
  ASSUME KeysInv, NEW c \in Clients,
         Validate(c) \/ CheckRate(c) \/ Refuse(c) \/ Admit(c) \/ FinishChat(c)
  PROVE  KeysInv'
<1> USE DEF keyVars, meterVars, clientVars, toldVars
<1>1. CASE Validate(c)
  <2>1. job' \in [Clients -> Jobs] /\ \A d \in Clients \ {c} : job'[d] = job[d]
    BY <1>1 DEF Validate, KeysInv, KeyTypes, Jobs
  <2>2. "rate" \in Places \ {"save", "write", "answer"}
    BY DEF Places
  <2> QED BY <1>1, <2>1, <2>2, KeysIfMoved DEF Validate
<1>2. CASE CheckRate(c)
  <2>1. CASE Ends(c) BY <1>2, <2>1, KeysIfEnded DEF CheckRate
  <2>2. CASE GoesTo(c, "limit") /\ UNCHANGED job
    <3>1. job' \in [Clients -> Jobs] /\ \A d \in Clients \ {c} : job'[d] = job[d]
      BY <2>2 DEF KeysInv, KeyTypes
    <3>2. "limit" \in Places \ {"save", "write", "answer"}
      BY DEF Places
    <3> QED BY <1>2, <2>2, <3>1, <3>2, KeysIfMoved DEF CheckRate
  <2> QED BY <1>2, <2>1, <2>2 DEF CheckRate
<1>3. CASE Refuse(c) BY <1>3, KeysIfEnded DEF Refuse
<1>4. CASE Admit(c)
  <2>1. job' \in [Clients -> Jobs] /\ \A d \in Clients \ {c} : job'[d] = job[d]
    BY <1>4 DEF Admit, KeysInv, KeyTypes
  <2>2. job[c].op \in Places \ {"save", "write", "answer"} /\ job'[c].op = job[c].op
    BY <1>4 DEF Admit, KeysInv, KeyTypes, Places, Jobs
  <2>3. GoesTo(c, job[c].op) /\ UNCHANGED <<keyState, keysFile, told, drawn, excused>>
    BY <1>4 DEF Admit
  <2> QED BY <2>1, <2>2, <2>3, KeysIfMoved
<1>5. CASE FinishChat(c) BY <1>5, KeysIfEnded DEF FinishChat
<1> QED BY <1>1, <1>2, <1>3, <1>4, <1>5

\* A key that is drawn was unknown everywhere, so nobody's answer speaks of it.
LEMMA KeysByCreateKey == ASSUME KeysInv, NEW c \in Clients, CreateKey(c) PROVE KeysInv'
<1>0. PICK k \in Keys \ drawn :
        /\ keyState' = [keyState EXCEPT ![k] = "active"]
        /\ drawn' = drawn \cup {k}
        /\ job' = [job EXCEPT ![c].target = k]
  BY DEF CreateKey
<1> USE DEF keyVars, meterVars, clientVars, toldVars
<1>1. /\ UNCHANGED <<keysFile, told, excused>> /\ Torn' = Torn
      /\ clientAt[c] = "create" /\ clientAt'[c] = "save"
      /\ \A d \in Clients \ {c} : clientAt'[d] = clientAt[d] /\ job'[d] = job[d]
      /\ job'[c].target = k /\ job'[c].op = job[c].op
      /\ clientAt' \in [Clients -> Places] /\ job' \in [Clients -> Jobs]
  BY <1>0 DEF CreateKey, GoesTo, KeysInv, KeyTypes, Torn, Places, Jobs
<1>2. keyState[k] = "unknown" /\ keyState'[k] = "active"
      /\ (\A j \in Keys \ {k} : keyState'[j] = keyState[j])
      /\ keyState' \in [Keys -> KeyStates]
  BY <1>0 DEF KeysInv, KnownWereDrawn, KeyTypes, KeyStates
<1>3. KeyTypes'
  BY <1>0, <1>1, <1>2 DEF KeysInv, KeyTypes
<1>4. \A d \in Clients \ {c} : job[d].target \in Keys
  BY DEF KeysInv, KeyTypes, Jobs
<1>5. job[c].op # "revoke"
  BY <1>1 DEF KeysInv, OpOfPlace
<1>6. SaversChanged'
  BY <1>1, <1>2, <1>4, <1>5 DEF KeysInv, SaversChanged
<1>7. OpOfPlace'
  BY <1>1 DEF KeysInv, OpOfPlace
<1>8. KnownWereDrawn'
  BY <1>0, <1>1, <1>2 DEF KeysInv, KnownWereDrawn
<1>9. ~excused' => Covers(keyState)'
  BY <1>1, <1>2, <1>4 DEF KeysInv, Covers
<1>10. ~excused' /\ keysFile' # Torn => Covers(keysFile)'
  BY <1>1, <1>4 DEF KeysInv, Covers
<1> QED BY <1>1, <1>3, <1>6, <1>7, <1>8, <1>9, <1>10 DEF KeysInv

\* A revoked key stays known, and counts as told where it was told to be active.
LEMMA KeysByRevokeKey == ASSUME KeysInv, NEW c \in Clients, RevokeKey(c) PROVE KeysInv'
<1> USE DEF keyVars, meterVars, clientVars, toldVars
<1>1. CASE Ends(c) /\ UNCHANGED keyState
  BY <1>1, KeysIfEnded DEF RevokeKey
<1>2. ASSUME NEW k \in Keys,
             keyState[k] # "unknown",
             keyState' = [keyState EXCEPT ![k] = "revoked"],
             job' = [job EXCEPT ![c].target = k],
             GoesTo(c, "save")
      PROVE  KeysInv'
  <2>1. /\ UNCHANGED <<keysFile, told, excused, drawn>> /\ Torn' = Torn
        /\ clientAt'[c] = "save"
        /\ \A d \in Clients \ {c} : clientAt'[d] = clientAt[d] /\ job'[d] = job[d]
        /\ job'[c].target = k
        /\ clientAt' \in [Clients -> Places] /\ job' \in [Clients -> Jobs]
    BY <1>2 DEF RevokeKey, GoesTo, KeysInv, KeyTypes, Torn, Places, Jobs
  <2>2. keyState'[k] = "revoked" /\ (\A j \in Keys \ {k} : keyState'[j] = keyState[j])
        /\ keyState' \in [Keys -> KeyStates]
    BY <1>2 DEF KeysInv, KeyTypes, KeyStates
  <2>3. KeyTypes'
    BY <2>1, <2>2 DEF KeysInv, KeyTypes
  <2>4. \A d \in Clients \ {c} : job[d].target \in Keys
    BY DEF KeysInv, KeyTypes, Jobs
  <2>6. SaversChanged'
    BY <2>1, <2>2, <2>4 DEF KeysInv, SaversChanged
  <2>7. OpOfPlace'
    BY <2>1 DEF KeysInv, OpOfPlace
  <2>8. KnownWereDrawn'
    BY <1>2, <2>1, <2>2 DEF KeysInv, KnownWereDrawn
  <2>9. ~excused' => Covers(keyState)'
    BY <2>1, <2>2, <2>4 DEF KeysInv, Covers
  <2>10. ~excused' /\ keysFile' # Torn => Covers(keysFile)'
    BY <2>1, <2>4 DEF KeysInv, Covers
  <2> QED BY <2>1, <2>3, <2>6, <2>7, <2>8, <2>9, <2>10 DEF KeysInv
<1> QED BY <1>1, <1>2 DEF RevokeKey

\* Saving: what is written covers what was told and what this client will answer.
LEMMA KeysBySave ==
  ASSUME KeysInv, NEW c \in Clients, SaveOpens(c) \/ SaveFails(c) \/ SaveWrites(c)
  PROVE  KeysInv'
<1> USE DEF keyVars, meterVars, clientVars, toldVars
<1>1. CASE SaveOpens(c)
  <2>1. /\ UNCHANGED <<keyState, told, drawn, excused, job>> /\ Torn' = Torn /\ keysFile' = Torn
        /\ clientAt[c] = "save" /\ clientAt'[c] = "write"
        /\ \A d \in Clients \ {c} : clientAt'[d] = clientAt[d]
        /\ clientAt' \in [Clients -> Places]
    BY <1>1 DEF SaveOpens, GoesTo, KeysInv, KeyTypes, Torn, Places
  <2>2. KeyTypes'
    BY <2>1 DEF KeysInv, KeyTypes
  <2>3. SaversChanged' /\ OpOfPlace'
    BY <2>1 DEF KeysInv, SaversChanged, OpOfPlace
  <2>4. KnownWereDrawn'
    BY <2>1 DEF KeysInv, KnownWereDrawn, Torn
  <2>5. ~excused' => Covers(keyState)'
    BY <2>1 DEF KeysInv, Covers
  <2> QED BY <2>1, <2>2, <2>3, <2>4, <2>5 DEF KeysInv
<1>2. CASE SaveFails(c)
  <2>1. /\ UNCHANGED <<keyState, keysFile, told, drawn, job>> /\ Torn' = Torn /\ excused' = TRUE
        /\ clientAt'[c] = "answer"
        /\ \A d \in Clients \ {c} : clientAt'[d] = clientAt[d]
        /\ clientAt' \in [Clients -> Places]
    BY <1>2 DEF SaveFails, GoesTo, KeysInv, KeyTypes, Torn, Places
  <2>2. KeyTypes' /\ KnownWereDrawn'
    BY <2>1 DEF KeysInv, KeyTypes, KnownWereDrawn
  <2>3. SaversChanged' /\ OpOfPlace'
    BY <2>1 DEF KeysInv, SaversChanged, OpOfPlace
  <2> QED BY <2>1, <2>2, <2>3 DEF KeysInv
<1>3. CASE SaveWrites(c)
  <2>1. /\ UNCHANGED <<keyState, told, drawn, job>> /\ Torn' = Torn
        /\ \/ keysFile' = keyState /\ excused' = excused
           \/ keysFile' = Torn /\ excused' = TRUE
        /\ clientAt[c] = "write" /\ clientAt'[c] = "answer"
        /\ \A d \in Clients \ {c} : clientAt'[d] = clientAt[d]
        /\ clientAt' \in [Clients -> Places]
    BY <1>3 DEF SaveWrites, GoesTo, KeysInv, KeyTypes, Torn, Places
  <2>2. KeyTypes' /\ KnownWereDrawn'
    BY <2>1 DEF KeysInv, KeyTypes, KnownWereDrawn, Torn
  <2>3. SaversChanged' /\ OpOfPlace'
    BY <2>1 DEF KeysInv, SaversChanged, OpOfPlace
  <2>4. ~excused' => Covers(keyState)'
    BY <2>1 DEF KeysInv, Covers, SaversChanged
  <2>5. ~excused' => Covers(keysFile)'
    BY <2>1, <2>4 DEF Covers
  <2> QED BY <2>1, <2>2, <2>3, <2>4, <2>5 DEF KeysInv
<1> QED BY <1>1, <1>2, <1>3

\* An answer says what memory and file already hold.
LEMMA KeysByAnswer == ASSUME KeysInv, NEW c \in Clients, AnswerKey(c) PROVE KeysInv'
<1> USE DEF keyVars, meterVars, clientVars, toldVars
<1> DEFINE k == job[c].target
           word == IF job[c].op = "revoke" THEN "revoked"
                   ELSE IF told[k] = "unknown" THEN "active" ELSE told[k]
<1>1. k \in Keys /\ told[k] \in KeyStates /\ word \in KeyStates
  BY DEF KeysInv, KeyTypes, Jobs, KeyStates
<1>2. told' = [told EXCEPT ![k] = word]
  BY DEF AnswerKey
<1>3. told'[k] = word /\ (\A j \in Keys \ {k} : told'[j] = told[j]) /\ told' \in [Keys -> KeyStates]
  BY <1>1, <1>2 DEF KeysInv, KeyTypes
<1>4. /\ UNCHANGED <<keyState, keysFile, drawn, excused>> /\ Torn' = Torn
      /\ clientAt[c] = "answer" /\ clientAt'[c] = "idle"
      /\ \A d \in Clients \ {c} : clientAt'[d] = clientAt[d] /\ job'[d] = job[d]
      /\ clientAt' \in [Clients -> Places] /\ job' \in [Clients -> Jobs]
  BY AccountsAssumption
  DEF AnswerKey, Ends, GoesTo, NoJob, KeysInv, KeyTypes, Torn, Places, Jobs
<1>5. KeyTypes'
  BY <1>3, <1>4 DEF KeysInv, KeyTypes
<1>6. KnownWereDrawn' /\ SaversChanged' /\ OpOfPlace'
  BY <1>4 DEF KeysInv, KnownWereDrawn, SaversChanged, OpOfPlace
<1>7. ~excused' => Covers(keyState)'
  BY <1>1, <1>3, <1>4 DEF KeysInv, Covers, KeyStates
<1>8. ~excused' /\ keysFile' # Torn => Covers(keysFile)'
  BY <1>1, <1>3, <1>4 DEF KeysInv, Covers, KeyStates
<1> QED BY <1>4, <1>5, <1>6, <1>7, <1>8 DEF KeysInv

\* A restart takes what the file holds, or is excused.
LEMMA KeysByRestart == ASSUME KeysInv, Restart PROVE KeysInv'
<1> USE DEF keyVars, meterVars, clientVars, toldVars
<1>1. /\ UNCHANGED <<keysFile, drawn, told>> /\ Torn' = Torn
      /\ \A c \in Clients : clientAt'[c] = "idle"
      /\ clientAt' \in [Clients -> Places] /\ job' \in [Clients -> Jobs]
      /\ keyState' = IF keysFile = Torn THEN NoKeys ELSE keysFile
      /\ excused' \in BOOLEAN
      /\ ~excused' => ~excused /\ keysFile # Torn
  BY AccountsAssumption DEF Restart, NoJob, Torn, Places, Jobs, KeysInv, KeyTypes
<1>2. NoKeys \in [Keys -> KeyStates]
  BY DEF NoKeys, KeyStates
<1>3. KeyTypes'
  BY <1>1, <1>2 DEF KeysInv, KeyTypes
<1>4. SaversChanged' /\ OpOfPlace'
  BY <1>1 DEF SaversChanged, OpOfPlace
<1>5. KnownWereDrawn'
  <2>1. CASE keysFile = Torn
    BY <1>1, <2>1 DEF KeysInv, KnownWereDrawn, NoKeys, Torn
  <2>2. CASE keysFile # Torn
    BY <1>1, <2>2 DEF KeysInv, KnownWereDrawn, KeyTypes, KeyStates
  <2> QED BY <2>1, <2>2
<1>6. ~excused' => Covers(keyState)' /\ Covers(keysFile)'
  BY <1>1 DEF KeysInv, Covers
<1> QED BY <1>1, <1>3, <1>4, <1>5, <1>6 DEF KeysInv

\* Every step of the server keeps the invariant.
LEMMA KeysStep == KeysInv /\ [AccountsNext]_accountsVars => KeysInv'
<1> SUFFICES ASSUME KeysInv, [AccountsNext]_accountsVars PROVE KeysInv'
  OBVIOUS
<1>1. ASSUME NEW c \in Clients, ClientStep(c) PROVE KeysInv'
  BY <1>1, KeysByRequest, KeysByCreateKey, KeysByRevokeKey, KeysBySave, KeysByAnswer
  DEF ClientStep
<1>2. CASE UNCHANGED <<keyVars, clientVars, toldVars>>
  <2>1. UNCHANGED <<keyState, keysFile, told, drawn, excused, clientAt, job>> /\ Torn' = Torn
    BY <1>2 DEF keyVars, clientVars, toldVars, Torn
  <2> QED BY <2>1
    DEF KeysInv, KeyTypes, SaversChanged, KnownWereDrawn, OpOfPlace, Covers
<1>3. CASE Tick BY <1>2, <1>3 DEF Tick
<1>4. CASE Restart BY <1>4, KeysByRestart
<1>5. CASE UNCHANGED accountsVars BY <1>2, <1>5 DEF accountsVars
<1> QED BY <1>1, <1>3, <1>4, <1>5 DEF AccountsNext

\* The server starts with the invariant.
LEMMA KeysStart == AccountsInit => KeysInv
<1> SUFFICES ASSUME AccountsInit PROVE KeysInv
  OBVIOUS
<1>1. KeyTypes
  BY AccountsAssumption
  DEF AccountsInit, KeyTypes, KeyStates, Issued, Places, Jobs, NoJob
<1>2. KnownWereDrawn
  BY DEF AccountsInit, KnownWereDrawn, Issued
<1>3. SaversChanged /\ OpOfPlace
  BY DEF AccountsInit, SaversChanged, OpOfPlace
<1>4. Covers(keyState) /\ Covers(keysFile)
  BY DEF AccountsInit, Covers, Issued
<1> QED BY <1>1, <1>2, <1>3, <1>4 DEF KeysInv

\* However many handlers create, revoke and save keys at a time, and wherever the process
\* dies: what an answer said of a key is what a restart finds, unless a save failed or was cut.
THEOREM KeysSurvive == AccountsSpec => []IssuedKeysSurvive
<1>1. KeysInv => IssuedKeysSurvive
  BY DEF KeysInv, Covers, IssuedKeysSurvive
<1> QED BY <1>1, KeysStart, KeysStep, PTL DEF AccountsSpec

(***************************************************************************)
(* JarvisAccounts: usage                                                   *)
(***************************************************************************)
Chatting == {c \in Clients : clientAt[c] = "chat"}

UsageInv == used \in Nat /\ BoundedOvershoot

\* The bound is kept while usage and the clients that chat stay as they are.
LEMMA UsageFrame == ASSUME UsageInv, UNCHANGED used, Chatting' = Chatting PROVE UsageInv'
  BY DEF UsageInv, BoundedOvershoot, Chatting

\* Of the set of chats, a subset of the finite set of clients, the size is bounded.
LEMMA ChatsAreFew ==
  ASSUME NEW S \in SUBSET Clients
  PROVE  /\ IsFiniteSet(S)
         /\ Cardinality(S) \in Nat /\ Cardinality(Clients) \in Nat
         /\ Cardinality(S) <= Cardinality(Clients)
         /\ MaxCost * Cardinality(S) <= MaxCost * Cardinality(Clients)
<1>1. IsFiniteSet(S) /\ Cardinality(S) <= Cardinality(Clients)
  BY FS_Subset, AccountsAssumption
<1>2. Cardinality(S) \in Nat /\ Cardinality(Clients) \in Nat
  BY <1>1, FS_CardinalityType, AccountsAssumption
<1>3. \A m, a, b \in Nat : a <= b => m * a <= m * b
  OBVIOUS
<1> QED BY <1>1, <1>2, <1>3, AccountsAssumption

\* Every step keeps the bound.
LEMMA UsageStep == KeysInv /\ UsageInv /\ [AccountsNext]_accountsVars => UsageInv'
<1> SUFFICES ASSUME KeysInv, UsageInv, [AccountsNext]_accountsVars PROVE UsageInv'
  OBVIOUS
<1> USE DEF keyVars, meterVars, clientVars, toldVars
<1>0. clientAt \in [Clients -> Places]
  BY DEF KeysInv, KeyTypes
<1>1. ASSUME NEW c \in Clients, Admit(c) PROVE UsageInv'
  <2>1. used < Limit /\ used' = used
    BY <1>1, AccountsAssumption DEF Admit, Exceeded, UsageInv
  <2>2. Chatting' \in SUBSET Clients
    BY DEF Chatting
  <2>3. /\ MaxCost * Cardinality(Chatting') <= MaxCost * Cardinality(Clients)
        /\ MaxCost * Cardinality(Chatting') \in Nat /\ MaxCost * Cardinality(Clients) \in Nat
    BY <2>2, ChatsAreFew, AccountsAssumption
  <2>4. used' + MaxCost * Cardinality(Chatting') <= Limit - 1 + MaxCost * Cardinality(Clients)
    BY <2>1, <2>3, AccountsAssumption DEF UsageInv
  <2> QED BY <2>1, <2>4 DEF UsageInv, BoundedOvershoot, Chatting
<1>2. ASSUME NEW c \in Clients, FinishChat(c) PROVE UsageInv'
  <2>1. PICK cost \in 0 .. MaxCost : used' = used + cost
    BY <1>2 DEF FinishChat
  <2>2. c \in Chatting /\ Chatting' = Chatting \ {c} /\ Chatting \in SUBSET Clients
    BY <1>0, <1>2 DEF FinishChat, Ends, GoesTo, Chatting
  <2>3. IsFiniteSet(Chatting) /\ Cardinality(Chatting) \in Nat /\ Cardinality(Clients) \in Nat
    BY <2>2, ChatsAreFew
  <2>4. Cardinality(Chatting') = Cardinality(Chatting) - 1 /\ Cardinality(Chatting') \in Nat
    BY <2>2, <2>3, FS_RemoveElement, FS_CardinalityType
  <2>5. \A m, a \in Nat : m * (a - 1) = m * a - m
    OBVIOUS
  <2>6. MaxCost * Cardinality(Chatting') = MaxCost * Cardinality(Chatting) - MaxCost
    BY <2>3, <2>4, <2>5, AccountsAssumption
  <2>7. used + MaxCost * Cardinality(Chatting) <= Limit - 1 + MaxCost * Cardinality(Clients)
    BY DEF UsageInv, BoundedOvershoot, Chatting
  <2>8. /\ MaxCost * Cardinality(Chatting) \in Nat
        /\ MaxCost * Cardinality(Clients) \in Nat
    BY <2>3, AccountsAssumption
  <2>9. used' \in Nat
        /\ used' + MaxCost * Cardinality(Chatting') <= Limit - 1 + MaxCost * Cardinality(Clients)
    BY <2>1, <2>6, <2>7, <2>8, AccountsAssumption DEF UsageInv
  <2> QED BY <2>9 DEF UsageInv, BoundedOvershoot, Chatting
<1>3. CASE Restart
  <2>1. used' = 0 /\ Chatting' = {}
    BY <1>3 DEF Restart, Chatting
  <2>2. Cardinality(Chatting') = 0 /\ MaxCost * Cardinality(Clients) \in Nat
    BY <2>1, FS_EmptySet, FS_CardinalityType, AccountsAssumption
  <2>3. used' + MaxCost * Cardinality(Chatting') <= Limit - 1 + MaxCost * Cardinality(Clients)
    BY <2>1, <2>2, AccountsAssumption
  <2> QED BY <2>1, <2>3 DEF UsageInv, BoundedOvershoot, Chatting
<1>4. ASSUME NEW c \in Clients, ClientStep(c), ~Admit(c), ~FinishChat(c) PROVE UsageInv'
  <2>1. PICK place \in Places : place # "chat" /\ GoesTo(c, place)
    BY <1>4 DEF ClientStep, Validate, CheckRate, Refuse, CreateKey, RevokeKey, SaveOpens,
                SaveFails, SaveWrites, AnswerKey, Ends, Places
  <2>2. clientAt[c] # "chat" /\ used' = used
    BY <1>4 DEF ClientStep, Validate, CheckRate, Refuse, CreateKey, RevokeKey, SaveOpens,
                SaveFails, SaveWrites, AnswerKey
  <2>3. Chatting' = Chatting
    BY <1>0, <2>1, <2>2 DEF GoesTo, Chatting
  <2> QED BY <2>2, <2>3, UsageFrame
<1>5. CASE Tick BY <1>5, UsageFrame DEF Tick, Chatting
<1>6. CASE UNCHANGED accountsVars BY <1>6, UsageFrame DEF accountsVars, Chatting
<1> QED BY <1>1, <1>2, <1>3, <1>4, <1>5, <1>6 DEF AccountsNext

\* Usage never goes beyond the last token below the limit by more than what the answers under
\* way can cost, for any number of handlers.
THEOREM OvershootIsBounded == AccountsSpec => []BoundedOvershoot
<1>1. AccountsInit => UsageInv
  <2> SUFFICES ASSUME AccountsInit PROVE UsageInv
    OBVIOUS
  <2>1. used = 0 /\ Chatting = {}
    BY DEF AccountsInit, Chatting
  <2>2. Cardinality(Chatting) = 0 /\ MaxCost * Cardinality(Clients) \in Nat
    BY <2>1, FS_EmptySet, FS_CardinalityType, AccountsAssumption
  <2>3. used + MaxCost * Cardinality(Chatting) <= Limit - 1 + MaxCost * Cardinality(Clients)
    BY <2>1, <2>2, AccountsAssumption
  <2> QED BY <2>1, <2>3 DEF UsageInv, BoundedOvershoot, Chatting
<1>2. UsageInv => BoundedOvershoot
  BY DEF UsageInv
<1> QED BY <1>1, <1>2, KeysStart, KeysStep, UsageStep, PTL DEF AccountsSpec

(***************************************************************************)
(* JarvisAccounts: the rate                                                *)
(***************************************************************************)
\* The bounds on quotients that a refill needs: two stretches earn no more apart than
\* together, and a stretch that begins less than a refill's time later at most one less.
LEMMA Quotients ==
  ASSUME NEW r \in Nat \ {0}, NEW a \in Nat, NEW b \in Nat
  PROVE  /\ a \div r \in Nat /\ b \div r \in Nat /\ (a + b) \div r \in Nat
         /\ (a \div r) + (b \div r) <= (a + b) \div r
         /\ a < b + r => a \div r <= (b \div r) + 1
         /\ a < r => a \div r = 0
         /\ a \div r = 0 => a < r
<1>1. ASSUME NEW x \in Nat
      PROVE  /\ x \div r \in Nat
             /\ r * (x \div r) <= x /\ x < r * ((x \div r) + 1)
  OBVIOUS
<1>2. ASSUME NEW p \in Nat, NEW q \in Nat, r * p < r * (q + 1)
      PROVE  p <= q
  <2>1. CASE p >= q + 1
    <3>1. r * p >= r * (q + 1)
      BY <2>1
    <3> QED
      BY <1>2, <3>1
  <2> QED
    BY <2>1
<1> DEFINE p == a \div r
           q == b \div r
           s == (a + b) \div r
<1>3. /\ p \in Nat /\ q \in Nat /\ s \in Nat
      /\ r * p <= a /\ a < r * (p + 1)
      /\ r * q <= b /\ b < r * (q + 1)
      /\ a + b < r * (s + 1)
  BY <1>1
<1> HIDE DEF p, q, s
<1>4. \A x, y \in Nat : r * (x + y) = r * x + r * y /\ r * x \in Nat
  OBVIOUS
<1>5. p + q <= s
  <2>1. r * (p + q) < r * (s + 1)
    BY <1>3, <1>4
  <2> QED
    BY <1>2, <1>3, <2>1
<1>6. ASSUME a < b + r PROVE p <= q + 1
  <2>1. r * ((q + 1) + 1) = r * (q + 1) + r
    BY <1>3
  <2>2. r * p < r * ((q + 1) + 1)
    BY <1>3, <1>4, <1>6, <2>1
  <2> QED
    BY <1>2, <1>3, <2>2
<1>7. a < r => p = 0
  <2>1. a < r => r * p < r * (0 + 1)
    BY <1>3
  <2> QED
    BY <1>2, <1>3, <2>1
<1>8. p = 0 => a < r
  BY <1>3
<1> QED
  BY <1>3, <1>5, <1>6, <1>7, <1>8 DEF p, q, s

\* The requests let through since tick s began.
Passed(s) == accepted[now] - AcceptedBefore(s)

\* What n requests since tick s leave in bucket b.  While it was not refilled in that time,
\* they came out of its burst, and the last of them less than a refill's time after its own.
Earned(b, n, s) ==
  IF b.since < s
    THEN n + b.tokens <= Burst /\ (n > 0 => s - b.since < RefillTicks)
    ELSE n + b.tokens <= Burst + ((b.since - s) \div RefillTicks) + 1

Buckets == [tokens : 0 .. Burst, since : 0 .. now]

RateInv ==
  /\ now \in 0 .. MaxClock /\ accepted \in [0 .. MaxClock -> Nat]
  /\ \A t \in now .. MaxClock : accepted[t] = accepted[now]
  /\ (bucket = NoBucket /\ accepted[now] = 0) \/ bucket \in Buckets
  /\ \A s \in 0 .. now : Earned(bucket, Passed(s), s)
  /\ RateBound

\* A refill keeps the relation, and after it the bucket's time is less than a refill's ago.
LEMMA RefillKeeps ==
  ASSUME RateInv, NEW s \in 0 .. now
  PROVE  /\ Refilled(bucket) \in Buckets
         /\ Earned(Refilled(bucket), Passed(s), s)
         /\ Refilled(bucket).since < s => s - Refilled(bucket).since < RefillTicks
<1> DEFINE b == Refilled(bucket)
           n == Passed(s)
           m == bucket.since
           k == bucket.tokens
           e == (now - m) \div RefillTicks
<1>1. /\ now \in Nat /\ s \in Nat /\ s <= now /\ n \in Int
      /\ Burst \in Nat /\ RefillTicks \in Nat \ {0} /\ MaxClock \in Nat
  <2>1. now \in Nat /\ now \in 0 .. MaxClock /\ s \in Nat /\ s <= now
    BY AccountsAssumption DEF RateInv
  <2>2. accepted[now] \in Nat /\ AcceptedBefore(s) \in Nat
    BY <2>1, AccountsAssumption DEF RateInv, AcceptedBefore
  <2> QED
    BY <2>1, <2>2, AccountsAssumption DEF Passed
<1>2. (now - s) \div RefillTicks \in Nat
  BY <1>1, Quotients
<1>3. CASE bucket = NoBucket
  <2>1. b = [tokens |-> Burst, since |-> now]
    BY <1>3 DEF Refilled
  <2>2. n <= 0
    <3>1. accepted[now] = 0
      BY <1>3 DEF RateInv, Buckets, NoBucket
    <3>2. AcceptedBefore(s) \in Nat
      BY <1>1, AccountsAssumption DEF RateInv, AcceptedBefore
    <3> QED
      BY <3>1, <3>2 DEF Passed
  <2>3. b \in Buckets /\ b.since = now /\ b.tokens = Burst
    BY <1>1, <2>1 DEF Buckets
  <2> HIDE DEF b, n
  <2>4. Earned(b, n, s)
    BY <1>1, <1>2, <2>2, <2>3 DEF Earned
  <2> QED
    BY <1>1, <2>3, <2>4 DEF b, n
<1>4. CASE bucket # NoBucket
  <2>1. m \in Nat /\ m <= now /\ k \in Nat /\ k <= Burst /\ bucket \in Buckets
    BY <1>1, <1>4 DEF RateInv, Buckets
  <2>2. Earned(bucket, n, s)
    BY DEF RateInv
  <2>3. e \in Nat
    BY <1>1, <2>1, Quotients
  <2>4. CASE e > 0
    <3> DEFINE k2 == Min({k + e, Burst})
    <3>1. b = [tokens |-> k2, since |-> now]
      BY <1>4, <2>4 DEF Refilled
    <3>2. k2 \in {k + e, Burst} /\ k2 <= k + e /\ k2 <= Burst
      <4>1. \E x \in {k + e, Burst} : \A y \in {k + e, Burst} : x <= y
        BY <1>1, <2>1, <2>3
      <4> QED
        BY <4>1 DEF Min
    <3>3. k2 \in Nat
      BY <1>1, <2>1, <2>3, <3>2
    <3> HIDE DEF k2
    <3>4. b \in Buckets /\ b.since = now /\ b.tokens = k2
      BY <1>1, <3>1, <3>2, <3>3 DEF Buckets
    <3>5. n + k2 <= Burst + ((now - s) \div RefillTicks) + 1
      <4>1. CASE m < s /\ n <= 0
        BY <1>1, <1>2, <3>2, <3>3, <4>1
      <4>2. CASE m < s /\ n > 0
        <5>1. now - m < (now - s) + RefillTicks /\ n + k <= Burst
          BY <1>1, <2>1, <2>2, <4>2 DEF Earned
        <5>2. e <= ((now - s) \div RefillTicks) + 1
          <6>1. now - m \in Nat /\ now - s \in Nat
            BY <1>1, <2>1
          <6> HIDE DEF m
          <6> QED
            BY <1>1, <5>1, <6>1, Quotients
        <5> HIDE DEF n, m, k, e
        <5> QED
          BY <1>1, <1>2, <2>1, <2>3, <3>2, <3>3, <5>1, <5>2
      <4>3. CASE m >= s
        <5>1. n + k <= Burst + ((m - s) \div RefillTicks) + 1
          BY <1>1, <2>1, <2>2, <4>3 DEF Earned
        <5>2. /\ (m - s) \div RefillTicks \in Nat
              /\ ((m - s) \div RefillTicks) + e <= (now - s) \div RefillTicks
          <6>1. m - s \in Nat /\ now - m \in Nat /\ (m - s) + (now - m) = now - s
            BY <1>1, <2>1, <4>3
          <6>2. ((m - s) \div RefillTicks) + ((now - m) \div RefillTicks)
                  <= ((m - s) + (now - m)) \div RefillTicks
            BY <1>1, <6>1, Quotients
          <6> QED
            BY <1>1, <6>1, <6>2, Quotients
        <5> HIDE DEF n, m, k, e
        <5> QED
          BY <1>1, <1>2, <2>1, <2>3, <3>2, <3>3, <5>1, <5>2
      <4> QED
        BY <1>1, <2>1, <4>1, <4>2, <4>3
    <3> HIDE DEF b, n
    <3>6. Earned(b, n, s)
      BY <1>1, <3>4, <3>5 DEF Earned
    <3> QED
      BY <1>1, <3>4, <3>6 DEF b, n
  <2>5. CASE ~(e > 0)
    <3>1. b = bucket
      BY <1>4, <2>5 DEF Refilled
    <3>2. now - m < RefillTicks
      <4>1. now - m \in Nat /\ e = 0
        BY <1>1, <2>1, <2>3, <2>5
      <4> QED
        BY <1>1, <4>1, Quotients
    <3>3. s - m < RefillTicks
      BY <1>1, <2>1, <3>2
    <3> HIDE DEF b
    <3> QED
      BY <2>1, <2>2, <3>1, <3>3 DEF b
  <2> QED
    BY <2>4, <2>5
<1> QED
  BY <1>3, <1>4

\* The bound on the stretches that end now.
LEMMA BoundNow ==
  ASSUME NEW b, NEW m \in Nat, b \in [tokens : 0 .. Burst, since : 0 .. m] \/ b = NoBucket,
         NEW s \in 0 .. m, NEW n \in Int, Earned(b, n, s)
  PROVE  n <= Burst + ((m - s) \div RefillTicks) + 1
<1>1. /\ s \in Nat /\ s <= m /\ m - s \in Nat /\ RefillTicks \in Nat \ {0} /\ Burst \in Nat
      /\ (m - s) \div RefillTicks \in Nat
  BY Quotients, AccountsAssumption
<1>2. b.tokens \in Nat /\ b.since \in Int /\ b.since <= m
  BY DEF NoBucket
<1>3. CASE b.since < s
  BY <1>1, <1>2, <1>3 DEF Earned
<1>4. CASE b.since >= s
  <2> DEFINE x == b.since - s
             y == m - b.since
  <2>1. x \in Nat /\ y \in Nat /\ x + y = m - s
    BY <1>1, <1>2, <1>4
  <2>2. (x \div RefillTicks) + (y \div RefillTicks) <= (x + y) \div RefillTicks
        /\ x \div RefillTicks \in Nat /\ y \div RefillTicks \in Nat
    BY <1>1, <2>1, Quotients
  <2>3. n + b.tokens <= Burst + (x \div RefillTicks) + 1
    BY <1>1, <1>2, <1>4 DEF Earned
  <2>4. (x + y) \div RefillTicks = (m - s) \div RefillTicks
    BY <2>1
  <2> HIDE DEF x, y
  <2> QED
    BY <1>1, <1>2, <2>2, <2>3, <2>4
<1> QED
  BY <1>1, <1>2, <1>3, <1>4

\* A request comes to the limiter.
LEMMA RateByCheck == ASSUME RateInv, NEW c \in Clients, CheckRate(c) PROVE RateInv'
<1> DEFINE b == Refilled(bucket)
<1>1. /\ now' = now /\ now \in Nat /\ now \in 0 .. MaxClock /\ MaxClock \in Nat
      /\ accepted \in [0 .. MaxClock -> Nat]
      /\ \A t \in now .. MaxClock : accepted[t] = accepted[now]
  BY AccountsAssumption DEF CheckRate, RateInv
<1>2. /\ b \in Buckets
      /\ \A s \in 0 .. now : Earned(b, Passed(s), s) /\ (b.since < s => s - b.since < RefillTicks)
  <2>1. 0 \in 0 .. now
    BY <1>1
  <2> QED
    BY <2>1, RefillKeeps
<1>3. \A s \in 0 .. now : AcceptedBefore(s) \in Nat /\ Passed(s) \in Int
  BY <1>1 DEF AcceptedBefore, Passed
<1>4. CASE bucket' = b /\ UNCHANGED accepted
  <2>1. \A s \in 0 .. now : Passed(s)' = Passed(s)
    BY <1>1, <1>4 DEF Passed, AcceptedBefore
  <2>2. RateBound'
    BY <1>1, <1>4 DEF RateInv, RateBound, AcceptedBefore
  <2> HIDE DEF b
  <2>3. \A s \in 0 .. now' : Earned(bucket, Passed(s), s)'
    BY <1>1, <1>2, <1>4, <2>1 DEF Earned
  <2>4. bucket' \in Buckets'
    BY <1>1, <1>2, <1>4 DEF Buckets
  <2> QED
    BY <1>1, <1>4, <2>2, <2>3, <2>4 DEF RateInv
<1>5. CASE /\ b.tokens > 0
           /\ bucket' = [b EXCEPT !.tokens = @ - 1]
           /\ accepted' = [t \in 0 .. MaxClock |-> accepted[t] + (IF t >= now THEN 1 ELSE 0)]
  <2> HIDE DEF b
  <2>1. /\ bucket' \in Buckets' /\ bucket'.tokens = b.tokens - 1 /\ bucket'.since = b.since
        /\ b.tokens \in Nat /\ b.since \in Nat
    <3>1. b.tokens \in 0 .. Burst /\ b.since \in 0 .. now /\ Burst \in Nat
          /\ b = [tokens |-> b.tokens, since |-> b.since]
      BY <1>2, AccountsAssumption DEF Buckets
    <3>2. bucket' = [tokens |-> b.tokens - 1, since |-> b.since]
      BY <1>5, <3>1
    <3> QED
      BY <1>1, <1>5, <3>1, <3>2 DEF Buckets
  <2>2. /\ accepted' \in [0 .. MaxClock -> Nat]
        /\ \A t \in now .. MaxClock : accepted'[t] = accepted[t] + 1
        /\ \A t \in 0 .. now - 1 : accepted'[t] = accepted[t]
    BY <1>1, <1>5
  <2>3. now \in now .. MaxClock /\ accepted[now] \in Nat
    BY <1>1
  <2>4. \A s \in 0 .. now : AcceptedBefore(s)' = AcceptedBefore(s)
    BY <1>1, <2>2 DEF AcceptedBefore
  <2>5. \A s \in 0 .. now : Passed(s)' = Passed(s) + 1
    BY <1>1, <1>3, <2>2, <2>3, <2>4 DEF Passed
  <2>6. \A s \in 0 .. now : Earned(bucket', Passed(s) + 1, s)
    <3> SUFFICES ASSUME NEW s \in 0 .. now PROVE Earned(bucket', Passed(s) + 1, s)
      OBVIOUS
    <3>1. Earned(b, Passed(s), s) /\ Passed(s) \in Int /\ (b.since < s => s - b.since < RefillTicks)
      BY <1>2, <1>3
    <3> QED
      BY <2>1, <3>1 DEF Earned
  <2>7. RateBound'
    <3> SUFFICES ASSUME NEW s \in 0 .. now, NEW t \in s .. now
                 PROVE  accepted'[t] - AcceptedBefore(s)
                          <= Burst + ((t - s) \div RefillTicks) + 1
      BY <1>1, <2>4 DEF RateBound
    <3>1. CASE t = now
      <4>1. accepted'[now] - AcceptedBefore(s) = Passed(s) + 1
        <5>1. accepted'[now] = accepted[now] + 1 /\ AcceptedBefore(s) \in Nat
          BY <1>3, <2>2, <2>3
        <5> QED
          BY <2>3, <5>1 DEF Passed
      <4>2. Passed(s) + 1 <= Burst + ((now - s) \div RefillTicks) + 1
        <5>1. /\ bucket' \in [tokens : 0 .. Burst, since : 0 .. now]
              /\ Passed(s) + 1 \in Int /\ Earned(bucket', Passed(s) + 1, s)
          <6>1. bucket' \in [tokens : 0 .. Burst, since : 0 .. now]
            BY <1>1, <2>1 DEF Buckets
          <6>2. Passed(s) + 1 \in Int
            BY <1>3
          <6> QED
            BY <2>6, <6>1, <6>2
        <5> QED
          BY <1>1, <5>1, BoundNow
      <4> QED
        BY <3>1, <4>1, <4>2
    <3>2. CASE t # now
      <4>1. t \in 0 .. now - 1
        BY <1>1, <3>2
      <4> QED
        BY <2>2, <4>1 DEF RateInv, RateBound
    <3> QED
      BY <3>1, <3>2
  <2>8. \A s \in 0 .. now' : Earned(bucket, Passed(s), s)'
    BY <1>1, <2>5, <2>6 DEF Earned
  <2>9. \A t \in now' .. MaxClock : accepted'[t] = accepted'[now']
    BY <1>1, <2>2, <2>3
  <2> QED
    BY <1>1, <2>1, <2>2, <2>7, <2>8, <2>9 DEF RateInv
<1> QED
  BY <1>4, <1>5 DEF CheckRate

\* A tick: the stretches that end then are those that ended before, and one without a request.
LEMMA RateByTick == ASSUME RateInv, Tick PROVE RateInv'
<1>1. /\ now' = now + 1 /\ now \in Nat /\ now + 1 \in 0 .. MaxClock /\ MaxClock \in Nat
      /\ UNCHANGED <<bucket, accepted>>
      /\ accepted \in [0 .. MaxClock -> Nat]
      /\ \A t \in now .. MaxClock : accepted[t] = accepted[now]
  BY AccountsAssumption DEF Tick, RateInv, meterVars
<1>2. accepted[now + 1] = accepted[now] /\ accepted[now] \in Nat /\ Burst \in Nat
  BY <1>1, AccountsAssumption
<1>3. (bucket = NoBucket /\ accepted[now] = 0) \/ bucket \in Buckets
  BY DEF RateInv
<1>4. (bucket' = NoBucket /\ accepted'[now'] = 0) \/ bucket' \in Buckets'
  BY <1>1, <1>2, <1>3 DEF Buckets
<1>5. ASSUME NEW s \in 0 .. now + 1
      PROVE  Earned(bucket, Passed(s)', s) /\ Passed(s)' \in Int
  <2>1. CASE s \in 0 .. now
    <3>1. Passed(s)' = Passed(s) /\ AcceptedBefore(s) \in Nat
      BY <1>1, <1>2, <2>1 DEF Passed, AcceptedBefore
    <3> QED
      BY <1>2, <2>1, <3>1 DEF RateInv, Passed
  <2>2. CASE s = now + 1
    <3>1. Passed(s)' = 0
      BY <1>1, <1>2, <2>2 DEF Passed, AcceptedBefore
    <3>2. bucket.tokens <= Burst /\ bucket.since < s /\ bucket.tokens \in Nat
      BY <1>1, <1>2, <1>3, <2>2 DEF Buckets, NoBucket
    <3> QED
      BY <3>1, <3>2 DEF Earned
  <2> QED
    BY <1>1, <2>1, <2>2
<1>6. RateBound'
  <2> SUFFICES ASSUME NEW s \in 0 .. now + 1, NEW t \in s .. now + 1
               PROVE  accepted[t] - AcceptedBefore(s) <= Burst + ((t - s) \div RefillTicks) + 1
    BY <1>1 DEF RateBound, AcceptedBefore
  <2>1. CASE t = now + 1
    <3> PICK n : n = Passed(s)'
      OBVIOUS
    <3>1. accepted[t] - AcceptedBefore(s) = n
      BY <1>1, <2>1 DEF Passed, AcceptedBefore
    <3> PICK m \in Nat : m = now + 1
      BY <1>1
    <3>2. bucket \in [tokens : 0 .. Burst, since : 0 .. m] \/ bucket = NoBucket
      BY <1>1, <1>3 DEF Buckets
    <3>3. n \in Int /\ Earned(bucket, n, s) /\ s \in 0 .. m
      BY <1>1, <1>5
    <3>4. n <= Burst + ((m - s) \div RefillTicks) + 1
      BY <3>2, <3>3, BoundNow
    <3>5. t = m
      BY <2>1
    <3> QED
      BY <3>1, <3>4, <3>5
  <2>2. CASE t # now + 1
    <3>1. s \in 0 .. now /\ t \in s .. now
      BY <1>1, <2>2
    <3> QED
      BY <3>1 DEF RateInv, RateBound
  <2> QED
    BY <2>1, <2>2
<1>7. \A s \in 0 .. now' : Earned(bucket, Passed(s), s)'
  BY <1>1, <1>5 DEF Earned
<1>8. \A t \in now' .. MaxClock : accepted'[t] = accepted'[now']
  BY <1>1, <1>2
<1> QED
  BY <1>1, <1>4, <1>6, <1>7, <1>8 DEF RateInv

\* With no bucket and no request let through, at the start and after a crash.
NothingAccepted == now \in 0 .. MaxClock /\ bucket = NoBucket /\ accepted = NoneAccepted

LEMMA RateFromNothing == NothingAccepted => RateInv
<1> SUFFICES ASSUME now \in 0 .. MaxClock, bucket = NoBucket, accepted = NoneAccepted
             PROVE  RateInv
  BY DEF NothingAccepted
<1>1. now \in Nat /\ MaxClock \in Nat /\ Burst \in Nat /\ RefillTicks \in Nat \ {0}
  BY AccountsAssumption
<1>2. accepted \in [0 .. MaxClock -> Nat] /\ \A t \in 0 .. MaxClock : accepted[t] = 0
  BY DEF NoneAccepted
<1>3. \A s \in 0 .. now : AcceptedBefore(s) = 0
  BY <1>1, <1>2 DEF AcceptedBefore
<1>4. \A s \in 0 .. now : Passed(s) = 0
  BY <1>1, <1>2, <1>3 DEF Passed
<1>5. \A s \in 0 .. now : Earned(bucket, Passed(s), s)
  BY <1>1, <1>4 DEF Earned, NoBucket
<1>6. RateBound
  <2> SUFFICES ASSUME NEW s \in 0 .. now, NEW t \in s .. now
               PROVE  accepted[t] - AcceptedBefore(s) <= Burst + ((t - s) \div RefillTicks) + 1
    BY DEF RateBound
  <2>1. (t - s) \div RefillTicks \in Nat /\ accepted[t] = 0
    BY <1>1, <1>2, Quotients
  <2> QED
    BY <1>1, <1>3, <2>1
<1> QED
  BY <1>1, <1>2, <1>5, <1>6 DEF RateInv

\* Every step keeps the bound.
LEMMA RateStep == RateInv /\ [AccountsNext]_accountsVars => RateInv'
<1> SUFFICES ASSUME RateInv, [AccountsNext]_accountsVars PROVE RateInv'
  OBVIOUS
<1>1. CASE UNCHANGED <<bucket, accepted, now>>
  BY <1>1 DEF RateInv, Buckets, Earned, Passed, AcceptedBefore, RateBound
<1>2. ASSUME NEW c \in Clients, ClientStep(c), ~CheckRate(c) PROVE RateInv'
  <2>1. UNCHANGED <<bucket, accepted, now>>
    BY <1>2 DEF ClientStep, Validate, Refuse, Admit, FinishChat, CreateKey, RevokeKey, SaveOpens,
       SaveFails, SaveWrites, AnswerKey, meterVars
  <2> QED
    BY <1>1, <2>1
<1>3. CASE Restart
  <2>1. NothingAccepted'
    BY <1>3 DEF Restart, RateInv, NothingAccepted, NoneAccepted
  <2> QED
    BY <2>1, RateFromNothing, PTL
<1> QED
  BY <1>1, <1>2, <1>3, RateByCheck, RateByTick DEF AccountsNext, accountsVars, meterVars

\* Within any stretch of time, for any number of handlers, burst and refill time, the rate
\* limiter lets through its burst, what the stretch earned, and one more: a bucket that is
\* not full keeps its time until it has earned a whole request.
THEOREM RateIsBounded == AccountsSpec => []RateBound
<1>1. AccountsInit => RateInv
  <2>1. AccountsInit => NothingAccepted
    BY AccountsAssumption DEF AccountsInit, NothingAccepted
  <2> QED
    BY <2>1, RateFromNothing
<1>2. RateInv => RateBound
  BY DEF RateInv
<1> QED BY <1>1, <1>2, RateStep, PTL DEF AccountsSpec
===============================================================================

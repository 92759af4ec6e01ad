------------------------------- MODULE Onebitd -------------------------------
(***************************************************************************)
(* tools/onebitd.cpp from main() to its end: the backend process that the  *)
(* daemon starts, waits for and ends, and the thread that runs its HTTP    *)
(* server.  Signals come and the backend dies at any time; what the proxy  *)
(* handlers do with a request is left out.                                 *)
(***************************************************************************)
EXTENDS Naturals

CONSTANTS
  HealthRounds,  \* kHealthTimeoutSecs, a round each second
  GraceRounds    \* the 50 rounds of kill_child()

ASSUME RoundsAssumption == HealthRounds \in Nat /\ GraceRounds \in Nat

VARIABLES
  child,       \* the backend process: "none", "alive", "zombie" or "reaped"
  pidSet,      \* g_child_pid > 0
  shutdown,    \* g_shutdown
  listener,    \* server_thread: "none", "starting", "listening", "stopping" or "returned"
  mainAt,      \* where main() is
  round        \* of the loop main() is in

daemonVars == <<child, pidSet, shutdown, listener, mainAt, round>>

DaemonInit ==
  /\ child = "none" /\ pidSet = FALSE /\ shutdown = FALSE
  /\ listener = "none" /\ mainAt = "spawn" /\ round = 0

MainGoesTo(place) == mainAt' = place /\ round' = 0

(***************************************************************************)
(* What main() does not do itself.                                         *)
(***************************************************************************)
\* signal_handler(), on SIGINT and SIGTERM.
SignalArrives ==
  /\ mainAt # "ended" /\ shutdown' = TRUE
  /\ UNCHANGED <<child, pidSet, listener, mainAt, round>>

\* The backend ends by itself, or because it was asked to.
ChildDies ==
  /\ child = "alive" /\ child' = "zombie"
  /\ UNCHANGED <<pidSet, shutdown, listener, mainAt, round>>

\* listen() binds its port, or returns at once because it cannot.
Listens ==
  /\ listener = "starting" /\ listener' \in {"listening", "returned"}
  /\ UNCHANGED <<child, pidSet, shutdown, mainAt, round>>

\* listen() returns once the proxy handlers under way have; their read of the backend's
\* answer has a limit of 300 s.
ListenReturns ==
  /\ listener = "stopping" /\ listener' = "returned"
  /\ UNCHANGED <<child, pidSet, shutdown, mainAt, round>>

(***************************************************************************)
(* main().                                                                 *)
(***************************************************************************)
\* spawn_backend(); without a child main() returns.
Spawns ==
  /\ mainAt = "spawn"
  /\ \/ child' = "alive" /\ pidSet' = TRUE /\ MainGoesTo("waiting")
     \/ MainGoesTo("ended") /\ UNCHANGED <<child, pidSet>>
  /\ UNCHANGED <<shutdown, listener>>

\* Error: main() returns when the backend did not get ready.
GiveUpWaiting == MainGoesTo("ended")

\* The backend did not get ready: kill_child(), and main() returns.
StopWaiting == MainGoesTo("term")

\* wait_for_backend(), one round: the signal, an early end of the backend, /health.
WaitsForBackend ==
  /\ mainAt = "waiting"
  /\ \/ /\ shutdown \/ round = HealthRounds
        /\ StopWaiting
        /\ UNCHANGED <<child, pidSet, listener>>
     \/ /\ ~shutdown /\ round < HealthRounds /\ child = "zombie"
        /\ child' = "reaped" /\ pidSet' = FALSE
        /\ StopWaiting
        /\ UNCHANGED listener
     \/ /\ ~shutdown /\ round < HealthRounds /\ child = "alive"
        /\ listener' = "starting"
        /\ MainGoesTo("serving")
        /\ UNCHANGED <<child, pidSet>>
     \/ /\ ~shutdown /\ round < HealthRounds /\ child = "alive"
        /\ round' = round + 1
        /\ UNCHANGED <<child, pidSet, listener, mainAt>>
  /\ UNCHANGED shutdown

\* The loop of main(): a backend that ended is taken note of, g_child_pid keeps its value.
Serves ==
  /\ mainAt = "serving"
  /\ \/ shutdown /\ UNCHANGED <<child, shutdown>>
     \/ ~shutdown /\ child = "zombie" /\ child' = "reaped" /\ shutdown' = TRUE
  /\ MainGoesTo("stop")
  /\ UNCHANGED <<pidSet, listener>>

\* svr.stop() tells a server that listens; one that does not listen yet does not hear it.
Stops ==
  /\ mainAt = "stop"
  /\ listener' = IF listener = "listening" THEN "stopping" ELSE listener
  /\ MainGoesTo("join")
  /\ UNCHANGED <<child, pidSet, shutdown>>

Joins ==
  /\ mainAt = "join" /\ listener = "returned"
  /\ MainGoesTo("term")
  /\ UNCHANGED <<child, pidSet, shutdown, listener>>

\* kill_child(): SIGTERM ...
Terminates ==
  /\ mainAt = "term"
  /\ MainGoesTo(IF pidSet THEN "grace" ELSE "ended")
  /\ UNCHANGED <<child, pidSet, shutdown, listener>>

\* ... some rounds in which the backend may end ...
Grace ==
  /\ mainAt = "grace"
  /\ \/ round = GraceRounds /\ MainGoesTo("kill") /\ UNCHANGED child
     \/ round < GraceRounds /\ child = "zombie" /\ child' = "reaped" /\ MainGoesTo("kill")
     \/ /\ round < GraceRounds /\ child # "zombie"
        /\ round' = round + 1 /\ UNCHANGED <<child, mainAt>>
  /\ UNCHANGED <<pidSet, shutdown, listener>>

\* Error: a backend that ignores SIGTERM is left to itself.
KillsNobody ==
  /\ mainAt = "kill"
  /\ MainGoesTo("reap")
  /\ UNCHANGED <<child, pidSet, shutdown, listener>>

\* ... SIGKILL to that number, whoever has it ...
Kills ==
  /\ mainAt = "kill"
  /\ child' = IF child = "alive" THEN "zombie" ELSE child
  /\ MainGoesTo("reap")
  /\ UNCHANGED <<pidSet, shutdown, listener>>

\* ... and the last waitpid(), which fails if there is nothing left to wait for.
Reaps ==
  /\ mainAt = "reap" /\ child \in {"zombie", "reaped"}
  /\ child' = "reaped" /\ pidSet' = FALSE
  /\ MainGoesTo("ended")
  /\ UNCHANGED <<shutdown, listener>>

MainStep ==
  \/ Spawns \/ WaitsForBackend \/ Serves \/ Stops \/ Joins
  \/ Terminates \/ Grace \/ Kills \/ Reaps

DaemonNext == MainStep \/ SignalArrives \/ ChildDies \/ Listens \/ ListenReturns

\* main() is scheduled and the handlers under way come to an end; nothing is assumed of
\* the backend.
DaemonFairness == WF_daemonVars(MainStep) /\ WF_daemonVars(ListenReturns)

DaemonSpec == DaemonInit /\ [][DaemonNext]_daemonVars
DaemonFairSpec == DaemonSpec /\ DaemonFairness

-----------------------------------------------------------------------------
\* By whatever way main() ends, the backend it started has ended and was waited for: no
\* backend keeps the device (main(), kill_child()).  A signal that ends the daemon without
\* its handler (SIGKILL, SIGHUP) is not one of them.
NoChildLeft == mainAt = "ended" => child \in {"none", "reaped"}

\* Told to stop, the daemon ends, whatever the backend does.  Left out is the moment between
\* the start of the server's thread and its listen(), in which stop() is not heard.
DaemonEnds ==
  shutdown /\ listener # "starting" /\ mainAt # "join" ~> mainAt = "ended"
===============================================================================

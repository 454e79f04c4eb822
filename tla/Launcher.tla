------------------------------- MODULE Launcher -------------------------------
(***************************************************************************)
(* Who serves port 8870.  A script (src/start-cpu.sh; start-gpu.sh and     *)
(* start-voicedesign.sh do the same, with the same pid file) starts and    *)
(* stops the Python wrapper (src/server.py), the wrapper starts and stops  *)
(* tts-server, its child, and takes it to be ready once anyone answers on  *)
(* the port.  The script and the wrapper send SIGTERM and wait for a time: *)
(* who is told to stop goes on for as long as it likes.                    *)
(***************************************************************************)
EXTENDS Integers, FiniteSets

CONSTANTS
  MaxStarts,  \* bound: how often a wrapper is started
  MaxTries,   \* max_wait: health checks of a startup
  None

(* Wrappers by the order of their start; a child by its wrapper's number.  *)
Wrappers == 1 .. MaxStarts

ASSUME LauncherAssumption ==
  MaxStarts \in Nat /\ MaxTries \in Nat \ {0} /\ None \notin Wrappers

VARIABLES
  script,   \* where the script is in `start`
  pidfile,  \* the wrapper in server.pid
  stage,    \* where each wrapper is
  tries,    \* health checks of its startup
  term,     \* SIGTERM has reached it
  child,    \* what its child does
  port,     \* whose child listens on 8870
  lost      \* wrappers that gave up their child without stopping it

wrapper == <<stage, tries, term>>
vars == <<script, pidfile, wrapper, child, port, lost>>

Alive(w) == child[w] \in {"loading", "serving", "draining"}
Running(w) == stage[w] \in {"starting", "up", "waiting"}

Init ==
  /\ script = "idle" /\ pidfile = None
  /\ stage = [w \in Wrappers |-> "none"]
  /\ tries = [w \in Wrappers |-> 0]
  /\ term = [w \in Wrappers |-> FALSE]
  /\ child = [w \in Wrappers |-> "none"]
  /\ port = None
  /\ lost = {}

GoesTo(w, s) == stage' = [stage EXCEPT ![w] = s]
ChildIs(w, s) == child' = [child EXCEPT ![w] = s]
Leaves(w) == port' = IF port = w THEN None ELSE port
-----------------------------------------------------------------------------
(* SIGTERM to a tts-server: one that loads dies, or is about to listen and *)
(* misses it; one that serves closes its socket and drains.                *)
Terminate(w) ==
  /\ \/ child[w] = "loading" /\ ChildIs(w, "dead")
     \/ child[w] = "serving" /\ ChildIs(w, "draining")
     \/ child[w] # "serving" /\ UNCHANGED child
  /\ Leaves(w)

(* SIGTERM to wrappers: uvicorn looks at it when the startup is over, and  *)
(* then leaves without the shutdown event.                                 *)
Signals(W) ==
  /\ term' = [w \in Wrappers |-> term[w] \/ (w \in W /\ Running(w))]
  /\ lost' = lost \cup {w \in W : stage[w] = "starting" /\ Alive(w)}

(* start: the wrapper in the pid file, for 2 s; *)
ScriptStart ==
  /\ script = "idle"
  /\ \E w \in Wrappers : stage[w] = "none"
  /\ Signals({pidfile} \cap Wrappers)
  /\ script' = "signalled"
  /\ UNCHANGED <<pidfile, stage, tries, child, port>>

(* Who listens on 8870, and on the wrapper's own port. *)
KillsPorts ==
  /\ Signals({w \in Wrappers : stage[w] = "up"})
  /\ IF port = None THEN UNCHANGED <<child, port>> ELSE Terminate(port)

FreesPortBug == UNCHANGED <<term, lost, child, port>>   \* the pid file is enough

FreesPort == KillsPorts

(* then the ports, for 1 s; *)
ScriptKillsPorts ==
  /\ script = "signalled"
  /\ FreesPort
  /\ script' = "freed"
  /\ UNCHANGED <<pidfile, stage, tries>>

(* then a new wrapper, which starts its child, unless a file is missing.   *)
ScriptLaunches ==
  /\ script = "freed"
  /\ \E w \in Wrappers :
       /\ stage[w] = "none" /\ \A v \in Wrappers : v < w => stage[v] # "none"
       /\ \/ GoesTo(w, "starting") /\ ChildIs(w, "loading")
          \/ GoesTo(w, "gone") /\ UNCHANGED child
       /\ pidfile' = w
  /\ script' = "idle"
  /\ UNCHANGED <<tries, term, port, lost>>

(* The binary is missing. *)
ScriptGivesUp ==
  /\ script = "freed"
  /\ script' = "idle"
  /\ UNCHANGED <<pidfile, wrapper, child, port, lost>>

(* stop: the wrapper in the pid file; the ports only if there is none.     *)
ScriptStop ==
  /\ script = "idle"
  /\ IF pidfile # None
       THEN Signals({pidfile}) /\ UNCHANGED <<child, port>>
       ELSE KillsPorts
  /\ pidfile' = None
  /\ UNCHANGED <<script, stage, tries>>
-----------------------------------------------------------------------------
(* start_cpp_server: anyone's answer will do. *)
HealthAnswers(w) ==
  /\ stage[w] = "starting"
  /\ port # None
  /\ GoesTo(w, IF term[w] THEN "gone" ELSE "up")
  /\ UNCHANGED <<script, pidfile, tries, term, child, port, lost>>

(* Nobody listens, or not within 2 s.  The last time raises; the startup   *)
(* fails and leaves the child alone.                                       *)
HealthFails(w) ==
  /\ stage[w] = "starting"
  /\ tries' = [tries EXCEPT ![w] = @ + 1]
  /\ IF tries'[w] < MaxTries
       THEN UNCHANGED <<stage, lost>>
       ELSE /\ GoesTo(w, "gone")
            /\ lost' = IF Alive(w) THEN lost \cup {w} ELSE lost
  /\ UNCHANGED <<script, pidfile, term, child, port>>

(* stop_cpp_server, once the connections are closed. *)
Shutdown(w) ==
  /\ stage[w] = "up" /\ term[w]
  /\ IF Alive(w) THEN Terminate(w) /\ GoesTo(w, "waiting")
                 ELSE GoesTo(w, "gone") /\ UNCHANGED <<child, port>>
  /\ UNCHANGED <<script, pidfile, tries, term, lost>>

(* wait(timeout=5) returns, or raises. *)
WaitEnds(w) ==
  /\ stage[w] = "waiting"
  /\ GoesTo(w, "gone")
  /\ lost' = IF Alive(w) THEN lost \cup {w} ELSE lost
  /\ UNCHANGED <<script, pidfile, tries, term, child, port>>
-----------------------------------------------------------------------------
(* tts-server: the model is loaded; SO_REUSEPORT is not set, so that a     *)
(* second one cannot listen and ends.                                      *)
ChildLoads(w) ==
  /\ child[w] = "loading"
  /\ IF port = None THEN ChildIs(w, "serving") /\ port' = w
                    ELSE ChildIs(w, "dead") /\ UNCHANGED port
  /\ UNCHANGED <<script, pidfile, wrapper, lost>>

(* It has drained, or dies. *)
ChildEnds(w) ==
  /\ Alive(w)
  /\ ChildIs(w, "dead")
  /\ Leaves(w)
  /\ UNCHANGED <<script, pidfile, wrapper, lost>>

Next ==
  \/ ScriptStart \/ ScriptKillsPorts \/ ScriptLaunches \/ ScriptGivesUp
  \/ ScriptStop
  \/ \E w \in Wrappers :
       \/ HealthAnswers(w) \/ HealthFails(w) \/ Shutdown(w) \/ WaitEnds(w)
       \/ ChildLoads(w) \/ ChildEnds(w)

Spec == Init /\ [][Next]_vars
-----------------------------------------------------------------------------
TypeOK ==
  /\ script \in {"idle", "signalled", "freed"}
  /\ pidfile \in Wrappers \cup {None}
  /\ stage \in [Wrappers -> {"none", "starting", "up", "waiting", "gone"}]
  /\ tries \in [Wrappers -> 0 .. MaxTries]
  /\ term \in [Wrappers -> BOOLEAN]
  /\ child \in [Wrappers -> {"none", "loading", "serving", "draining", "dead"}]
  /\ port \in Wrappers \cup {None}
  /\ lost \subseteq Wrappers

(* "A second instance on the same port then fails instead of silently      *)
(* sharing the socket" (tts-server.h lines 371-373), and its wrapper would *)
(* then relay to the first, with another model.  However the script, the   *)
(* wrappers and their children are timed, that takes a wrapper that gave   *)
(* up its child alive (its startup timed out or was interrupted, or the    *)
(* child took longer than 5 s to end): without one, a wrapper that nobody  *)
(* has told to stop is served by its own child or by none.                 *)
ServedByItsOwn ==
  lost = {} =>
    \A w \in Wrappers : stage[w] = "up" /\ ~term[w] => port \in {w, None}
=============================================================================

---------------------------- MODULE Launcher_proofs ----------------------------
(***************************************************************************)
(* A wrapper that nobody has stopped is served by its own child, unless an *)
(* earlier wrapper gave up its child: for any number of starts.            *)
(***************************************************************************)
EXTENDS Launcher, TLAPS

(* A wrapper that has started, or is starting, and has not been told to    *)
(* stop.                                                                   *)
Live(w) == stage[w] \in {"starting", "up"} /\ ~term[w]

(* Why the property holds: the live wrapper is the one in the pid file, so *)
(* the script signals it before it starts another; who listens is who      *)
(* serves, so the script's second kill frees the port; and as long as no   *)
(* child was given up, the only child that may still come to the port is   *)
(* that of a live wrapper that waits for it.                               *)
LiveIsOnFile == \A w \in Wrappers : Live(w) => pidfile = w

NoneLiveAtLaunch == script # "idle" => \A w \in Wrappers : ~Live(w)

ServingIsListening == \A w \in Wrappers : child[w] = "serving" <=> port = w

Unborn == \A w \in Wrappers : stage[w] = "none" => child[w] = "none" /\ ~term[w]

TriesLeft == \A w \in Wrappers : stage[w] \in {"none", "starting"} => tries[w] < MaxTries

NoStray ==
  lost = {} =>
    /\ \A w \in Wrappers : child[w] = "loading" => stage[w] = "starting" /\ ~term[w]
    /\ \A w \in Wrappers : Live(w) => port \in {w, None}
    /\ script = "freed" => port = None

IInv ==
  TypeOK /\ LiveIsOnFile /\ NoneLiveAtLaunch /\ ServingIsListening /\ Unborn
  /\ NoStray /\ TriesLeft
-----------------------------------------------------------------------------
(* Nothing was started yet. *)
LEMMA InitIInv == Init => IInv
  BY LauncherAssumption
  DEF Init, IInv, TypeOK, LiveIsOnFile, NoneLiveAtLaunch, ServingIsListening, Unborn,
      NoStray, TriesLeft, Live, Wrappers

(* The live wrapper is in the pid file, and is told to stop. *)
LEMMA ScriptStartKeeps ==
  ASSUME IInv, ScriptStart
  PROVE  IInv'
<1> USE LauncherAssumption
    DEF IInv, ScriptStart, Signals, Live, Alive, Running
<1>1. TypeOK'
  BY DEF TypeOK, TriesLeft
<1>2. LiveIsOnFile'
  BY DEF LiveIsOnFile, TypeOK, NoneLiveAtLaunch
<1>3. NoneLiveAtLaunch'
  BY DEF NoneLiveAtLaunch, TypeOK, LiveIsOnFile
<1>4. ServingIsListening'
  BY DEF ServingIsListening, TypeOK, Unborn
<1>5. Unborn'
  BY DEF Unborn, TypeOK, ServingIsListening
<1>6. NoStray'
  BY DEF NoStray, TypeOK, LiveIsOnFile, NoneLiveAtLaunch,
         ServingIsListening, Unborn
<1>7. TriesLeft'
  BY DEF TriesLeft, TypeOK
<1> QED
  BY <1>1, <1>2, <1>3, <1>4, <1>5, <1>6, <1>7

(* Who serves is who listens: the port is free. *)
LEMMA ScriptKillsPortsKeeps ==
  ASSUME IInv, ScriptKillsPorts
  PROVE  IInv'
<1> USE LauncherAssumption
    DEF IInv, ScriptKillsPorts, FreesPort, KillsPorts, Signals, Terminate, ChildIs, Leaves, Live,
           Alive, Running
<1>1. TypeOK'
  BY DEF TypeOK, TriesLeft
<1>2. LiveIsOnFile'
  BY DEF LiveIsOnFile, TypeOK, NoneLiveAtLaunch
<1>3. NoneLiveAtLaunch'
  BY DEF NoneLiveAtLaunch, TypeOK, LiveIsOnFile
<1>4. ServingIsListening'
  BY DEF ServingIsListening, TypeOK, Unborn
<1>5. Unborn'
  BY DEF Unborn, TypeOK, ServingIsListening
<1>6. NoStray'
  BY DEF NoStray, TypeOK, LiveIsOnFile, NoneLiveAtLaunch,
         ServingIsListening, Unborn
<1>7. TriesLeft'
  BY DEF TriesLeft, TypeOK
<1> QED
  BY <1>1, <1>2, <1>3, <1>4, <1>5, <1>6, <1>7

(* The one live wrapper is the new one. *)
LEMMA ScriptLaunchesKeeps ==
  ASSUME IInv, ScriptLaunches
  PROVE  IInv'
<1> USE LauncherAssumption
    DEF IInv, ScriptLaunches, GoesTo, ChildIs, Live
<1>1. TypeOK'
  BY DEF TypeOK, TriesLeft
<1>2. LiveIsOnFile'
  BY DEF LiveIsOnFile, TypeOK, NoneLiveAtLaunch
<1>3. NoneLiveAtLaunch'
  BY DEF NoneLiveAtLaunch, TypeOK, LiveIsOnFile
<1>4. ServingIsListening'
  BY DEF ServingIsListening, TypeOK, Unborn
<1>5. Unborn'
  BY DEF Unborn, TypeOK, ServingIsListening
<1>6. NoStray'
  BY DEF NoStray, TypeOK, LiveIsOnFile, NoneLiveAtLaunch,
         ServingIsListening, Unborn
<1>7. TriesLeft'
  BY DEF TriesLeft, TypeOK
<1> QED
  BY <1>1, <1>2, <1>3, <1>4, <1>5, <1>6, <1>7

(* Nothing is started. *)
LEMMA ScriptGivesUpKeeps ==
  ASSUME IInv, ScriptGivesUp
  PROVE  IInv'
<1> USE LauncherAssumption
    DEF IInv, ScriptGivesUp, wrapper, Live
<1>1. TypeOK'
  BY DEF TypeOK, TriesLeft
<1>2. LiveIsOnFile'
  BY DEF LiveIsOnFile, TypeOK, NoneLiveAtLaunch
<1>3. NoneLiveAtLaunch'
  BY DEF NoneLiveAtLaunch, TypeOK, LiveIsOnFile
<1>4. ServingIsListening'
  BY DEF ServingIsListening, TypeOK, Unborn
<1>5. Unborn'
  BY DEF Unborn, TypeOK, ServingIsListening
<1>6. NoStray'
  BY DEF NoStray, TypeOK, LiveIsOnFile, NoneLiveAtLaunch,
         ServingIsListening, Unborn
<1>7. TriesLeft'
  BY DEF TriesLeft, TypeOK
<1> QED
  BY <1>1, <1>2, <1>3, <1>4, <1>5, <1>6, <1>7

(* As ScriptStart, or as ScriptKillsPorts. *)
LEMMA ScriptStopKeeps ==
  ASSUME IInv, ScriptStop
  PROVE  IInv'
<1> USE LauncherAssumption
    DEF IInv, ScriptStop, KillsPorts, Signals, Terminate, ChildIs, Leaves, Live, Alive, Running
<1>1. TypeOK'
  BY DEF TypeOK, TriesLeft
<1>2. LiveIsOnFile'
  BY DEF LiveIsOnFile, TypeOK, NoneLiveAtLaunch
<1>3. NoneLiveAtLaunch'
  BY DEF NoneLiveAtLaunch, TypeOK, LiveIsOnFile
<1>4. ServingIsListening'
  BY DEF ServingIsListening, TypeOK, Unborn
<1>5. Unborn'
  BY DEF Unborn, TypeOK, ServingIsListening
<1>6. NoStray'
  BY DEF NoStray, TypeOK, LiveIsOnFile, NoneLiveAtLaunch,
         ServingIsListening, Unborn
<1>7. TriesLeft'
  BY DEF TriesLeft, TypeOK
<1> QED
  BY <1>1, <1>2, <1>3, <1>4, <1>5, <1>6, <1>7

(* The child of a live wrapper that is answered listens: it no longer loads. *)
LEMMA HealthAnswersKeeps ==
  ASSUME IInv, NEW w \in Wrappers, HealthAnswers(w)
  PROVE  IInv'
<1> USE LauncherAssumption
    DEF IInv, HealthAnswers, GoesTo, Live
<1>1. TypeOK'
  BY DEF TypeOK, TriesLeft
<1>2. LiveIsOnFile'
  BY DEF LiveIsOnFile, TypeOK, NoneLiveAtLaunch
<1>3. NoneLiveAtLaunch'
  BY DEF NoneLiveAtLaunch, TypeOK, LiveIsOnFile
<1>4. ServingIsListening'
  BY DEF ServingIsListening, TypeOK, Unborn
<1>5. Unborn'
  BY DEF Unborn, TypeOK, ServingIsListening
<1>6. NoStray'
  BY DEF NoStray, TypeOK, LiveIsOnFile, NoneLiveAtLaunch,
         ServingIsListening, Unborn
<1>7. TriesLeft'
  BY DEF TriesLeft, TypeOK
<1> QED
  BY <1>1, <1>2, <1>3, <1>4, <1>5, <1>6, <1>7

(* A child that still lives is given up. *)
LEMMA HealthFailsKeeps ==
  ASSUME IInv, NEW w \in Wrappers, HealthFails(w)
  PROVE  IInv'
<1> USE LauncherAssumption
    DEF IInv, HealthFails, GoesTo, Live, Alive
<1>1. TypeOK'
  BY DEF TypeOK, TriesLeft
<1>2. LiveIsOnFile'
  BY DEF LiveIsOnFile, TypeOK, NoneLiveAtLaunch
<1>3. NoneLiveAtLaunch'
  BY DEF NoneLiveAtLaunch, TypeOK, LiveIsOnFile
<1>4. ServingIsListening'
  BY DEF ServingIsListening, TypeOK, Unborn
<1>5. Unborn'
  BY DEF Unborn, TypeOK, ServingIsListening
<1>6. NoStray'
  BY DEF NoStray, TypeOK, LiveIsOnFile, NoneLiveAtLaunch,
         ServingIsListening, Unborn
<1>7. TriesLeft'
  BY DEF TriesLeft, TypeOK
<1> QED
  BY <1>1, <1>2, <1>3, <1>4, <1>5, <1>6, <1>7

(* The wrapper is no longer live. *)
LEMMA ShutdownKeeps ==
  ASSUME IInv, NEW w \in Wrappers, Shutdown(w)
  PROVE  IInv'
<1> USE LauncherAssumption
    DEF IInv, Shutdown, Terminate, GoesTo, ChildIs, Leaves, Live, Alive
<1>1. TypeOK'
  BY DEF TypeOK, TriesLeft
<1>2. LiveIsOnFile'
  BY DEF LiveIsOnFile, TypeOK, NoneLiveAtLaunch
<1>3. NoneLiveAtLaunch'
  BY DEF NoneLiveAtLaunch, TypeOK, LiveIsOnFile
<1>4. ServingIsListening'
  BY DEF ServingIsListening, TypeOK, Unborn
<1>5. Unborn'
  BY DEF Unborn, TypeOK, ServingIsListening
<1>6. NoStray'
  BY DEF NoStray, TypeOK, LiveIsOnFile, NoneLiveAtLaunch,
         ServingIsListening, Unborn
<1>7. TriesLeft'
  BY DEF TriesLeft, TypeOK
<1> QED
  BY <1>1, <1>2, <1>3, <1>4, <1>5, <1>6, <1>7

(* A child that still lives is given up. *)
LEMMA WaitEndsKeeps ==
  ASSUME IInv, NEW w \in Wrappers, WaitEnds(w)
  PROVE  IInv'
<1> USE LauncherAssumption
    DEF IInv, WaitEnds, GoesTo, Live, Alive
<1>1. TypeOK'
  BY DEF TypeOK, TriesLeft
<1>2. LiveIsOnFile'
  BY DEF LiveIsOnFile, TypeOK, NoneLiveAtLaunch
<1>3. NoneLiveAtLaunch'
  BY DEF NoneLiveAtLaunch, TypeOK, LiveIsOnFile
<1>4. ServingIsListening'
  BY DEF ServingIsListening, TypeOK, Unborn
<1>5. Unborn'
  BY DEF Unborn, TypeOK, ServingIsListening
<1>6. NoStray'
  BY DEF NoStray, TypeOK, LiveIsOnFile, NoneLiveAtLaunch,
         ServingIsListening, Unborn
<1>7. TriesLeft'
  BY DEF TriesLeft, TypeOK
<1> QED
  BY <1>1, <1>2, <1>3, <1>4, <1>5, <1>6, <1>7

(* Only the child of the live wrapper may be the one that loads. *)
LEMMA ChildLoadsKeeps ==
  ASSUME IInv, NEW w \in Wrappers, ChildLoads(w)
  PROVE  IInv'
<1> USE LauncherAssumption
    DEF IInv, ChildLoads, ChildIs, wrapper, Live
<1>1. TypeOK'
  BY DEF TypeOK, TriesLeft
<1>2. LiveIsOnFile'
  BY DEF LiveIsOnFile, TypeOK, NoneLiveAtLaunch
<1>3. NoneLiveAtLaunch'
  BY DEF NoneLiveAtLaunch, TypeOK, LiveIsOnFile
<1>4. ServingIsListening'
  BY DEF ServingIsListening, TypeOK, Unborn
<1>5. Unborn'
  BY DEF Unborn, TypeOK, ServingIsListening
<1>6. NoStray'
  BY DEF NoStray, TypeOK, LiveIsOnFile, NoneLiveAtLaunch,
         ServingIsListening, Unborn
<1>7. TriesLeft'
  BY DEF TriesLeft, TypeOK
<1> QED
  BY <1>1, <1>2, <1>3, <1>4, <1>5, <1>6, <1>7

(* The port may become free. *)
LEMMA ChildEndsKeeps ==
  ASSUME IInv, NEW w \in Wrappers, ChildEnds(w)
  PROVE  IInv'
<1> USE LauncherAssumption
    DEF IInv, ChildEnds, ChildIs, Leaves, wrapper, Live, Alive
<1>1. TypeOK'
  BY DEF TypeOK, TriesLeft
<1>2. LiveIsOnFile'
  BY DEF LiveIsOnFile, TypeOK, NoneLiveAtLaunch
<1>3. NoneLiveAtLaunch'
  BY DEF NoneLiveAtLaunch, TypeOK, LiveIsOnFile
<1>4. ServingIsListening'
  BY DEF ServingIsListening, TypeOK, Unborn
<1>5. Unborn'
  BY DEF Unborn, TypeOK, ServingIsListening
<1>6. NoStray'
  BY DEF NoStray, TypeOK, LiveIsOnFile, NoneLiveAtLaunch,
         ServingIsListening, Unborn
<1>7. TriesLeft'
  BY DEF TriesLeft, TypeOK
<1> QED
  BY <1>1, <1>2, <1>3, <1>4, <1>5, <1>6, <1>7

(* Every step keeps it. *)
LEMMA NextKeeps == IInv /\ [Next]_vars => IInv'
<1> SUFFICES ASSUME IInv, [Next]_vars PROVE IInv'
  OBVIOUS
<1>1. CASE UNCHANGED vars
  BY <1>1 DEF vars, wrapper, IInv, TypeOK, LiveIsOnFile, NoneLiveAtLaunch,
              ServingIsListening, Unborn, NoStray, TriesLeft, Live
<1>2. CASE Next
  BY <1>2, ScriptStartKeeps, ScriptKillsPortsKeeps, ScriptLaunchesKeeps,
     ScriptGivesUpKeeps, ScriptStopKeeps, HealthAnswersKeeps, HealthFailsKeeps,
     ShutdownKeeps, WaitEndsKeeps, ChildLoadsKeeps,
     ChildEndsKeeps
  DEF Next
<1> QED
  BY <1>1, <1>2

(* The types of the script's, the wrappers' and the children's states.     *)
THEOREM TypeCorrect == Spec => []TypeOK
<1>1. IInv => TypeOK
  BY DEF IInv
<1> QED
  BY <1>1, InitIInv, NextKeeps, PTL DEF Spec

(* Port 8870 of tts-server: without a child given up alive, a wrapper that *)
(* nobody has told to stop is served by its own child or by none, however  *)
(* often wrappers are started.                                             *)
THEOREM ServedByOwnChild == Spec => []ServedByItsOwn
<1>1. IInv => ServedByItsOwn
  BY DEF IInv, NoStray, Live, ServedByItsOwn
<1> QED
  BY <1>1, InitIInv, NextKeeps, PTL DEF Spec
=============================================================================

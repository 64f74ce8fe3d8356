-------------------------- MODULE SimControlPanel --------------------------
(***************************************************************************)
(* The simulation control panel (scripts/sim_control_panel.py) and the     *)
(* processes it starts and stops.  Each HTTP request is served by a thread *)
(* of its own (ThreadingHTTPServer), with no lock on _state.  A demo is    *)
(* run_env_demo.sh, a benchmark is the loop of runner.py over run_one; the *)
(* two start Gazebo through a `ros2 launch' of theirs and kill it by name, *)
(* whoever's it is, as stop.sh does.                                       *)
(*                                                                         *)
(* There is one Gazebo server at most: a second one cannot bind its port.  *)
(***************************************************************************)
EXTENDS Naturals, FiniteSets

CONSTANTS
    Clients,        \* request threads
    Requests,       \* what they may ask for: "demo", "benchmark", "stop"
    Activities,     \* the processes the panel may start (bound)
    Nobody          \* no activity: None, or no Gazebo server

ASSUME PanelAssumption ==
    /\ IsFiniteSet(Activities)
    /\ Requests \subseteq {"demo", "benchmark", "stop"}
    /\ Nobody \notin Activities

VARIABLES
    proc,           \* _state["proc"]
    pc,             \* where each request thread is
    asked,          \* what it serves
    spawned,        \* the process it has started
    \* the processes
    script,         \* where each activity is; "none" before it is started
    then,           \* where it goes on after the trap for a SIGINT
    sigint,         \* those with a SIGINT they have not taken yet
    launch,         \* each activity's `ros2 launch'
    gzserver,       \* whose Gazebo server runs
    \* history
    stopped         \* those a Stop was meant for

serverVars  == <<proc, pc, asked, spawned>>
processVars == <<script, then, sigint, launch, gzserver, stopped>>
panelVars   == <<serverVars, processVars>>

-----------------------------------------------------------------------------

DemoPhases ==
    {"clear", "launch", "waiting", "goal", "wait",
     "int1", "int2", "resume", "exit1", "exit2"}
BenchmarkPhases == {"kill", "start", "run", "teardown"}

\* After `pkill -9 -f 'ros2 launch social_nav'`
NoLaunch == [a \in Activities |-> "off"]

\* proc.poll() is None
Alive(a) == script[a] \in DemoPhases \cup BenchmarkPhases

PanelInit ==
    /\ proc = Nobody
    /\ pc = [c \in Clients |-> "ready"]
    /\ asked = [c \in Clients |-> "stop"]
    /\ spawned = [c \in Clients |-> Nobody]
    /\ script = [a \in Activities |-> "none"]
    /\ then = [a \in Activities |-> "none"]
    /\ sigint = {}
    /\ launch = [a \in Activities |-> "off"]
    /\ gzserver = Nobody
    /\ stopped = {}

-----------------------------------------------------------------------------
(***************************************************************************)
(* The request threads.                                                    *)
(***************************************************************************)

\* do_POST.  The bound on the activities is on the requests for one.
Request(c) ==
    /\ pc[c] = "ready"
    /\ \E r \in Requests :
         /\ r # "stop" => \E a \in Activities : script[a] = "none"
         /\ asked' = [asked EXCEPT ![c] = r]
         /\ pc' = [pc EXCEPT ![c] = IF r = "stop" THEN "signal" ELSE "poll"]
    /\ UNCHANGED <<proc, spawned, processVars>>

\* Mutant: only Gazebo is looked for, not the process that was started
PollNothing(c) ==
    /\ pc[c] = "poll"
    /\ pc' = [pc EXCEPT ![c] = "pgrep"]
    /\ UNCHANGED <<proc, asked, spawned, processVars>>

\* _running(), its first half: the process that was started
Poll(c) ==
    /\ pc[c] = "poll"
    /\ pc' = [pc EXCEPT ![c] =
                IF proc # Nobody /\ Alive(proc) THEN "ready" ELSE "pgrep"]
    /\ UNCHANGED <<proc, asked, spawned, processVars>>

\* ... and its second: any Gazebo server
Pgrep(c) ==
    /\ pc[c] = "pgrep"
    /\ pc' = [pc EXCEPT ![c] = IF gzserver # Nobody THEN "ready" ELSE "spawn"]
    /\ UNCHANGED <<proc, asked, spawned, processVars>>

\* Popen in _launch and in _benchmark
Spawn(c) ==
    /\ pc[c] = "spawn"
    /\ \E a \in Activities :
         /\ script[a] = "none"
         /\ script' = [script EXCEPT ![a] =
                         IF asked[c] = "demo" THEN "clear" ELSE "kill"]
         /\ spawned' = [spawned EXCEPT ![c] = a]
    /\ pc' = [pc EXCEPT ![c] = "record"]
    /\ UNCHANGED <<proc, asked, then, sigint, launch, gzserver, stopped>>

\* Mutant: the new process is not recorded
RecordNothing(c) ==
    /\ pc[c] = "record"
    /\ spawned' = [spawned EXCEPT ![c] = Nobody]
    /\ pc' = [pc EXCEPT ![c] = "ready"]
    /\ UNCHANGED <<proc, asked, processVars>>

\* _state.update(proc=proc, ...)
Record(c) ==
    /\ pc[c] = "record"
    /\ proc' = spawned[c]
    /\ spawned' = [spawned EXCEPT ![c] = Nobody]
    /\ pc' = [pc EXCEPT ![c] = "ready"]
    /\ UNCHANGED <<asked, processVars>>

\* Mutant: the signal is sent without looking whether anything runs
SignalUnchecked(c) ==
    /\ pc[c] = "signal"
    /\ sigint' = sigint \cup {proc} /\ stopped' = stopped \cup {proc}
    /\ pc' = [pc EXCEPT ![c] = "stop1"]
    /\ UNCHANGED <<proc, asked, spawned, script, then, launch, gzserver>>

\* _stop(), as far as killpg: nothing waits for the process to end
Signal(c) ==
    /\ pc[c] = "signal"
    /\ LET told == {a \in Activities : a = proc /\ Alive(a)}
       IN  sigint' = sigint \cup told /\ stopped' = stopped \cup told
    /\ pc' = [pc EXCEPT ![c] = "stop1"]
    /\ UNCHANGED <<proc, asked, spawned, script, then, launch, gzserver>>

\* stop.sh: Gazebo first, then every `ros2 launch'
StopGazebo(c) ==
    /\ pc[c] = "stop1"
    /\ gzserver' = Nobody
    /\ pc' = [pc EXCEPT ![c] = "stop2"]
    /\ UNCHANGED <<proc, asked, spawned, script, then, sigint, launch, stopped>>

StopLaunches(c) ==
    /\ pc[c] = "stop2"
    /\ launch' = NoLaunch
    /\ pc' = [pc EXCEPT ![c] = "forget"]
    /\ UNCHANGED <<proc, asked, spawned, script, then, sigint, gzserver, stopped>>

\* _state.update(proc=None, kind=None)
Forget(c) ==
    /\ pc[c] = "forget"
    /\ proc' = Nobody
    /\ pc' = [pc EXCEPT ![c] = "ready"]
    /\ UNCHANGED <<asked, spawned, processVars>>

Serve(c) ==
    \/ Poll(c)
    \/ Pgrep(c)
    \/ Spawn(c)
    \/ Record(c)
    \/ Signal(c)
    \/ StopGazebo(c)
    \/ StopLaunches(c)
    \/ Forget(c)

-----------------------------------------------------------------------------
(***************************************************************************)
(* The processes.                                                          *)
(***************************************************************************)

Goto(a, phase) == script' = [script EXCEPT ![a] = phase]

SetLaunch(a, state) == launch' = [launch EXCEPT ![a] = state]

\* A `ros2 launch' starts its Gazebo, which ends at once if another has the port
GazeboUp(a) ==
    /\ launch[a] = "starting"
    /\ SetLaunch(a, "started")
    /\ gzserver' = IF gzserver = Nobody THEN a ELSE gzserver
    /\ UNCHANGED <<serverVars, script, then, sigint, stopped>>

\* run_env_demo.sh to its end: it kills any Gazebo, launches, polls until Nav2
\* is active or 90 times, sends the goal and waits for its `ros2 launch'.
\* Sending the goal waits for a navigator, whosever, as long as there is none.
DemoStep(a) ==
    /\ \/ script[a] = "clear" /\ Goto(a, "launch")
          /\ gzserver' = Nobody /\ UNCHANGED launch
       \/ script[a] = "launch" /\ Goto(a, "waiting")
          /\ SetLaunch(a, "starting") /\ UNCHANGED gzserver
       \/ script[a] = "waiting" /\ Goto(a, "goal")
          /\ UNCHANGED <<launch, gzserver>>
       \/ script[a] = "goal" /\ gzserver # Nobody /\ Goto(a, "wait")
          /\ UNCHANGED <<launch, gzserver>>
       \/ script[a] = "wait" /\ launch[a] = "off" /\ Goto(a, "exit1")
          /\ UNCHANGED <<launch, gzserver>>
    /\ UNCHANGED <<serverVars, then, sigint, stopped>>

\* What the script does after the trap for a SIGINT.  The trap does not exit,
\* so it goes on, unless the command it interrupted then fails under `set -e':
\* a `sleep', or the `wait'.  A `ros2' or a `pkill' of the script may fail.
AfterTrap(phase) ==
    CASE phase = "clear"   -> {"launch", "exit1"}
      [] phase = "launch"  -> {"launch", "exit1"}
      [] phase = "waiting" -> {"waiting", "exit1"}
      [] phase = "goal"    -> {"wait", "exit1"}
      [] phase = "wait"    -> {"exit1"}

\* The SIGINT reaches a demo: the trap, or the end before the trap is set
DemoInterrupt(a) ==
    /\ a \in sigint
    /\ \/ /\ script[a] \in {"clear", "launch", "waiting", "goal", "wait"}
          /\ \E next \in AfterTrap(script[a]) : then' = [then EXCEPT ![a] = next]
          /\ Goto(a, "int1")
       \/ /\ script[a] = "clear"
          /\ Goto(a, "dead")
          /\ UNCHANGED then
    /\ sigint' = sigint \ {a}
    /\ UNCHANGED <<serverVars, launch, gzserver, stopped>>

\* cleanup(), the trap for INT and for EXIT: Gazebo, then every `ros2 launch'
Cleanup(a) ==
    /\ \/ script[a] = "int1" /\ gzserver' = Nobody
          /\ Goto(a, "int2") /\ UNCHANGED launch
       \/ script[a] = "int2" /\ launch' = NoLaunch
          /\ Goto(a, then[a]) /\ UNCHANGED gzserver
       \/ script[a] = "exit1" /\ gzserver' = Nobody
          /\ Goto(a, "exit2") /\ UNCHANGED launch
       \/ script[a] = "exit2" /\ launch' = NoLaunch
          /\ Goto(a, "dead") /\ UNCHANGED gzserver
    /\ UNCHANGED <<serverVars, then, sigint, stopped>>

\* The benchmark: run_one kills any Gazebo, launches, runs, ends its launch and
\* kills Gazebo, then the next run begins, or it was the last
BenchmarkStep(a) ==
    /\ \/ script[a] = "kill" /\ Goto(a, "start")
          /\ gzserver' = Nobody /\ UNCHANGED launch
       \/ script[a] = "start" /\ Goto(a, "run")
          /\ SetLaunch(a, "starting") /\ UNCHANGED gzserver
       \/ script[a] = "run" /\ Goto(a, "teardown")
          /\ SetLaunch(a, "off") /\ UNCHANGED gzserver
       \/ script[a] = "teardown" /\ (Goto(a, "kill") \/ Goto(a, "dead"))
          /\ gzserver' = Nobody /\ UNCHANGED launch
    /\ UNCHANGED <<serverVars, then, sigint, stopped>>

\* The SIGINT ends a benchmark where it is; its launch has a session of its own
BenchmarkInterrupt(a) ==
    /\ a \in sigint
    /\ script[a] \in BenchmarkPhases
    /\ Goto(a, "dead")
    /\ sigint' = sigint \ {a}
    /\ UNCHANGED <<serverVars, then, launch, gzserver, stopped>>

Process(a) ==
    \/ GazeboUp(a)
    \/ DemoStep(a)
    \/ DemoInterrupt(a)
    \/ Cleanup(a)
    \/ BenchmarkStep(a)
    \/ BenchmarkInterrupt(a)

PanelNext ==
    \/ \E c \in Clients : Request(c) \/ Serve(c)
    \/ \E a \in Activities : Process(a)

PanelSpec == PanelInit /\ [][PanelNext]_panelVars

\* Request threads are scheduled, processes run and take their signals
Fairness ==
    /\ \A c \in Clients : WF_panelVars(Serve(c))
    /\ \A a \in Activities :
         /\ WF_panelVars(DemoStep(a))
         /\ WF_panelVars(Cleanup(a))
         /\ WF_panelVars(DemoInterrupt(a))
         /\ WF_panelVars(BenchmarkInterrupt(a))

FairSpec == PanelSpec /\ Fairness

-----------------------------------------------------------------------------

PanelTypeOK ==
    /\ proc \in Activities \cup {Nobody}
    /\ pc \in [Clients -> {"ready", "poll", "pgrep", "spawn", "record",
                           "signal", "stop1", "stop2", "forget"}]
    /\ asked \in [Clients -> Requests \cup {"stop"}]
    /\ spawned \in [Clients -> Activities \cup {Nobody}]
    /\ script \in [Activities -> {"none", "dead"} \cup DemoPhases \cup BenchmarkPhases]
    /\ then \in [Activities -> {"none"} \cup DemoPhases]
    /\ sigint \subseteq Activities
    /\ launch \in [Activities -> {"off", "starting", "started"}]
    /\ gzserver \in Activities \cup {Nobody}
    /\ stopped \subseteq Activities

Running == {a \in Activities : Alive(a)}

\* The docstring of the panel, "Only one Gazebo activity (a demo or a benchmark) runs
\* at a time", as far as it holds, when requests come one at a time: at most one activity
\* runs that nobody has asked to stop, also while a benchmark is between two
\* runs or a demo is starting up and no Gazebo is there to be found.
OneWantedActivity == Cardinality(Running \ stopped) <= 1

\* When requests come one at a time, an activity that nobody asked to stop is
\* the recorded one once its request is served, so Stop reaches it.
NothingOrphaned ==
    (\A c \in Clients : pc[c] = "ready") => Running \ stopped \subseteq {proc}

\* "Force-stop everything the SocialNav demo starts", says stop.sh, and the
\* panel that its scripts handle the teardown: an activity that was asked to
\* stop ends.
StoppedActivityEnds ==
    \A a \in Activities : a \in stopped ~> script[a] = "dead"
=============================================================================

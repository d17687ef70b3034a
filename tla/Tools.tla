-------------------------------- MODULE Tools ---------------------------------
(***************************************************************************)
(* An operator runs one of the two programs that drive the stack from      *)
(* outside: run_routes.py, which launches its own stacks, or run_sweeps.py *)
(* against a stack that is already running without a controller.           *)
(***************************************************************************)
EXTENDS RouteHarness, SweepRunner

CONSTANT Programs   \* the programs to choose from

ASSUME ProgramsAssumption == Programs \subseteq {"run_routes", "run_sweeps"}

VARIABLE program

toolVars == <<program, feedVars, harnessVars, sweepVars>>

TypeOK ==
  program \in Programs /\ FeedTypeOK /\ HarnessTypeOK /\ SweepTypeOK

Init ==
  /\ program \in Programs
  /\ FeedInit(program = "run_sweeps")
  /\ HarnessInit
  /\ SweepInit

(* Once the program has ended nobody watches the stack any more. *)
StackStep ==
  hpc # "exit" /\ spc # "exit" /\
  FeedNext(program = "run_sweeps") /\ UNCHANGED <<program, harnessVars, sweepVars>>

RoutesStep ==
  program = "run_routes" /\ HarnessNext /\ UNCHANGED <<program, sweepVars>>

SweepsStep ==
  program = "run_sweeps" /\ SweepNext /\ UNCHANGED <<program, harnessVars>>

Next == StackStep \/ RoutesStep \/ SweepsStep

Spec == Init /\ [][Next]_toolVars

(* The programs keep running; nothing is assumed of the stack. *)
Fairness ==
  /\ WF_toolVars(program = "run_routes" /\ HarnessWork /\ UNCHANGED <<program, sweepVars>>)
  /\ WF_toolVars(program = "run_sweeps" /\ SweepWork /\ UNCHANGED <<program, harnessVars>>)

FairSpec == Spec /\ Fairness

(* Each program comes to its end whatever the stack does, dead or silent. *)
ToolsEnd ==
  <>(IF program = "run_routes" THEN hpc = "exit" ELSE spc = "exit")
===============================================================================

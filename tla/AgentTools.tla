------------------------------ MODULE AgentTools ------------------------------
(***************************************************************************)
(* The tools an agent delegates with: run_agent (src/main.go) and          *)
(* run_agents (src/delegation.go), on the agents and runs of the cluster   *)
(* (src/k8s.go).  A call first checks every delegation against the         *)
(* cluster, one read at a time, then creates the runs in parallel, and     *)
(* then registers them as one group with the DelegationWatcher.  Agents    *)
(* appear, disappear and change their phase at any time.                   *)
(*                                                                         *)
(* What becomes of a registered group is module Delegation.                *)
(***************************************************************************)
EXTENDS Naturals, FiniteSets, Sequences

CONSTANTS
  Agent,      \* names of agents
  Self,       \* AGENT_NAME
  Team,       \* delegation.team; the tools exist only when there is one
  Daemons,    \* the agents whose mode is "daemon"
  MaxFanOut,  \* delegations one run_agents call may hold
  MaxDelegations, \* bound on the calls of these tools
  malformed   \* a delegation without agent or prompt, or with half of the
              \* git parameters

ASSUME AgentAssumption ==
  /\ Team \subseteq Agent /\ Team # {}
  /\ Daemons \subseteq Agent
  /\ MaxFanOut \in 1 .. 10
  /\ MaxDelegations \in Nat
  /\ malformed \notin Agent

VARIABLES
  existing,  \* Agent CRs in the namespace
  running,   \* agents whose status.phase is Running
  call,      \* the tool call in progress
  ncalls,    \* calls made so far
  runs,      \* AgentRun CRs created
  groups,    \* groups registered with the watcher
  refused,   \* calls answered with an error before anything was created
  broken     \* calls answered with create errors

toolVars == <<existing, running, call, ncalls, runs, groups, refused, broken>>
clusterVars == <<existing, running>>

Tool == {"run_agent", "run_agents"}
Item == Agent \cup {malformed}
Idle == [stage |-> "idle"]

Run == [call : 1 .. MaxDelegations, item : 1 .. MaxFanOut, agent : Agent]
Group == [call : 1 .. MaxDelegations, runs : SUBSET Run, single : BOOLEAN]
Calling == [stage : {"validate", "create"}, tool : Tool, items : Seq(Item),
            checked : Nat, created : SUBSET Nat, failed : SUBSET Nat]

ToolTypeOK ==
  /\ existing \subseteq Agent /\ running \subseteq Agent
  /\ \/ call = Idle
     \/ /\ call \in Calling
        /\ call.checked \in 0 .. Len(call.items)
        /\ call.created \subseteq DOMAIN call.items
        /\ call.failed \subseteq DOMAIN call.items
  /\ ncalls \in 0 .. MaxDelegations
  /\ runs \subseteq Run
  /\ groups \subseteq Group
  /\ refused \subseteq 1 .. ncalls /\ broken \subseteq 1 .. ncalls

ToolInit ==
  /\ existing = Agent /\ running = Agent
  /\ call = Idle /\ ncalls = 0
  /\ runs = {} /\ groups = {} /\ refused = {} /\ broken = {}

-----------------------------------------------------------------------------
(* The calls.                                                              *)

\* Items of a call: run_agent delegates to one agent, run_agents to several.
Batch(tool) ==
  UNION {[1 .. n -> Item] : n \in IF tool = "run_agent" THEN {1} ELSE 0 .. MaxFanOut + 1}

\* The checks that need no cluster: an empty or too long list, a timeout that
\* cannot be parsed or is out of bounds (delegation.go:74-95).
WellFormed(tool, items, timeoutOk) ==
  tool = "run_agent" \/ (Len(items) \in 1 .. MaxFanOut /\ timeoutOk)

StartCall(tool, items, timeoutOk) ==
  /\ call = Idle /\ ncalls < MaxDelegations
  /\ ncalls' = ncalls + 1
  /\ IF WellFormed(tool, items, timeoutOk)
     THEN /\ call' = [stage |-> "validate", tool |-> tool, items |-> items,
                      checked |-> 0, created |-> {}, failed |-> {}]
          /\ UNCHANGED refused
     ELSE /\ call' = call
          /\ refused' = refused \cup {ncalls + 1}
  /\ UNCHANGED <<clusterVars, runs, groups, broken>>

\* One delegation passes: it is complete, not to the agent itself, in the
\* team, to an agent that exists, and a daemon has to be Running.
Accepts(item) ==
  /\ item # malformed
  /\ item # Self
  /\ item \in Team
  /\ item \in existing
  /\ item \in Daemons => item \in running

\* The delegations are checked in order; the first that does not pass, or
\* whose agent cannot be read, ends the call.
Validate ==
  /\ call # Idle /\ call.stage = "validate"
  /\ \/ /\ Accepts(call.items[call.checked + 1])
        /\ call' = [call EXCEPT !.checked = @ + 1,
                      !.stage = IF call.checked + 1 = Len(call.items)
                                THEN "create" ELSE "validate"]
        /\ UNCHANGED refused
     \/ /\ call' = Idle
        /\ refused' = refused \cup {ncalls}
  /\ UNCHANGED <<clusterVars, ncalls, runs, groups, broken>>

\* The run of the i-th delegation of the current call.
Child(i) == [call |-> ncalls, item |-> i, agent |-> call.items[i]]

\* CreateAgentRun in a goroutine of its own.  The API server does not look at
\* the agent; a failing request may have created the run all the same.
Create(i) ==
  /\ call # Idle /\ call.stage = "create"
  /\ i \in DOMAIN call.items \ (call.created \cup call.failed)
  /\ \/ /\ runs' = runs \cup {Child(i)}
        /\ call' = [call EXCEPT !.created = @ \cup {i}]
     \/ /\ runs' \in {runs, runs \cup {Child(i)}}
        /\ call' = [call EXCEPT !.failed = @ \cup {i}]
  /\ UNCHANGED <<clusterVars, ncalls, groups, refused, broken>>

\* All creates have answered.
Collected == call # Idle /\ call.stage = "create"
             /\ call.created \cup call.failed = DOMAIN call.items

\* One create failed: the error names the runs whose create was answered, and
\* they stay; one that failed for its answer only is there too, unnamed.
ReportCreateErrors ==
  /\ Collected /\ call.failed # {}
  /\ call' = Idle
  /\ broken' = broken \cup {ncalls}
  /\ UNCHANGED <<clusterVars, ncalls, runs, groups, refused>>

\* Mutant: a batch that failed in part is registered as far as it got
RegisterWhatWasCreated ==
  /\ Collected
  /\ call' = Idle
  /\ groups' = groups \cup
       {[call |-> ncalls, single |-> call.tool = "run_agent",
         runs |-> {Child(i) : i \in call.created}]}
  /\ UNCHANGED <<clusterVars, ncalls, runs, refused, broken>>

\* Otherwise the runs become one group of the watcher.
RegisterGroup ==
  /\ Collected /\ call.failed = {}
  /\ call' = Idle
  /\ groups' = groups \cup
       {[call |-> ncalls, single |-> call.tool = "run_agent",
         runs |-> {Child(i) : i \in call.created}]}
  /\ UNCHANGED <<clusterVars, ncalls, runs, refused, broken>>

\* The operator and its users change the agents.
ClusterChange ==
  /\ \E a \in Team \ {Self} :
       \/ /\ existing' \in {existing \cup {a}, existing \ {a}}
          /\ UNCHANGED running
       \/ /\ a \in Daemons
          /\ running' \in {running \cup {a}, running \ {a}}
          /\ UNCHANGED existing
  /\ UNCHANGED <<call, ncalls, runs, groups, refused, broken>>

ToolStep ==
  \/ Validate
  \/ \E i \in 1 .. MaxFanOut : Create(i)
  \/ ReportCreateErrors \/ RegisterGroup

-----------------------------------------------------------------------------
(* Properties.                                                             *)

\* A run is watched by the group of its call, whole, once the call is over;
\* only runs of a call whose creates failed in part are in no group, and no
\* callback will tell of them (delegation.go:199).
ChildrenAreWatched ==
  \A r \in runs :
    \/ r.call \in broken
    \/ call # Idle /\ r.call = ncalls
    \/ \E g \in groups : /\ r \in g.runs
                         /\ g.runs = {s \in runs : s.call = r.call}

\* "If any delegation is invalid, fail fast with no side effects"
\* (delegation.go:103-104): a refused call has created no run, although its
\* checks read a cluster that changes in between.
RefusedCallsCreateNothing == \A r \in runs : r.call \notin refused
-----------------------------------------------------------------------------
(* The inductive invariant.                                                *)

\* A call in progress has been checked as far as it says, and all of it before
\* a run is created.
CallIsChecked ==
  call # Idle =>
    /\ ncalls > 0 /\ Len(call.items) \in 1 .. MaxFanOut
    /\ IF call.stage = "validate" THEN call.checked < Len(call.items)
                                  ELSE call.checked = Len(call.items)
    /\ \A i \in 1 .. call.checked : call.items[i] \in Team
=============================================================================

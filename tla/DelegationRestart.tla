-------------------------- MODULE DelegationRestart --------------------------
(***************************************************************************)
(* The DelegationWatcher over several lifetimes of the daemon: shutdown    *)
(* (main.go, runDaemon), the delegation checkpoint (checkpoint.go) and the *)
(* start that restores it, with crashes at any moment.                     *)
(*                                                                         *)
(* Delegation is one lifetime.  Here its variables are reset when a        *)
(* process ends; the AgentRuns and the deadlines are not, for the cluster  *)
(* and the clock go on without the daemon.                                 *)
(***************************************************************************)
EXTENDS Delegation

CONSTANT MaxLives   \* bound on the lifetimes; nothing ends the last one

ASSUME MaxLivesAssumption == MaxLives \in Nat \ {0}

VARIABLES
  mode,    \* how far the shutdown goroutine is, or that no process runs
  copied,  \* what CheckpointGroups returned: at most one record
  file,    \* the delegation checkpoint: at most one record
  lives,   \* lifetimes begun (bound)
  told,    \* groups reported in an earlier lifetime (history)
  again,   \* groups reported after the checkpoint had copied them (history)
  excused  \* groups that a crash, a failed write or a gap may lose (history)

lifeVars == <<mode, copied, file, lives, told, again, excused>>
allVars  == <<vars, lifeVars>>

Checkpoint == [groups : SUBSET Group, result : [Run -> Terminal \cup {nil}]]

LifeTypeOK ==
  /\ TypeOK
  /\ mode \in {"up", "copied", "saved", "stopped", "down"}
  /\ copied \subseteq Checkpoint /\ file \subseteq Checkpoint
  /\ \A S \in {copied, file} : \A c, d \in S : c = d
  /\ lives \in 1 .. MaxLives
  /\ told \in SUBSET Group /\ again \in SUBSET Group /\ excused \in SUBSET Group

\* The first lifetime finds no checkpoint
LifeInit ==
  /\ Boot({})
  /\ phase = [r \in Run |-> "absent"]
  /\ result = [r \in Run |-> nil]
  /\ expired = [g \in Group |-> FALSE]
  /\ mode = "up" /\ copied = {} /\ file = {} /\ lives = 1
  /\ told = {} /\ again = {} /\ excused = {}

-------------------------------------------------------------------------------
(* Groups in the memory of the process *)

Reported == {g \in Group : completed[g] + timedOut[g] > 0}

\* Out of the map, on their way to triggerFn
InHand ==
  {g \in Group \ groups : completer[g] \in {"remove", "deliver"} \/ timer[g] \in {"removed", "deliver"}}

Held == groups \cup restoring \cup InHand

CopiedGroups == UNION {c.groups : c \in copied}
FiledGroups  == UNION {c.groups : c \in file}

-------------------------------------------------------------------------------
(* The watcher at work, also while the process shuts down *)

\* What a step of the watcher means for the histories
Witness ==
  /\ again' = again \cup ((Reported' \ Reported) \cap CopiedGroups)
  /\ excused' = IF mode = "up" THEN excused
                ELSE excused \cup {g \in Group : call[g] = "creating" /\ call'[g] = "registered"}
  /\ UNCHANGED <<mode, copied, file, lives, told>>

Live == mode # "down" /\ Work /\ Witness

\* No process: runs end and deadlines pass
Meanwhile ==
  /\ mode = "down"
  /\ \/ \E r \in Run : FinishRun(r)
     \/ \E g \in Group : PassDeadline(g)
  /\ UNCHANGED lifeVars

-------------------------------------------------------------------------------
(* Shutdown: the goroutine that waits for the signal, which starts when      *)
(* RestoreGroups has returned                                                *)

\* Mutant: a group without open runs needs no checkpoint
CheckpointOpenGroups ==
  /\ mode = "up" /\ restoring = {} /\ lives < MaxLives
  /\ mode' = "copied"
  /\ copied' = {[groups |-> {g \in groups : Open(g) # {}}, result |-> result]}
  /\ excused' = excused \cup InHand
  /\ UNCHANGED <<vars, file, lives, told, again>>

\* CheckpointGroups: the groups in the map, their Runs maps shared
CheckpointGroups ==
  /\ mode = "up" /\ restoring = {} /\ lives < MaxLives
  /\ mode' = "copied"
  /\ copied' = {[groups |-> groups, result |-> result]}
  /\ excused' = excused \cup InHand
  /\ UNCHANGED <<vars, file, lives, told, again>>

\* What json.Marshal may read for run r of a copied group while watchers go
\* on writing the shared maps without its knowing
ReadBy(c, r) == {c.result[r], result[r]}

\* Mutant: the phases of the AgentRuns are saved, not the results
SavePhases ==
  /\ mode = "copied"
  /\ mode' = "saved"
  /\ file' = {[groups |-> c.groups, result |-> phase] : c \in copied}
  /\ UNCHANGED <<vars, copied, lives, told, again, excused>>

\* Mutant: the shutdown marks open runs as failed
SaveOpenAsFailed ==
  /\ mode = "copied"
  /\ mode' = "saved"
  /\ file' = {[groups |-> c.groups,
               result |-> [r \in Run |-> IF c.result[r] = nil THEN "Failed" ELSE c.result[r]]] :
              c \in copied}
  /\ UNCHANGED <<vars, copied, lives, told, again, excused>>

\* SaveDelegationCheckpoint: write to a temporary file and rename it, or
\* remove the file when there is no group; a failed write changes nothing
SaveDelegationCheckpoint ==
  /\ mode = "copied"
  /\ mode' = "saved"
  /\ \/ /\ CopiedGroups = {}
        /\ file' = {}
        /\ UNCHANGED excused
     \/ /\ CopiedGroups # {}
        /\ \E c \in copied, read \in [Run -> Terminal \cup {nil}] :
             /\ \A r \in Run : read[r] \in ReadBy(c, r)
             /\ file' = {[groups |-> c.groups, result |-> read]}
        /\ UNCHANGED excused
     \/ /\ CopiedGroups # {}
        /\ UNCHANGED file
        /\ excused' = excused \cup CopiedGroups
  /\ UNCHANGED <<vars, copied, lives, told, again>>

StopWatcher ==
  /\ mode = "saved"
  /\ Stop
  /\ mode' = "stopped"
  /\ UNCHANGED <<copied, file, lives, told, again, excused>>

\* The process is gone: no goroutine, map or call of it is left
ProcessEnds ==
  /\ mode' = "down"
  /\ told' = told \cup Reported
  /\ call' = [g \in Group |-> IF call[g] = "creating" THEN "failed" ELSE call[g]]
  /\ restoring' = {} /\ groups' = {} /\ links' = {} /\ stopped' = FALSE
  /\ result' = [r \in Run |-> nil]
  /\ remaining' = [g \in Group |-> 0]
  /\ ctx' = [g \in Group |-> "none"]
  /\ watcher' = [r \in Run |-> "none"]
  /\ timer' = [g \in Group |-> "none"]
  /\ completer' = [g \in Group |-> "none"]
  /\ completed' = [g \in Group |-> 0]
  /\ timedOut' = [g \in Group |-> 0]
  /\ copied' = {}
  /\ UNCHANGED <<phase, expired, file, lives, again>>

\* End of the shutdown: the server is closed and runDaemon returns
Exit ==
  /\ mode = "stopped"
  /\ ProcessEnds
  /\ UNCHANGED excused

\* Killed, out of memory, or a fatal error such as a concurrent map write:
\* a crash forgets what no file holds
Crash ==
  /\ mode # "down" /\ lives < MaxLives
  /\ ProcessEnds
  /\ excused' = excused \cup (Held \ FiledGroups)

-------------------------------------------------------------------------------
(* Start *)

\* Mutant: the checkpoint stays
StartKeepingFile ==
  /\ mode = "down" /\ lives < MaxLives
  /\ mode' = "up" /\ lives' = lives + 1
  /\ restoring' = FiledGroups
  /\ result' = [r \in Run |->
       IF GroupOf(r) \in FiledGroups THEN (CHOOSE c \in file : TRUE).result[r] ELSE nil]
  /\ UNCHANGED <<toolVars, groups, remaining, ctx, pcVars, expired, stopped, links,
                 doneVars, copied, file, told, again, excused>>

\* RestoreDelegationCheckpoint reads and removes the file; RestoreGroups
\* follows step by step.  A crash between read and removal leaves what there
\* was before the start.
Start ==
  /\ mode = "down" /\ lives < MaxLives
  /\ mode' = "up" /\ lives' = lives + 1
  /\ restoring' = FiledGroups
  /\ result' = [r \in Run |->
       IF GroupOf(r) \in FiledGroups THEN (CHOOSE c \in file : TRUE).result[r] ELSE nil]
  /\ file' = {}
  /\ UNCHANGED <<toolVars, groups, remaining, ctx, pcVars, expired, stopped, links,
                 doneVars, copied, told, again, excused>>

-------------------------------------------------------------------------------
Shutdown == SaveDelegationCheckpoint \/ StopWatcher \/ Exit

LifeNext ==
  \/ Live \/ Meanwhile
  \/ CheckpointGroups \/ SaveDelegationCheckpoint \/ StopWatcher \/ Exit
  \/ Crash \/ Start

LifeSpec == LifeInit /\ [][LifeNext]_allVars

\* Delegation's fairness while a process runs; a shutdown that has begun goes
\* on, and Kubernetes starts the daemon again
LifeFairness ==
  /\ \A g \in Group :
       /\ WF_allVars(mode # "down" /\ Restore(g) /\ Witness)
       /\ WF_allVars(mode # "down" /\ Callback(g) /\ Witness)
       /\ WF_allVars(mode # "down" /\ Timeout(g) /\ Witness)
  /\ \A r \in Run :
       /\ WF_allVars(mode # "down" /\ WatchAgentRun(r) /\ Witness)
       /\ WF_allVars(mode # "down" /\ CheckRecorded(r) /\ Witness)
       /\ SF_allVars(mode # "down" /\ RecordCompletion(r) /\ Witness)
  /\ WF_allVars(Shutdown)
  /\ WF_allVars(Start)

FairLifeSpec == LifeSpec /\ LifeFairness

-------------------------------------------------------------------------------
(* Properties *)

\* A registered group is never lost by a restart as such: it is reported, in
\* memory, in the file or late, or else a crash, a failed write or one of the
\* two gaps of the shutdown explains it.  The gaps: a group on its way to
\* triggerFn when CheckpointGroups copies the map, and one registered later.
NoGroupLost ==
  \A g \in Accepted :
    \/ g \in told \cup Reported \cup Held \cup FiledGroups
    \/ expired[g]
    \/ g \in excused

\* A group reported before its lifetime's checkpoint is over for good: only
\* one that was reported after it had been copied can come back.
RepeatOnlyAfterCopy ==
  \A g \in told : g \in Held \cup FiledGroups \cup Reported => g \in again

\* A checkpoint is one that Delegation's Init allows: it names created runs
\* only, and gives each the phase it has ended in or none.
CheckpointIsTrue ==
  \A c \in file : \A g \in c.groups : \A r \in RunsOf[g] :
    phase[r] \notin {"absent", "createError"} /\ c.result[r] \in {nil, phase[r]}

\* A group whose runs have all ended is reported, in this lifetime or in a
\* later one, unless it is late or something explains its loss; runs that end
\* while no daemon runs are found by the watches after the restart.
ReportedAcrossRestarts ==
  \A g \in Group :
    (g \in Accepted /\ \A r \in RunsOf[g] : phase[r] \in Terminal)
      ~> (g \in told \cup Reported \cup excused \/ expired[g])

-------------------------------------------------------------------------------
(* The inductive invariant behind the safety properties *)

\* RestoreGroups, a watcher, a timeout or a callback of this lifetime has the
\* group
Active(g) == g \in groups \cup restoring \/ timer[g] # "none" \/ completer[g] # "none"

\* What has which contents at which point of the shutdown
ShutdownInOrder ==
  /\ mode # "up" => restoring = {}
  /\ mode \in {"up", "copied"} => file = {}
  /\ mode \in {"up", "down"} => copied = {}
  /\ mode \in {"saved", "stopped"} => FiledGroups \subseteq CopiedGroups
  /\ mode = "down" => \A g \in Group : ~Active(g)

\* A group is registered when its runs have been created, and none but a
\* registered group gets into a checkpoint or is reported
AcceptedHaveRuns ==
  /\ \A g \in Accepted : \A r \in RunsOf[g] : phase[r] \notin {"absent", "createError"}
  /\ CopiedGroups \cup FiledGroups \cup told \subseteq Accepted

\* As in the file, so in the copy that is to be written
CopyIsTrue ==
  \A c \in copied : \A g \in c.groups : \A r \in RunsOf[g] : c.result[r] \in {nil, phase[r]}

\* Within a lifetime, a group leaves the memory only when it is reported or late
ActiveIsHeld == \A g \in Group : Active(g) => g \in Held \cup Reported

\* From the copy on, the memory holds nothing that the checkpoint, a report or
\* a gap of the shutdown does not account for
CopyCoversMemory ==
  /\ mode = "copied" =>
       \A g \in Group : Active(g) => g \in CopiedGroups \cup Reported \cup excused
  /\ mode \in {"saved", "stopped"} =>
       \A g \in Group : Active(g) => g \in FiledGroups \cup Reported \cup excused

\* What an earlier lifetime has reported, or this one after the copy, is in
\* memory or in a checkpoint only if it was reported after its copy
RepeatsAreCopies ==
  /\ \A g \in told : Active(g) \/ g \in CopiedGroups \cup FiledGroups => g \in again
  /\ Reported \cap CopiedGroups \subseteq again

LifeInv ==
  /\ LifeTypeOK
  /\ WatcherInv
  /\ ReportsAreTrue
  /\ ShutdownInOrder
  /\ AcceptedHaveRuns
  /\ CheckpointIsTrue
  /\ CopyIsTrue
  /\ ActiveIsHeld
  /\ CopyCoversMemory
  /\ RepeatsAreCopies
  /\ NoGroupLost

===============================================================================

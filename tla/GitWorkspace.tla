----------------------------- MODULE GitWorkspace -----------------------------
(***************************************************************************)
(* The git workspace of a run (src/gitops.go): the clone made before the   *)
(* agent starts, the git_* tools, and the signals the outcome of the run   *)
(* is inferred from.  Commits are numbered as they are made, 0 is where    *)
(* the history of the repository begins, and every history is a line.      *)
(* Other developers push to the same repository at any time.               *)
(*                                                                         *)
(* Two branches matter: the base and one feature branch.  The clone is     *)
(* shallow in the code (depth 50); here it is complete.                    *)
(***************************************************************************)
EXTENDS Naturals, FiniteSets

CONSTANTS
  Base, Feature,  \* the two branches
  NoBranch,       \* an empty branch name
  NoCommit,       \* a reference that does not exist
  File,           \* paths of the worktree
  MaxCommit       \* bound on the number of commits made

Branch == {Base, Feature}
Commit == 0 .. MaxCommit

ASSUME BranchAssumption ==
  /\ Base # Feature
  /\ NoBranch \notin Branch
ASSUME CommitAssumption == MaxCommit \in Nat /\ NoCommit \notin Commit

VARIABLES
  made,      \* the last commit made by anyone
  parent,    \* the commit each commit was made on
  own,       \* the commits this run made
  remote,    \* the branches of the repository on the server
  ready,     \* the global workspace is set (workspace # nil)
  asked,     \* workspace.branch, from GIT_BRANCH; it may be empty
  local,     \* the local branches
  track,     \* refs/remotes/origin/<base>, the only one a fetch or push moves
  head,      \* the branch that is checked out
  staged,    \* paths whose index differs from HEAD
  unstaged,  \* paths whose worktree differs from the index, new ones included
  new,       \* paths the index does not know (status "??")
  forced,    \* a push was forced (history)
  switched   \* git_branch left for a branch that was there (history)

refVars == <<made, parent, own, remote, ready, asked, local, track, head, forced, switched>>
treeVars == <<staged, unstaged, new>>
gitVars == <<refVars, treeVars>>

-----------------------------------------------------------------------------
(* Histories.                                                              *)

HistoryBy(before, c) ==
  LET h[d \in Commit] == IF d = 0 THEN {0} ELSE {d} \cup h[before[d]]
  IN IF c = NoCommit THEN {} ELSE h[c]

History(c) == HistoryBy(parent, c)

\* The commits in the object store of the clone.
Known == UNION {History(local[b]) : b \in Branch} \cup History(track)

\* Mutant: any commit that is known here may be overwritten
FastForwardKnown(old, to) == old = NoCommit \/ old \in Known

\* The check a push without force and a pull make: the old commit is known
\* here and the new one follows it.
FastForward(old, to) == old = NoCommit \/ old \in History(to)

HeadCommit == local[head]

\* Mutant: nothing is counted when the base has moved past HEAD
CommitsAheadOfAncestor ==
  IF ~ready \/ HeadCommit = NoCommit \/ track \notin History(HeadCommit) THEN 0
  ELSE Cardinality(History(HeadCommit) \ History(track))

\* extractGitInfo: the commits from HEAD down to origin/<base>.  When that
\* commit is not met on the way, every commit of the history is counted.
CommitsAhead ==
  IF ~ready \/ HeadCommit = NoCommit THEN 0
  ELSE LET base == IF track # NoCommit THEN track ELSE local[Base]
       IN IF base = NoCommit THEN 0
          ELSE Cardinality(IF base \in History(HeadCommit)
                           THEN History(HeadCommit) \ History(base)
                           ELSE History(HeadCommit))

\* The paths git_status lists.
Changed == staged \cup unstaged

-----------------------------------------------------------------------------
GitTypeOK ==
  /\ made \in Commit
  /\ parent \in [Commit -> Commit]
  /\ own \subseteq Commit
  /\ remote \in [Branch -> Commit \cup {NoCommit}]
  /\ ready \in BOOLEAN
  /\ asked \in Branch \cup {NoBranch}
  /\ local \in [Branch -> Commit \cup {NoCommit}]
  /\ track \in Commit \cup {NoCommit}
  /\ head \in Branch
  /\ staged \subseteq File /\ unstaged \subseteq File /\ new \subseteq unstaged
  /\ {forced, switched} \subseteq BOOLEAN

GitInit ==
  /\ made = 0
  /\ parent = [c \in Commit |-> 0]
  /\ own = {}
  /\ remote = [b \in Branch |-> IF b = Base THEN 0 ELSE NoCommit]
  /\ ready = FALSE
  /\ asked \in Branch \cup {NoBranch}
  /\ local = [b \in Branch |-> NoCommit]
  /\ track = NoCommit
  /\ head = Base
  /\ staged = {} /\ unstaged = {} /\ new = {}
  /\ forced = FALSE /\ switched = FALSE

NewCommit(on) ==
  /\ made < MaxCommit
  /\ made' = made + 1
  /\ parent' = [parent EXCEPT ![made + 1] = on]

\* Another developer pushes a commit to a branch, or opens the branch.
OthersPush(b) ==
  /\ NewCommit(IF remote[b] = NoCommit THEN remote[Base] ELSE remote[b])
  /\ remote' = [remote EXCEPT ![b] = made + 1]
  /\ UNCHANGED <<own, ready, asked, local, track, head, forced, switched, treeVars>>

-----------------------------------------------------------------------------
(* setupGitWorkspace: clone the base branch; for another branch, fetch it  *)
(* and check it out, or create it at HEAD when the fetch fails.  A fetch   *)
(* fails when the branch does not exist and also when the network does.    *)

Fetched == asked \notin {NoBranch, Base} /\ remote[asked] # NoCommit

SetupOn(work) ==
  /\ ~ready
  /\ ready' = TRUE
  /\ track' = remote[Base]
  /\ local' = [b \in Branch |-> CASE b = Base -> remote[Base]
                                  [] b = asked /\ b # Base -> work
                                  [] OTHER -> NoCommit]
  /\ head' = IF asked = NoBranch THEN Base ELSE asked
  /\ UNCHANGED <<made, parent, own, remote, asked, forced, switched, treeVars>>

SetupExisting == Fetched /\ SetupOn(remote[asked])
SetupNew == SetupOn(remote[Base])

setupGitWorkspace == SetupExisting \/ SetupNew

-----------------------------------------------------------------------------
(* The tools.  Each refuses without a workspace (workspace == nil).        *)

\* A file tool or bash, external to git, changes a path.
EditFile(f) ==
  /\ ready
  /\ unstaged' = unstaged \cup {f}
  /\ new' \in {new, new \cup ({f} \ Changed)}
  /\ UNCHANGED <<refVars, staged>>

\* Mutant: a staged path stays untracked
GitAddKeepsNew(fs) ==
  /\ ready /\ fs # {}
  /\ \E done \in SUBSET (fs \cap unstaged) :
       staged' = staged \cup done /\ unstaged' = unstaged \ done
  /\ UNCHANGED <<refVars, new>>

\* git_add stages the paths named one after the other; a path that fails ends
\* the call, and those before it stay staged.
GitAdd(fs) ==
  /\ ready /\ fs # {}
  /\ \E done \in SUBSET (fs \cap unstaged) :
       /\ staged' = staged \cup done
       /\ unstaged' = unstaged \ done
       /\ new' = new \ done
  /\ UNCHANGED refVars

\* git_commit records what is staged; the library refuses an empty commit.
GitCommit ==
  /\ ready /\ staged # {}
  /\ NewCommit(HeadCommit)
  /\ own' = own \cup {made + 1}
  /\ local' = [local EXCEPT ![head] = made + 1]
  /\ staged' = {}
  /\ UNCHANGED <<remote, ready, asked, track, head, forced, switched, unstaged, new>>

\* The local branches a push offers.  Without a branch name the library's
\* default applies, refs/heads/*:refs/heads/*.
Offered(branch) ==
  {b \in (IF branch = NoBranch THEN Branch ELSE {branch}) : local[b] # NoCommit}

\* git_push: the whole push is refused if one branch cannot be fast-forwarded,
\* unless it is forced, and then every branch offered is overwritten.
GitPush(branch, force) ==
  /\ ready
  /\ force \/ \A b \in Offered(branch) : FastForward(remote[b], local[b])
  /\ \E b \in Offered(branch) : remote[b] # local[b]
  /\ remote' = [b \in Branch |-> IF b \in Offered(branch) THEN local[b]
                                                           ELSE remote[b]]
  /\ track' = IF Base \in Offered(branch) THEN local[Base] ELSE track
  /\ forced' = (forced \/ force)
  /\ UNCHANGED <<made, parent, own, ready, asked, local, head, switched, treeVars>>

\* Mutant: the branch is moved to what was pulled, whatever it holds
GitPullForces(branch) ==
  LET to == remote[IF branch = NoBranch THEN Base ELSE branch]
  IN /\ ready
     /\ track' = remote[Base]
     /\ to # NoCommit
     /\ local' = [local EXCEPT ![head] = to]
     /\ staged' = {}
     /\ UNCHANGED <<made, parent, own, remote, ready, asked, head, forced, switched, unstaged, new>>

\* git_pull fetches the base branch (the clone follows no other), also when
\* it then refuses to move a branch that has diverged.  The library moves the
\* branch before it looks at the worktree, so that a refusal for unstaged
\* changes leaves an index that differs from the new commit in any way.
\* Without a branch name it pulls the branch the server calls HEAD.
GitPull(branch) ==
  LET from == IF branch = NoBranch THEN Base ELSE branch
      to == remote[from]
      known == to \in Known \cup History(remote[Base])
  IN /\ ready
     /\ track' = remote[Base]
     /\ \/ /\ to # NoCommit /\ known /\ FastForward(HeadCommit, to)
           /\ local' = [local EXCEPT ![head] = to]
           /\ IF unstaged \subseteq new THEN staged' = {}
              ELSE to # HeadCommit /\ staged' \in SUBSET File
        \/ UNCHANGED <<local, staged>>
     /\ UNCHANGED <<made, parent, own, remote, ready, asked, head, forced, switched, unstaged, new>>

\* git_branch creates a branch at HEAD or switches to one.  The library moves
\* HEAD before it looks at the worktree, so that a refusal for unstaged
\* changes leaves HEAD on the other branch; without them the index is reset.
GitBranch(b, create) ==
  /\ ready
  /\ IF create THEN local[b] = NoCommit /\ local' = [local EXCEPT ![b] = HeadCommit]
               ELSE local[b] # NoCommit /\ local' = local
  /\ head' = b
  /\ staged' \in {staged, {}}
  /\ switched' = (switched \/ ~create)
  /\ UNCHANGED <<made, parent, own, remote, ready, asked, track, forced, unstaged, new>>

GitTool ==
  \/ \E f \in File : EditFile(f)
  \/ \E fs \in SUBSET File : GitAdd(fs)
  \/ GitCommit
  \/ \E branch \in Branch \cup {NoBranch}, force \in BOOLEAN : GitPush(branch, force)
  \/ \E branch \in Branch \cup {NoBranch} : GitPull(branch)
  \/ \E b \in Branch, create \in BOOLEAN : GitBranch(b, create)

-----------------------------------------------------------------------------
(* Properties.                                                             *)

\* A branch of the server loses commits.
Rewound(b) ==
  remote[b] # NoCommit /\ remote[b] \notin HistoryBy(parent', remote'[b])

\* Until a push is forced, what others have pushed stays on the server,
\* however stale the clone is that the tools work on (git_push, git_pull,
\* git_branch; gitops.go:620-725).
OthersWorkStays ==
  ~forced => (1 .. made) \ own \subseteq UNION {History(remote[b]) : b \in Branch}

\* What the tool's schema says of a push that names no branch ("Branch to push
\* (default: current branch)", gitops.go:616): the others stay as they are.
DefaultPushIsCurrent ==
  [][GitPush(NoBranch, TRUE) => \A b \in Branch \ {head} : ~Rewound(b)]_gitVars

\* Whatever sequence of tools is called, next to pushes of others, no commit the
\* run has made falls off the branches of its clone: a pull moves a branch
\* forward only and git_branch never moves one (gitops.go:661-725).
OwnWorkStays == own \subseteq UNION {History(local[b]) : b \in Branch}
-----------------------------------------------------------------------------
(* The inductive invariant.                                                *)

\* Commits are made on earlier ones, and every reference is to a commit made;
\* a workspace that is ready has a base and a commit checked out.
RefsExist ==
  /\ \A c \in Commit \ {0} : parent[c] < c
  /\ own \subseteq 1 .. made /\ (own # {} => ready)
  /\ \A b \in Branch : {remote[b], local[b], track} \subseteq 0 .. made \cup {NoCommit}
  /\ remote[Base] # NoCommit
  /\ ready => local[head] # NoCommit /\ track # NoCommit

\* Until git_branch leaves for another branch, what the run has committed is in
\* the history that is checked out.
OwnWorkAtHead == switched \/ own \subseteq History(HeadCommit)
=============================================================================

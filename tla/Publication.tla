----------------------------- MODULE Publication -----------------------------
(***************************************************************************)
(* A coding round, from the fresh worktree to the pull request:            *)
(* app/infra/git_workspace.py, the steps of handle_approve_plan and        *)
(* _finalize_review_candidate that use it, and the GitHub calls of         *)
(* app/agents/ralph/github_bridge.py over the session of McpSession.       *)
(*                                                                         *)
(* The rounds of an issue share one branch and one worktree, also those of *)
(* the tasks that follow one another on the issue.  They do not overlap: a *)
(* round holds SQLite's write lock from its first statement to its end     *)
(* (module RalphTask).  Its control task and its claim are in RalphTask    *)
(* and WorkerClaims; here a task is the part of its row that concerns its  *)
(* change.  A file's content is the number of the round that wrote it; 0   *)
(* stands for the content of the base branch.                              *)
(*                                                                         *)
(* The workspace has a client of its own, used by one thread at a time: of *)
(* its session only the promise of ToolCalls is kept, and that an error    *)
(* that is not a broken stream leaves a dead runtime behind.               *)
(***************************************************************************)
EXTENDS McpSession

CONSTANTS
  Coder,      \* the caller that codes; the others only read from GitHub
  Paths,      \* files a change may touch
  Ignored,    \* those that .gitignore names
  Modes,      \* the settings and tools to consider
  MaxRounds   \* bound: rounds on the issue's branch

ASSUME CoderAssumption == Coder \in Callers
ASSUME IgnoredAssumption == Ignored \subseteq Paths
ASSUME ModeAssumption == Modes \subseteq {"dry", "local", "git", "mcp"}
ASSUME RoundAssumption == MaxRounds \in Nat

VARIABLES
  mode,       \* "dry", "local", "git" or "mcp": how a change is published
  row,        \* the committed row of the current task
  step,       \* where the round is, "idle" between rounds
  round,      \* rounds started
  evidence,   \* the change as the round recorded it, before its commit
  worktree,   \* [exists, files]: the worktree of the branch
  pending,    \* _pending_files of the branch
  local,      \* the commit of the local branch
  remote,     \* [exists, files]: the branch on GitHub
  prOpen,     \* GitHub has an open pull request of the branch
  attempt,    \* create_pull_request's attempts
  poisoned,   \* the workspace's session thread ended with an error
  validated,  \* rounds whose validation passed
  refused     \* the round's push was answered with a tool error

change == <<evidence, worktree, pending, local, validated>>
github == <<remote, prOpen>>
vars == <<sessionVars, mode, row, step, round, change, github, attempt, poisoned, refused>>

----------------------------------------------------------------------------
Rounds == 0..MaxRounds

Contents == [Paths -> Rounds]

Trees == [exists : BOOLEAN, files : Contents]

Nothing == [p \in Paths |-> 0]

NoTree == [exists |-> FALSE, files |-> Nothing]

Fresh == [exists |-> TRUE, files |-> Nothing]

Ends == {"failed", "needs_attention", "approved", "cancelled"}

NewRow == [status |-> "ready", evidence |-> Nothing, pr |-> FALSE]

Written(files, names) == [p \in Paths |-> IF p \in names THEN round ELSE files[p]]

Only(files, names) == [p \in Paths |-> IF p \in names THEN files[p] ELSE 0]

(* _collect_changed_files: what git status shows, and the files the round  *)
(* announced even if git ignores them.                                     *)
Collected ==
  Only(worktree.files, (Paths \ Ignored) \cup pending)

Onto(files, pushed) == [p \in Paths |-> IF pushed[p] # 0 THEN pushed[p] ELSE files[p]]

Init ==
  /\ SessionInit
  /\ mode \in Modes
  /\ row = NewRow
  /\ step = "idle"
  /\ round = 0
  /\ evidence = Nothing
  /\ worktree = NoTree
  /\ pending = {}
  /\ local = Nothing
  /\ remote = NoTree
  /\ prOpen = FALSE
  /\ attempt = 0
  /\ poisoned = FALSE
  /\ validated = {}
  /\ refused = FALSE

At(from, to) == step = from /\ step' = to

(* The exception leaves apply_action: the transaction is rolled back.      *)
Fails == step' = "record"

----------------------------------------------------------------------------
(* approve_plan of a task that waits for it.                               *)
StartRound ==
  /\ row.status = "ready"
  /\ round < MaxRounds
  /\ At("idle", "branch")
  /\ round' = round + 1
  /\ evidence' = Nothing
  /\ attempt' = 0
  /\ refused' = FALSE
  /\ UNCHANGED <<sessionVars, mode, row, worktree, pending, local, validated, github, poisoned>>

(* One call on the workspace's session: next, if it gets through; else the *)
(* exception, after the tool ran or before it.  A dead runtime raises its  *)
(* error again.                                                            *)
WorkspaceCall(next, Ran, NotRan) ==
  \/ ~poisoned /\ Ran /\ step' = next /\ UNCHANGED <<faults, poisoned>>
  \/ ~poisoned /\ (Ran \/ NotRan) /\ Fault /\ Fails /\ poisoned' \in BOOLEAN
  \/ poisoned /\ NotRan /\ Fails /\ UNCHANGED <<faults, poisoned>>

(* _ensure_remote_branch.  A branch that exists is a tool error, which is  *)
(* not looked at.                                                          *)
EnsureBranch ==
  /\ step = "branch"
  /\ IF mode = "mcp"
     THEN WorkspaceCall("worktree", remote' = [remote EXCEPT !.exists = TRUE], UNCHANGED remote)
     ELSE step' = "worktree" /\ UNCHANGED <<remote, faults, poisoned>>
  /\ UNCHANGED <<holder, session, cause, call, mode, row, round, change, prOpen, attempt, refused>>

(* Mutant: an existing worktree is used as it is.                          *)
PrepareWorktreeReuses ==
  /\ At("worktree", "write")
  /\ worktree' = IF mode = "dry" \/ worktree.exists THEN worktree ELSE Fresh
  /\ local' = IF mode = "dry" THEN local ELSE Nothing
  /\ UNCHANGED <<sessionVars, mode, row, round, evidence, pending, validated, github,
                 attempt, poisoned, refused>>

(* prepare_worktree: the old worktree is removed by force, and the branch  *)
(* starts again from the base branch.                                      *)
PrepareWorktree ==
  /\ At("worktree", "write")
  /\ worktree' = IF mode = "dry" THEN worktree ELSE Fresh
  /\ local' = IF mode = "dry" THEN local ELSE Nothing
  /\ UNCHANGED <<sessionVars, mode, row, round, evidence, pending, validated, github,
                 attempt, poisoned, refused>>

(* write_task_artifact: the names are announced first; a path that leaves  *)
(* the worktree stops the round with some of the files written.            *)
WriteArtifact ==
  /\ step = "write"
  /\ \E names \in SUBSET Paths \ {{}} :
       /\ pending' = names
       /\ \/ /\ step' = "capture"
             /\ worktree' = IF mode = "dry" THEN worktree
                            ELSE [worktree EXCEPT !.files = Written(@, names)]
             /\ UNCHANGED faults
          \/ \E some \in SUBSET names \ {names} :
               /\ mode # "dry" /\ Fault /\ Fails
               /\ worktree' = [worktree EXCEPT !.files = Written(@, some)]
  /\ UNCHANGED <<holder, session, cause, call, mode, row, round, evidence, local, validated,
                 github, attempt, poisoned, refused>>

(* capture_worktree_evidence and ensure_execution_evidence_ready.          *)
CaptureEvidence ==
  /\ step = "capture"
  /\ evidence' = IF worktree.exists THEN Collected ELSE Nothing
  /\ IF evidence' # Nothing THEN step' = "validate" ELSE Fails
  /\ UNCHANGED <<sessionVars, mode, row, round, worktree, pending, local, validated, github,
                 attempt, poisoned, refused>>

(* The validation command passes.  It may leave files behind; one that git *)
(* ignores and the round did not announce is never looked at.              *)
ValidationPasses ==
  /\ At("validate", "commit")
  /\ validated' = validated \cup {round}
  /\ \E left \in SUBSET (Paths \ Ignored) :
       worktree' = [worktree EXCEPT !.files = Written(@, left)]
  /\ UNCHANGED <<sessionVars, mode, row, round, evidence, pending, local, github,
                 attempt, poisoned, refused>>

(* cleanup_worktree; its failure is only an event.                         *)
Cleaned ==
  \/ worktree' = (IF mode = "dry" THEN worktree ELSE NoTree) /\ UNCHANGED faults
  \/ mode # "dry" /\ worktree.exists /\ Fault /\ UNCHANGED worktree

(* handle_validation_failure.                                              *)
ValidationFails ==
  /\ At("validate", "idle")
  /\ row' = [row EXCEPT !.status = "failed"]
  /\ Cleaned
  /\ UNCHANGED <<holder, session, cause, call, mode, round, evidence, pending, local, validated,
                 github, attempt, poisoned, refused>>

(* commit_changes: for a push over MCP only the message is kept.           *)
CommitChanges ==
  /\ At("commit", "push")
  /\ local' = IF mode = "mcp" THEN local ELSE Only(worktree.files, Paths \ Ignored)
  /\ UNCHANGED <<sessionVars, mode, row, round, evidence, worktree, pending, validated, github,
                 attempt, poisoned, refused>>

(* Mutant: only what git status shows is pushed.                           *)
PushOverMcpTracked ==
  /\ step = "push"
  /\ mode = "mcp"
  /\ LET pushed == Only(worktree.files, Paths \ Ignored)
     IN IF pushed = Nothing
        THEN step' = "pr" /\ UNCHANGED <<remote, faults, poisoned, refused>>
        ELSE \/ WorkspaceCall("pr", remote' = [remote EXCEPT !.files = Onto(@, pushed)],
                              UNCHANGED remote)
                /\ UNCHANGED refused
             \/ ~poisoned /\ Fault /\ step' = "pr" /\ refused' = TRUE
                /\ UNCHANGED <<remote, poisoned>>
  /\ UNCHANGED <<holder, session, cause, call, mode, row, round, change, prOpen, attempt>>

(* _push_branch_via_mcp: the files are collected again, after validation.  *)
(* A tool error is taken for a push.                                       *)
PushOverMcp ==
  /\ step = "push"
  /\ mode = "mcp"
  /\ LET pushed == Collected
     IN IF pushed = Nothing
        THEN step' = "pr" /\ UNCHANGED <<remote, faults, poisoned, refused>>
        ELSE \/ WorkspaceCall("pr", remote' = [remote EXCEPT !.files = Onto(@, pushed)],
                              UNCHANGED remote)
                /\ UNCHANGED refused
             \/ ~poisoned /\ Fault /\ step' = "pr" /\ refused' = TRUE
                /\ UNCHANGED <<remote, poisoned>>
  /\ UNCHANGED <<holder, session, cause, call, mode, row, round, change, prOpen, attempt>>

(* git push: the branch started again from the base, so a branch that an   *)
(* earlier round pushed is no ancestor and git refuses.                    *)
PushWithGit ==
  /\ step = "push"
  /\ mode = "git"
  /\ IF remote.exists
     THEN Fails /\ UNCHANGED <<remote, faults>>
     ELSE /\ remote' = [exists |-> TRUE, files |-> local]
          /\ \/ step' = "pr" /\ UNCHANGED faults
             \/ Fails /\ Fault
  /\ UNCHANGED <<holder, session, cause, call, mode, row, round, change, prOpen, attempt,
                 poisoned, refused>>

PushSkipped ==
  /\ mode = "local"
  /\ At("push", "pr")
  /\ UNCHANGED <<sessionVars, mode, row, round, change, github, attempt, poisoned, refused>>

----------------------------------------------------------------------------
(* _resolve_existing_pull_request, else create_pull_request.               *)
OpenPullRequest ==
  /\ step = "pr"
  /\ call[Coder].phase = "idle"
  /\ IF row.pr
     THEN step' = "label" /\ UNCHANGED <<sessionVars, attempt>>
     ELSE step' = "created" /\ attempt' = attempt + 1 /\ Ask(Coder)
  /\ UNCHANGED <<mode, row, round, change, github, poisoned, refused>>

(* GitHub opens one pull request per branch, and none for a branch that    *)
(* adds nothing to its base.                                               *)
PullRequestPossible == remote.exists /\ remote.files # Nothing /\ ~prOpen

(* The server runs the coder's call: create_pull_request or the labels.    *)
(* Of the labels' result it only matters whether it can be read, which     *)
(* Publish and LabelFails decide.                                          *)
ServeCoder ==
  /\ IF step = "created"
     THEN /\ prOpen' = (prOpen \/ PullRequestPossible)
          /\ Serve(Coder, IF PullRequestPossible THEN "ok" ELSE "refused")
     ELSE Serve(Coder, "ok") /\ UNCHANGED prOpen
  /\ UNCHANGED <<mode, row, step, round, change, remote, attempt, poisoned, refused>>

(* Another thread of the process reads from GitHub with the same client.   *)
AskOther(c) ==
  /\ c # Coder
  /\ Ask(c)
  /\ UNCHANGED <<mode, row, step, round, change, github, attempt, poisoned, refused>>

ServeOther(c) ==
  /\ c # Coder
  /\ Serve(c, "ok")
  /\ UNCHANGED <<mode, row, step, round, change, github, attempt, poisoned, refused>>

(* What the caller and the session's thread do for any call.               *)
SessionStep ==
  /\ \/ \E c \in Callers : Acquire(c) \/ CallerStep(c)
     \/ ThreadStep
  /\ UNCHANGED <<mode, row, step, round, change, github, attempt, poisoned, refused>>

CallOver(at) == step = at /\ call[Coder].phase = "idle"

(* Mutant: the result of create_pull_request is not looked at.             *)
PullRequestAnsweredUnchecked ==
  /\ CallOver("created")
  /\ \/ call[Coder].reply \in {"ok", "refused"} /\ step' = "label"
     \/ IF attempt < 3 THEN step' = "pr" ELSE Fails
  /\ UNCHANGED <<sessionVars, mode, row, round, change, github, attempt, poisoned, refused>>

(* Mutant: one attempt too many.                                           *)
PullRequestAnsweredOffByOne ==
  /\ CallOver("created")
  /\ \/ call[Coder].reply = "ok" /\ step' = "label"
     \/ IF attempt <= 3 THEN step' = "pr" ELSE Fails
  /\ UNCHANGED <<sessionVars, mode, row, round, change, github, attempt, poisoned, refused>>

(* A tool error or an exception is tried again, three attempts in all; so  *)
(* is a result in which coerce_mapping finds no mapping, although GitHub   *)
(* has opened the pull request.                                            *)
PullRequestAnswered ==
  /\ CallOver("created")
  /\ \/ call[Coder].reply = "ok" /\ step' = "label"
     \/ IF attempt < 3 THEN step' = "pr" ELSE Fails
  /\ UNCHANGED <<sessionVars, mode, row, round, change, github, attempt, poisoned, refused>>

(* apply_labels and the comment on the issue.                              *)
Label ==
  /\ CallOver("label")
  /\ step' = "labelled"
  /\ Ask(Coder)
  /\ UNCHANGED <<mode, row, round, change, github, attempt, poisoned, refused>>

(* publish_pull_request and the commit.  is_error is not looked at here: a *)
(* tool error with a mapping or a URL in it passes for a result.           *)
Publish ==
  /\ CallOver("labelled")
  /\ call[Coder].reply \in {"ok", "refused"}
  /\ row' = [status |-> "in_review", evidence |-> evidence, pr |-> TRUE]
  /\ step' = "idle"
  /\ UNCHANGED <<sessionVars, mode, round, change, github, attempt, poisoned, refused>>

(* The session broke, or coerce_mapping finds no mapping in the result, be *)
(* it an error's text or not: the round fails with its pull request open.  *)
LabelFails ==
  /\ CallOver("labelled")
  /\ Fails
  /\ UNCHANGED <<sessionVars, mode, row, round, change, github, attempt, poisoned, refused>>

(* A git command, the model call or a notification raises.                 *)
ExecutionFails ==
  /\ step \in {"worktree", "write", "capture", "validate", "commit", "push"}
  /\ Fault
  /\ Fails
  /\ worktree' \in IF step = "worktree" THEN {worktree, NoTree} ELSE {worktree}
  /\ UNCHANGED <<holder, session, cause, call, mode, row, round, evidence, pending, local,
                 validated, github, attempt, poisoned, refused>>

(* _record_execution_failure.                                              *)
RecordFailure ==
  /\ At("record", "idle")
  /\ row' = [row EXCEPT !.status = "needs_attention"]
  /\ UNCHANGED <<sessionVars, mode, round, change, github, attempt, poisoned, refused>>

----------------------------------------------------------------------------
(* The review sends the change back, or lets it pass.                      *)
Review(status) ==
  /\ step = "idle"
  /\ row.status = "in_review"
  /\ row' = [row EXCEPT !.status = status]
  /\ UNCHANGED <<sessionVars, mode, step, round, change, github, attempt, poisoned, refused>>

(* reject_plan, cancel_task.                                               *)
Cancel ==
  /\ step = "idle"
  /\ row.status \in {"ready", "in_review"}
  /\ row' = [row EXCEPT !.status = "cancelled"]
  /\ Cleaned
  /\ UNCHANGED <<holder, session, cause, call, mode, step, round, evidence, pending, local,
                 validated, github, attempt, poisoned, refused>>

(* The issue gets another task: start_task, with the same branch.          *)
NextTask ==
  /\ step = "idle"
  /\ row.status \in Ends
  /\ round < MaxRounds
  /\ row' = NewRow
  /\ UNCHANGED <<sessionVars, mode, step, round, change, github, attempt, poisoned, refused>>

(* The process dies.  The transaction and what the process remembered are  *)
(* lost; the worktree and what GitHub was told stay.                       *)
Crash ==
  /\ Fault
  /\ SessionsLost
  /\ step' = "idle"
  /\ pending' = {}
  /\ evidence' = Nothing
  /\ poisoned' = FALSE
  /\ UNCHANGED <<mode, row, round, worktree, local, validated, github, attempt, refused>>

----------------------------------------------------------------------------
RoundStep ==
  \/ EnsureBranch \/ PrepareWorktree \/ WriteArtifact \/ CaptureEvidence
  \/ ValidationPasses \/ ValidationFails \/ CommitChanges
  \/ PushOverMcp \/ PushWithGit \/ PushSkipped
  \/ OpenPullRequest \/ PullRequestAnswered \/ Label \/ Publish \/ LabelFails
  \/ RecordFailure

Next ==
  \/ StartRound \/ RoundStep \/ ServeCoder \/ SessionStep \/ ExecutionFails
  \/ \E c \in Callers : AskOther(c) \/ ServeOther(c)
  \/ Review("ready") \/ Review("approved") \/ Cancel \/ NextTask
  \/ Crash

Spec == Init /\ [][Next]_vars

(* A round goes on, the server answers or the session breaks, and the      *)
(* adapter's lock does not pass a waiting thread over for ever.            *)
Fairness ==
  /\ WF_vars(RoundStep) /\ WF_vars(ServeCoder)
  /\ WF_vars(SessionStep)
  /\ \A c \in Callers :
       /\ WF_vars(ServeOther(c))
       /\ SF_vars(Acquire(c) /\ SessionStep)

FairSpec == Spec /\ Fairness

----------------------------------------------------------------------------
(* The type invariant.                                                     *)
TypeOK ==
  /\ SessionTypeOK
  /\ mode \in {"dry", "local", "git", "mcp"}
  /\ row \in [status : {"ready", "in_review"} \cup Ends, evidence : Contents, pr : BOOLEAN]
  /\ step \in {"idle", "branch", "worktree", "write", "capture", "validate", "commit", "push",
              "pr", "created", "label", "labelled", "record"}
  /\ round \in Rounds
  /\ evidence \in Contents
  /\ worktree \in Trees
  /\ pending \in SUBSET Paths
  /\ local \in Contents
  /\ remote \in Trees
  /\ prOpen \in BOOLEAN
  /\ attempt \in 0..3
  /\ poisoned \in BOOLEAN
  /\ validated \in SUBSET Rounds
  /\ refused \in BOOLEAN

(* What is under review is what was coded: the files of the recorded       *)
(* evidence are in the worktree the reviewer opens and on the branch of    *)
(* the pull request, unless GitHub refused the push, which goes unnoticed, *)
(* or git ignores the file and the push was git's                          *)
(* (workflow.py:226-509, git_workspace.py:98-209, 253-327).                *)
ReviewedIsPublished ==
  row.status = "in_review" =>
    \A p \in Paths : row.evidence[p] # 0 =>
      /\ worktree.files[p] = row.evidence[p]
      /\ \/ remote.files[p] = row.evidence[p]
         \/ refused
         \/ mode = "git" /\ p \in Ignored

(* Nothing reaches GitHub that did not pass validation, whatever earlier   *)
(* rounds left in the worktree or in memory (git_workspace.py:25-51,       *)
(* workflow.py:333-367).                                                   *)
UnvalidatedStaysLocal ==
  \A p \in Paths : remote.files[p] \in validated \cup {0}

(* A recorded pull request is one that GitHub has opened, although its     *)
(* creation is asked up to six times over sessions that break              *)
(* (github_bridge.py:125-169, mcp.py:132-141).                             *)
RecordedPRIsOpen == row.pr => prOpen

(* The inductive invariant, in parts.  Before the push a round has not     *)
(* asked for a pull request, and it asks three times at most.              *)
Working == {"write", "capture", "validate", "commit", "push"}

Publishing == {"pr", "created", "label", "labelled"}

AttemptsLeft ==
  /\ step \in {"branch", "worktree"} \cup Working => attempt = 0
  /\ step = "pr" => attempt < 3

(* A pull request that the round counts on is open, and its branch exists. *)
OpenSound ==
  /\ RecordedPRIsOpen
  /\ step \in {"label", "labelled"} => prOpen
  /\ step = "created" /\ call[Coder].reply = "ok" => prOpen
  /\ prOpen => remote.exists
  /\ mode \in {"dry", "local"} => ~remote.exists

(* A worktree holds what its round wrote, and only validated rounds leave  *)
(* the machine.                                                            *)
ContentSound ==
  /\ UnvalidatedStaysLocal
  /\ mode = "dry" => worktree = NoTree
  /\ step \in Working \cup Publishing => \A p \in Paths : worktree.files[p] \in {0, round}
  /\ step \in {"commit", "push"} \cup Publishing => round \in validated
  /\ step = "push" /\ mode = "git" => local = Only(worktree.files, Paths \ Ignored)

(* The recorded evidence is in the worktree, and after the push on GitHub. *)
EvidenceSound ==
  /\ ReviewedIsPublished
  /\ step # "idle" => row.status = "ready"
  /\ step \in {"validate", "commit", "push"} \cup Publishing =>
       /\ evidence # Nothing
       /\ \A p \in Paths : evidence[p] # 0 =>
            evidence[p] = round /\ worktree.files[p] = round /\ (p \in Ignored => p \in pending)
  /\ step \in Publishing =>
       \A p \in Paths : evidence[p] # 0 =>
         \/ remote.files[p] = round
         \/ refused
         \/ mode = "git" /\ p \in Ignored
         \/ mode = "local"

RoundInvariant ==
  /\ TypeOK /\ SessionInvariant
  /\ AttemptsLeft /\ OpenSound /\ ContentSound /\ EvidenceSound

(* A round of coding comes to an end, and its transaction with it, unless  *)
(* its call to GitHub waits in the queue of a session that has ended, or   *)
(* behind such a call (mcp.py:184-256).                                    *)
RoundsEnd == step # "idle" ~> (step = "idle" \/ Unanswerable)
=============================================================================

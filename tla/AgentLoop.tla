----------------------------- MODULE AgentLoop -----------------------------
(***************************************************************************)
(* The agent of src/src/lib/agent-extension.ts on one task: a tab is       *)
(* opened (runWithExtensionTab), a model is asked what to do next and its  *)
(* tool calls are carried out (runAgentLoop), until it is done, gives up   *)
(* twice, or runs out of iterations or of time.  TaskRunner has the agent  *)
(* as a process that may report, ask and end at any time; this module is   *)
(* what it does in between, and RunnerSteps the link between the two.      *)
(*                                                                         *)
(* The model and the browser may answer anything, or fail.  A tool is      *)
(* known by what it does to the loop: "browse" reports and acts, "quiet"   *)
(* acts without a report, "garbled" has arguments that do not parse, and   *)
(* the others are get_mid_action_plan, task_complete, task_failed,         *)
(* ask_permission and draft_content.  detectLoop is left out: it is asked  *)
(* before the call has a result, and so never finds one repeated.          *)
(***************************************************************************)
EXTENDS Naturals, SequencesExt

CONSTANTS
  MaxIterations,  \* 25 in the code
  MaxRetries,     \* 3: calls of the model before its 429 is passed on
  KeepRecent,     \* 10: messages compactMessages keeps
  KeepFewer,      \* 3: messages it keeps if that is still too much
  PreApproved,    \* the task was approved before it began
  DbMayFail,      \* what is written and asked about permissions may fail
  MaxCalls,       \* bound: tool calls in one answer of the model
  MaxAsks         \* bound: permission requests of the task

ASSUME AgentAssumption ==
  /\ {MaxIterations, MaxRetries, KeepRecent, KeepFewer, MaxCalls, MaxAsks} \subseteq Nat \ {0}
  /\ KeepFewer < KeepRecent
  /\ PreApproved \in BOOLEAN /\ DbMayFail \in BOOLEAN

Tool == {"browse", "quiet", "garbled", "plan", "complete", "failed", "ask", "draft"}

VARIABLES
  pc,           \* where the agent is
  next,         \* where it goes on when the report it writes is written
  tool,         \* the tool call at hand
  todo,         \* how many calls of the model's answer are left
  attempt, iterations, retries, shouldRetry,
  midActionPlanCallCount,
  messages,     \* the history
  sent,         \* what of it the model is asked with
  toolResults,  \* answers to the calls so far
  status,       \* the task's row
  permissions,  \* its permission requests, oldest first
  granted,      \* history: the requests ask_permission took for answered yes
  misled,       \* history: a request was not stored, or a query failed and taken for a yes
  aborted       \* the task was stopped

loopVars == <<attempt, iterations, retries, shouldRetry, midActionPlanCallCount>>
msgVars == <<messages, sent, toolResults>>
historyVars == <<granted, misled>>
dbVars == <<status, permissions, historyVars>>
vars == <<pc, next, tool, todo, loopVars, msgVars, dbVars, aborted>>

(* A message of the model makes so many calls; an answer names the message *)
(* that made the call, by its place in the history, and the call.          *)
Message == [role : {"system", "user"}]
           \cup [role : {"assistant"}, calls : 0..MaxCalls]
           \cup [role : {"tool"}, at : Nat, call : 1..MaxCalls]

Places == {"begin", "announce", "opening", "opened", "planning", "top", "model", "tools",
           "acting", "asking", "reviewing", "ending", "retrying", "closing", "closed"}

TypeOK ==
  /\ pc \in Places \cup {"reporting"} /\ next \in Places
  /\ tool \in Tool /\ todo \in 0..MaxCalls
  /\ attempt \in 0..1 /\ iterations \in 0..MaxIterations /\ retries \in 0..MaxRetries
  /\ shouldRetry \in BOOLEAN /\ midActionPlanCallCount \in 0..2
  /\ messages \in Seq(Message) /\ sent \in Seq(Message) /\ toolResults \in Seq(Message)
  /\ status \in {"running", "waiting"}
  /\ permissions \in Seq({"pending", "approved", "denied"})
  /\ granted \subseteq Nat /\ misled \in BOOLEAN
  /\ aborted \in BOOLEAN

Prompt == <<[role |-> "system"], [role |-> "user"]>>

Init ==
  /\ pc = "begin" /\ next = "begin" /\ tool = "quiet" /\ todo = 0
  /\ attempt = 0 /\ iterations = 0 /\ retries = 0 /\ shouldRetry = FALSE
  /\ midActionPlanCallCount = 0
  /\ messages = Prompt /\ sent = <<>> /\ toolResults = <<>>
  /\ status = "running" /\ permissions = <<>> /\ aborted = FALSE
  /\ granted = {} /\ misled = FALSE

Goto(place) == pc' = place /\ UNCHANGED next

(* Mutant of Report: it is not asked whether the task was stopped.         *)
ReportAnyway(place) == pc' = "reporting" /\ next' = place

(* onProgress: nothing if the task was stopped, else the row is read ...   *)
Report(place) == IF aborted THEN Goto(place) ELSE pc' = "reporting" /\ next' = place

(* ... and written, as running.                                            *)
Reported ==
  /\ pc = "reporting"
  /\ Goto(next) /\ status' = "running"
  /\ UNCHANGED <<tool, todo, loopVars, msgVars, permissions, historyVars, aborted>>
---------------------------------------------------------------------------
(* runWithExtensionTab                                                     *)

Quietly == UNCHANGED <<tool, todo, loopVars, msgVars, dbVars, aborted>>

Begin == pc = "begin" /\ Report("announce") /\ Quietly
Announce == pc = "announce" /\ Report("opening") /\ Quietly

(* createAndAttachTab, which may fail; the agent returns the error.        *)
TabOpened == pc = "opening" /\ Goto("opened") /\ Quietly
TabFailed == pc = "opening" /\ Goto("closing") /\ Quietly
TabReady == pc = "opened" /\ Report("planning") /\ Quietly

(* finally: the tab is closed or let go, and the execution recorded.       *)
Closed == pc = "closing" /\ Goto("closed") /\ Quietly
---------------------------------------------------------------------------
(* compactMessages                                                         *)

Latest(s, n) == SubSeq(s, Len(s) - n + 1, Len(s))

(* Mutant of Compacted: one message less.                                  *)
CompactedShort(history, size) ==
  LET rest == Tail(history)
      kept == IF size = "large" THEN KeepRecent ELSE KeepFewer - 1 IN
  IF size = "small" \/ Len(rest) <= KeepRecent THEN history
  ELSE <<Head(history), [role |-> "user"]>> \o Latest(rest, kept)

(* What is sent of a history that is within the budget, over it, and still *)
(* over it once compacted.  The summary, a message as if of the user,      *)
(* takes the place of what is cut.                                         *)
Compacted(history, size) ==
  LET rest == Tail(history)
      kept == IF size = "large" THEN KeepRecent ELSE KeepFewer IN
  IF size = "small" \/ Len(rest) <= KeepRecent THEN history
  ELSE <<Head(history), [role |-> "user"]>> \o Latest(rest, kept)
---------------------------------------------------------------------------
(* The loop: one iteration asks the model and carries out its calls.       *)

Ask ==
  \E size \in {"small", "large", "huge"} : sent' = Compacted(messages, size)

Iterate ==
  /\ pc = "top" /\ ~aborted /\ iterations < MaxIterations
  /\ iterations' = iterations + 1
  /\ retries' = 0
  /\ Ask /\ Goto("model")
  /\ UNCHANGED <<tool, todo, attempt, shouldRetry, midActionPlanCallCount, messages,
                 toolResults, dbVars, aborted>>

StoppedAtTop == pc = "top" /\ aborted /\ Goto("closing") /\ Quietly

(* The iterations are used up, or the deadline of 300 s has passed.        *)
LoopLeft == pc = "top" /\ Goto("ending") /\ Quietly

(* Mutant of CountRetry: an answer of 429 is not counted.                  *)
RetryUncounted == UNCHANGED retries

CountRetry == retries' = retries + 1

(* A 429 is tried again after three seconds, any other error thrown.       *)
ModelBusy ==
  /\ pc = "model" /\ retries < MaxRetries - 1
  /\ CountRetry /\ Ask
  /\ UNCHANGED <<pc, next, tool, todo, attempt, iterations, shouldRetry,
                 midActionPlanCallCount, messages, toolResults, dbVars, aborted>>

ModelThrows == pc = "model" /\ Goto("closing") /\ Quietly

ModelAnswers(n) ==
  /\ pc = "model"
  /\ messages' = Append(messages, [role |-> "assistant", calls |-> n])
  /\ sent' = <<>> /\ toolResults' = <<>> /\ todo' = n
  /\ Goto(IF n = 0 THEN "top" ELSE "tools")
  /\ UNCHANGED <<tool, loopVars, dbVars, aborted>>

(* Neither a call nor a text.                                              *)
ModelEmpty ==
  /\ pc = "model"
  /\ messages' = Append(messages, [role |-> "assistant", calls |-> 0])
  /\ Goto("closing")
  /\ UNCHANGED <<tool, todo, loopVars, sent, toolResults, dbVars, aborted>>

(* The calls are carried out, if not necessarily well: their answers join  *)
(* the history.                                                            *)
ToolsDone ==
  /\ pc = "tools" /\ todo = 0
  /\ messages' = messages \o toolResults
  /\ toolResults' = <<>>
  /\ Goto(IF shouldRetry THEN "ending" ELSE "top")
  /\ UNCHANGED <<tool, todo, loopVars, sent, dbVars, aborted>>

(* After the loop: the log is written.  Another attempt is made if the     *)
(* model called task_failed in the first.                                  *)
LogWritten ==
  /\ pc = "ending"
  /\ IF shouldRetry /\ attempt = 0 THEN Report("retrying") ELSE Goto("closing")
  /\ Quietly

AttemptBegins ==
  /\ \/ pc = "planning" /\ UNCHANGED attempt
     \/ pc = "retrying" /\ attempt' = attempt + 1
  /\ Goto("top")
  /\ messages' = Prompt /\ iterations' = 0 /\ shouldRetry' = FALSE
  /\ UNCHANGED <<tool, todo, retries, midActionPlanCallCount, sent, toolResults, dbVars,
                 aborted>>
---------------------------------------------------------------------------
(* Tool calls                                                              *)

CallDue == pc = "tools" /\ todo > 0

(* JSON.parse is outside the try: the agent ends with its error.           *)
ArgumentsGarbled ==
  /\ CallDue
  /\ Goto("closing") /\ tool' = "garbled"
  /\ UNCHANGED <<todo, loopVars, msgVars, dbVars, aborted>>

StoppedAtTool == CallDue /\ aborted /\ Goto("closing") /\ Quietly

CallOf(t) == CallDue /\ ~aborted /\ tool' = t

Act(t) ==
  /\ CallOf(t) /\ t \in {"browse", "quiet", "complete", "failed", "draft"}
  /\ IF t = "quiet" THEN Goto("acting") ELSE Report("acting")
  /\ UNCHANGED <<todo, loopVars, msgVars, dbVars, aborted>>

(* The second plan is not made: the agent gives up.                        *)
Plan ==
  /\ CallOf("plan")
  /\ midActionPlanCallCount' = midActionPlanCallCount + 1
  /\ IF midActionPlanCallCount = 0 THEN Report("acting") ELSE Goto("closing")
  /\ UNCHANGED <<todo, attempt, iterations, retries, shouldRetry, msgVars, dbVars, aborted>>

(* ask_permission for something the task did not ask for ends the agent.   *)
AskPermission ==
  /\ CallOf("ask")
  /\ \/ Goto("closing")
     \/ IF PreApproved THEN Goto("acting") ELSE Report("acting")
  /\ UNCHANGED <<todo, loopVars, msgVars, dbVars, aborted>>

(* What has to be asked for: a task approved in advance only for drafts.   *)
NeedsConsent == {"draft"} \cup (IF PreApproved THEN {} ELSE {"ask"})

(* The answer to the call at hand.                                         *)
Answer ==
  /\ toolResults' = Append(toolResults,
       [role |-> "tool", at |-> Len(messages), call |-> Len(toolResults) + 1])
  /\ todo' = todo - 1
  /\ UNCHANGED <<messages, sent>>

ToolDone ==
  /\ pc = "acting"
  /\ tool \in {"browse", "quiet", "plan", "failed", "ask"} \ NeedsConsent
  /\ Answer /\ Goto("tools")
  /\ shouldRetry' = (shouldRetry \/ tool = "failed")
  /\ UNCHANGED <<tool, attempt, iterations, retries, midActionPlanCallCount, dbVars, aborted>>

(* ask_permission without an action throws before anything is asked.       *)
AskThrows ==
  /\ CallOf("ask")
  /\ Answer /\ Report("tools")
  /\ UNCHANGED <<loopVars, dbVars, aborted>>

(* Mutant of ToolFails: an error gives no answer.                          *)
ToolFailsSilently ==
  /\ pc = "acting" /\ tool \in {"browse", "quiet", "complete"}
  /\ todo' = todo - 1 /\ Report("tools")
  /\ UNCHANGED <<tool, loopVars, msgVars, dbVars, aborted>>

(* Whatever a tool throws is reported, and is the answer to the call.      *)
ToolFails ==
  /\ pc = "acting" /\ tool \in {"browse", "quiet", "complete"}
  /\ Answer /\ Report("tools")
  /\ UNCHANGED <<tool, loopVars, dbVars, aborted>>

(* task_complete: the log is written.                                      *)
Completed == pc = "acting" /\ tool = "complete" /\ Goto("closing") /\ Quietly
---------------------------------------------------------------------------
(* Permissions                                                             *)

MustAsk == pc = "acting" /\ tool \in NeedsConsent

(* The user has switched the questions off (auto_approve_all).             *)
AutoApproved ==
  /\ MustAsk
  /\ Answer /\ Goto("tools")
  /\ UNCHANGED <<tool, loopVars, dbVars, aborted>>

(* Whether the request could be stored is not looked at.                   *)
PermissionAsked ==
  /\ MustAsk /\ Len(permissions) < MaxAsks
  /\ \/ permissions' = Append(permissions, "pending") /\ UNCHANGED misled
     \/ DbMayFail /\ UNCHANGED permissions /\ misled' = TRUE
  /\ status' = "waiting"
  /\ Goto(IF tool = "ask" THEN "asking" ELSE "reviewing")
  /\ UNCHANGED <<tool, todo, loopVars, msgVars, granted, aborted>>

LatestRequest == IF permissions = <<>> THEN "none" ELSE Last(permissions)

(* The poll of ask_permission reads the latest request; that of            *)
(* draft_content looks for a pending one.  Both take none for a yes ...    *)
FoundYes ==
  \/ pc = "asking" /\ LatestRequest \in {"approved", "none"}
  \/ pc = "reviewing" /\ "pending" \notin ToSet(permissions)

(* ... and a query that failed, which answers nothing, too.                *)
PermissionGiven ==
  /\ pc \in {"asking", "reviewing"} /\ ~aborted
  /\ \/ FoundYes /\ UNCHANGED misled
     \/ DbMayFail /\ misled' = TRUE
  /\ status' = "running"
  /\ granted' = IF pc = "asking" THEN granted \cup {Len(permissions)} ELSE granted
  /\ Answer /\ Goto("tools")
  /\ UNCHANGED <<tool, loopVars, permissions, aborted>>

PermissionDenied ==
  /\ \/ pc \in {"asking", "reviewing"} /\ aborted
     \/ pc = "asking" /\ LatestRequest = "denied"
  /\ status' = "running" /\ Goto("closing")
  /\ UNCHANGED <<tool, todo, loopVars, msgVars, permissions, historyVars, aborted>>

(* Mutant of PermissionTimedOut: the agent is told, and goes on.           *)
GoesOnUnanswered ==
  /\ pc \in {"asking", "reviewing"}
  /\ status' = "running"
  /\ Answer /\ Goto("tools")
  /\ UNCHANGED <<tool, loopVars, permissions, historyVars, aborted>>

(* Ten minutes without an answer.                                          *)
PermissionTimedOut ==
  /\ pc \in {"asking", "reviewing"}
  /\ status' = IF pc = "reviewing" THEN "running" ELSE status
  /\ Goto("closing")
  /\ UNCHANGED <<tool, todo, loopVars, msgVars, permissions, historyVars, aborted>>

(* /confirm answers every request of the task that is pending.             *)
Confirm(answer) ==
  /\ "pending" \in ToSet(permissions)
  /\ permissions' = [i \in DOMAIN permissions |->
                       IF permissions[i] = "pending" THEN answer ELSE permissions[i]]
  /\ UNCHANGED <<pc, next, tool, todo, loopVars, msgVars, status, historyVars, aborted>>

Stop ==
  /\ ~aborted /\ aborted' = TRUE
  /\ UNCHANGED <<pc, next, tool, todo, loopVars, msgVars, dbVars>>
---------------------------------------------------------------------------
TabStep == Begin \/ Announce \/ TabOpened \/ TabFailed \/ TabReady \/ Closed

LoopStep ==
  \/ Iterate \/ StoppedAtTop \/ LoopLeft \/ LogWritten \/ AttemptBegins
  \/ ModelBusy \/ ModelThrows \/ ModelEmpty \/ ToolsDone
  \/ \E n \in 0..MaxCalls : ModelAnswers(n)

ToolStep ==
  \/ ArgumentsGarbled \/ StoppedAtTool \/ Plan \/ AskPermission
  \/ ToolDone \/ ToolFails \/ AskThrows \/ Completed
  \/ \E t \in Tool : Act(t)

PermissionStep ==
  \/ AutoApproved \/ PermissionAsked
  \/ PermissionGiven \/ PermissionDenied \/ PermissionTimedOut

AgentStep == Reported \/ TabStep \/ LoopStep \/ ToolStep \/ PermissionStep

Next == AgentStep \/ Stop \/ \E answer \in {"approved", "denied"} : Confirm(answer)

Spec == Init /\ [][Next]_vars

(* Calls of the model, the browser and the database answer or fail in the  *)
(* end; nothing is assumed of what they answer.                            *)
FairSpec == Spec /\ WF_vars(AgentStep)
---------------------------------------------------------------------------
(* What must hold of the agent                                             *)

(* When the model is asked, every call it has made is answered in the      *)
(* history, once and in order, before its next message, whichever tools    *)
(* failed in between.                                                      *)
HistoryPaired ==
  pc = "model" =>
    \A i \in DOMAIN messages : \A c \in 1..MaxCalls :
      messages[i].role = "assistant" =>
        LET answer == [role |-> "tool", at |-> i, call |-> c] IN
        IF c <= messages[i].calls
        THEN i + c <= Len(messages) /\ messages[i + c] = answer
        ELSE answer \notin ToSet(messages)

(* However much of the history compactMessages cuts, the model is sent the *)
(* system prompt and the answers to all of its latest calls, as long as it *)
(* makes no more calls at a time than the messages kept.                   *)
LatestAnswersSent ==
  pc = "model" /\ MaxCalls <= KeepFewer =>
    LET last == SelectLastInSeq(messages, LAMBDA m : m.role # "tool") IN
    /\ Head(sent) = Head(messages)
    /\ ToSet(SubSeq(messages, last + 1, Len(messages))) \subseteq ToSet(sent)

(* Every yes is to one question.  /confirm answers all requests of the     *)
(* task that are pending, and the poll takes what it finds latest; yet at  *)
(* most one request is pending, the latest, and the agent waits for it or  *)
(* has given up, so that no yes is to more than was asked last; and what   *)
(* ask_permission went on from was and stays approved, however requests,   *)
(* answers, timeouts and stops interleave.  It is so only as long as the   *)
(* database fails no request and no poll that ends in a yes.               *)
OneYesPerQuestion ==
  misled \/
  /\ \A i \in DOMAIN permissions :
       permissions[i] = "pending" =>
         i = Len(permissions) /\ pc \in {"asking", "reviewing", "closing", "closed"}
  /\ \A i \in granted : permissions[i] = "approved"

(* The agent ends, whatever the model and the browser answer: it cannot    *)
(* talk, retry, ask or plan for ever.                                      *)
AgentTerminates == <>(pc = "closed")

(* Every step of the agent is one of those TaskRunner has for agents: what *)
(* is shown there of runs holds of this agent.                             *)
Doing ==
  CASE pc \in {"reporting", "asking", "reviewing"} -> pc
    [] pc \in {"closing", "closed"} -> "returned"
    [] OTHER -> "working"

The(x) == [t \in {"task"} |-> x]

Run(x) == [r \in 1..1 |-> x]

Runner == INSTANCE TaskRunner WITH
  User <- {"user"}, Task <- {"task"}, OwnerOf <- The("user"),
  Destructive <- IF PreApproved THEN {"task"} ELSE {}, Queued <- {},
  Drain <- {}, DrainOf <- [d \in {} |-> "user"], MaxRuns <- 1, Late <- {"task"}, None <- "none",
  DbMayFail <- DbMayFail, Stops <- {<<"task", "user">>},
  status <- The(status),
  perm <- The(LatestRequest),
  creation <- The("over"), stop <- The(IF aborted THEN "asked" ELSE "none"),
  stopper <- The(IF aborted THEN "user" ELSE "none"),
  runningTasksPerUser <- [u \in {"user"} |-> TRUE],
  taskAbortControllers <- [t \in {"task"} |-> IF aborted THEN "none" ELSE 1],
  runningTasks <- IF Doing = "returned" THEN {} ELSE {"task"},
  taskOf <- Run("task"), byDrain <- Run(FALSE), main <- Run("racing"),
  aborted <- Run(aborted), agent <- Run(Doing), timer <- Run("off"),
  activeTaskTimeouts <- The("none"),
  drain <- [d \in {} |-> "none"]

RunnerSteps ==
  [][\/ Runner!AgentStep(1)
     \/ Runner!StopAsked("task", "user")
     \/ \E answer \in {"approved", "denied"} : Runner!Confirm("task", answer)
    ]_(Runner!vars)
===========================================================================

--------------------------- MODULE AgentLoopProofs ---------------------------
(***************************************************************************)
(* That the history pairs calls and answers and its end reaches the model, *)
(* that the agent takes the steps TaskRunner has for agents, and that no   *)
(* yes is to two of its questions: for any number of iterations, attempts  *)
(* to reach the model, calls, messages kept and requests.                  *)
(***************************************************************************)
EXTENDS AgentLoop, SequenceTheorems, WellFoundedInduction, TLAPS

(* Where the agent is, or will be when its report is written.              *)
Now == IF pc = "reporting" THEN next ELSE pc

LEMMA MovesTo ==
  ASSUME NEW place \in Places, Goto(place) \/ Report(place), next \in Places
  PROVE  /\ Now' = place /\ next' \in Places
         /\ pc' \in {place, "reporting"} /\ (pc' = "reporting" => ~aborted)
  BY DEF Goto, Report, Now, Places

AnswerTo(i, c) == [role |-> "tool", at |-> i, call |-> c]
Said(n) == [role |-> "assistant", calls |-> n]

LEMMA Messages ==
  /\ [role |-> "system"] \in Message /\ [role |-> "user"] \in Message
  /\ Prompt \in Seq(Message)
  /\ \A n \in 0..MaxCalls : Said(n) \in Message
  /\ \A i \in Nat, c \in 1..MaxCalls : AnswerTo(i, c) \in Message
<1>1. [role |-> "system"] \in Message /\ [role |-> "user"] \in Message
  BY DEF Message
<1>2. Prompt \in Seq(Message)
  BY <1>1 DEF Prompt
<1>3. \A n \in 0..MaxCalls : Said(n) \in Message
  BY DEF Message, Said
<1>4. \A i \in Nat, c \in 1..MaxCalls : AnswerTo(i, c) \in Message
  BY DEF Message, AnswerTo
<1> QED
  BY <1>1, <1>2, <1>3, <1>4

LEMMA MessageIs ==
  ASSUME NEW m \in Message
  PROVE  /\ m.role \in {"system", "user", "assistant", "tool"}
         /\ m.role = "assistant" => m = Said(m.calls) /\ m.calls \in 0..MaxCalls
         /\ m.role = "tool" => m = AnswerTo(m.at, m.call) /\ m.at \in Nat
                               /\ m.call \in 1..MaxCalls
  BY DEF Message, Said, AnswerTo

(* What is sent of a history is made of its messages and the summary.      *)
LEMMA CompactedType ==
  ASSUME NEW size \in {"small", "large", "huge"}, messages \in Seq(Message),
         messages # <<>>
  PROVE  Compacted(messages, size) \in Seq(Message)
<1> DEFINE rest == Tail(messages)
<1>1. rest \in Seq(Message) /\ Head(messages) \in Message
  BY HeadTailProperties
<1>2. ASSUME NEW n \in Nat \ {0}, n <= Len(rest)
      PROVE  Latest(rest, n) \in Seq(Message)
  <2> HIDE DEF rest
  <2> QED
    BY <1>1, <1>2, LenProperties, SubSeqProperties DEF Latest
<1>3. KeepRecent \in Nat \ {0} /\ KeepFewer \in Nat \ {0} /\ KeepFewer < KeepRecent
  BY AgentAssumption
<1> DEFINE kept == IF size = "large" THEN KeepRecent ELSE KeepFewer
<1>4. CASE size = "small" \/ Len(rest) <= KeepRecent
  <2>1. Compacted(messages, size) = messages
    BY <1>4 DEF Compacted
  <2> QED
    BY <2>1
<1>5. CASE ~(size = "small" \/ Len(rest) <= KeepRecent)
  <2>1. Latest(rest, kept) \in Seq(Message)
    <3>1. kept \in Nat \ {0} /\ kept <= Len(rest)
      BY <1>1, <1>3, <1>5, LenProperties
    <3> HIDE DEF kept, rest
    <3> QED
      BY <1>2, <3>1
  <2>2. <<Head(messages), [role |-> "user"]>> \in Seq(Message)
    BY <1>1, Messages
  <2>3. Compacted(messages, size) =
          <<Head(messages), [role |-> "user"]>> \o Latest(rest, kept)
    BY <1>5 DEF Compacted
  <2> HIDE DEF rest, kept
  <2> QED
    BY <2>1, <2>2, <2>3
<1> QED
  BY <1>4, <1>5

(***************************************************************************)
(* The invariant.  While calls are carried out, the last message of the    *)
(* history is the one that made them, and the answers so far are to its    *)
(* first calls; all messages before it have their answers behind them.     *)
(***************************************************************************)

Carrying == Now \in {"tools", "acting", "asking", "reviewing"}

Complete(i) ==
  messages[i].role = "assistant" =>
    \A c \in 1..messages[i].calls :
      i + c <= Len(messages) /\ messages[i + c] = AnswerTo(i, c)

(* An answer is as far behind the message it is to as the call it is to.   *)
Belongs(j) ==
  messages[j].role = "tool" =>
    LET i == messages[j].at IN
    /\ i \in 1..Len(messages) /\ j = i + messages[j].call
    /\ messages[i].role = "assistant" /\ messages[j].call <= messages[i].calls

AllBelong == messages # <<>> /\ \A j \in 1..Len(messages) : Belongs(j)

CallsUnderWay ==
  LET caller == Len(messages) IN
  Carrying =>
    /\ messages[caller].role = "assistant"
    /\ Len(toolResults) + todo = messages[caller].calls
    /\ \A k \in 1..Len(toolResults) : toolResults[k] = AnswerTo(caller, k)
    /\ \A i \in 1..(caller - 1) : Complete(i)
    /\ Now # "tools" => todo > 0

CallsDone == Now \in {"top", "model"} => \A i \in 1..Len(messages) : Complete(i)

Once ==
  /\ midActionPlanCallCount = 2 => Now \in {"closing", "closed"}
  /\ Now = "retrying" => attempt = 0

CallsInv == AllBelong /\ CallsUnderWay /\ CallsDone /\ Once

LEMMA AnswerIs ==
  ASSUME TypeOK, CallsInv, Carrying, Now # "tools" \/ CallDue, Answer
  PROVE  LET caller == Len(messages)
             k == Len(toolResults) + 1 IN
         /\ todo \in 1..MaxCalls /\ todo' = todo - 1 /\ todo' \in 0..MaxCalls
         /\ UNCHANGED <<messages, sent>>
         /\ k \in 1..MaxCalls /\ toolResults' \in Seq(Message) /\ Len(toolResults') = k
         /\ \A j \in 1..k : toolResults'[j] = AnswerTo(caller, j)
         /\ Len(toolResults') + todo' = messages[caller].calls
<1> DEFINE caller == Len(messages)
           k == Len(toolResults) + 1
<1>1. /\ messages \in Seq(Message) /\ toolResults \in Seq(Message)
      /\ Len(messages) \in Nat /\ Len(toolResults) \in Nat /\ messages # <<>>
      /\ todo \in 0..MaxCalls
  BY LenProperties DEF TypeOK, CallsInv, AllBelong
<1>2. /\ todo' = todo - 1 /\ UNCHANGED <<messages, sent>>
      /\ toolResults' = Append(toolResults, AnswerTo(caller, k))
  BY DEF Answer, AnswerTo
<1>3. /\ messages[caller].role = "assistant" /\ k - 1 + todo = messages[caller].calls
      /\ \A j \in 1..(k - 1) : toolResults[j] = AnswerTo(caller, j)
      /\ todo > 0
  BY <1>1 DEF CallsInv, CallsUnderWay, CallDue
<1>4. messages[caller] \in Message /\ caller \in Nat
  BY <1>1, ElementOfSeq, EmptySeq, LenProperties
<1>5. messages[caller].calls \in 0..MaxCalls
  BY <1>3, <1>4, MessageIs
<1>6. k \in 1..MaxCalls
  BY <1>1, <1>3, <1>5, AgentAssumption
<1>7. AnswerTo(caller, k) \in Message
  BY <1>4, <1>6, Messages
<1> HIDE DEF k, caller
<1>8. /\ toolResults' \in Seq(Message) /\ Len(toolResults') = Len(toolResults) + 1
      /\ \A j \in 1..Len(toolResults) : toolResults'[j] = toolResults[j]
      /\ toolResults'[Len(toolResults) + 1] = AnswerTo(caller, k)
  BY <1>1, <1>2, <1>7, AppendProperties
<1> USE DEF k
<1>9. \A j \in 1..k : toolResults'[j] = AnswerTo(caller, j)
  <2>1. ASSUME NEW j \in 1..k PROVE j = k \/ j \in 1..Len(toolResults)
    BY <1>1
  <2> QED
    BY <1>1, <1>3, <1>8, <2>1
<1> QED
  BY <1>1, <1>2, <1>3, <1>6, <1>8, <1>9, AgentAssumption DEF caller

(***************************************************************************)
(* The history                                                             *)
(***************************************************************************)

LEMMA Spoken ==
  ASSUME TypeOK, CallsInv, NEW n \in 0..MaxCalls,
         messages' = Append(messages, Said(n))
  PROVE  /\ messages' \in Seq(Message) /\ AllBelong'
         /\ Len(messages') = Len(messages) + 1
         /\ messages'[Len(messages')] = Said(n)
         /\ \A i \in 1..Len(messages) : messages'[i] = messages[i]
<1>1. messages \in Seq(Message) /\ Said(n) \in Message /\ Len(messages) \in Nat
  BY Messages, LenProperties DEF TypeOK
<1>2. /\ messages' \in Seq(Message) /\ Len(messages') = Len(messages) + 1
      /\ \A i \in 1..Len(messages) : messages'[i] = messages[i]
      /\ messages'[Len(messages) + 1] = Said(n)
  BY <1>1, AppendProperties
<1>3. ASSUME NEW j \in 1..Len(messages') PROVE Belongs(j)'
  <2>1. CASE j = Len(messages) + 1
    BY <1>2, <2>1 DEF Belongs, Said
  <2>2. CASE j \in 1..Len(messages)
    <3>1. Belongs(j)
      BY <2>2 DEF CallsInv, AllBelong
    <3> QED
      BY <1>1, <1>2, <2>2, <3>1 DEF Belongs
  <2> QED
    BY <1>1, <1>2, <2>1, <2>2
<1>4. messages' # <<>>
  BY <1>1, <1>2, EmptySeq
<1> QED
  BY <1>2, <1>3, <1>4 DEF AllBelong

LEMMA Joined ==
  ASSUME TypeOK, CallsInv, ToolsDone
  PROVE  /\ messages' \in Seq(Message) /\ AllBelong'
         /\ \A i \in 1..Len(messages') : Complete(i)'
<1> DEFINE caller == Len(messages)
           n == Len(toolResults)
<1>1. /\ messages \in Seq(Message) /\ toolResults \in Seq(Message)
      /\ caller \in Nat \ {0} /\ n \in Nat
  BY LenProperties, EmptySeq DEF TypeOK, CallsInv, AllBelong
<1>2. Now = "tools" /\ todo = 0 /\ messages' = messages \o toolResults
  BY DEF ToolsDone, Now
<1>3. /\ messages[caller].role = "assistant" /\ n = messages[caller].calls
      /\ \A k \in 1..n : toolResults[k] = AnswerTo(caller, k)
      /\ \A i \in 1..(caller - 1) : Complete(i)
  BY <1>1, <1>2 DEF CallsInv, CallsUnderWay, Carrying
<1>4. /\ messages' \in Seq(Message) /\ Len(messages') = caller + n
      /\ \A i \in 1..caller : messages'[i] = messages[i]
      /\ \A k \in 1..n : messages'[caller + k] = toolResults[k]
  BY <1>1, <1>2, ConcatProperties
<1> HIDE DEF caller, n
<1>5. ASSUME NEW j \in 1..Len(messages')
      PROVE  j \in 1..caller \/ \E k \in 1..n : j = caller + k
  <2>1. CASE j > caller
    <3>1. j - caller \in 1..n /\ j = caller + (j - caller)
      BY <1>1, <1>4, <2>1
    <3> QED
      BY <3>1
  <2> QED
    BY <1>1, <1>4, <2>1
<1>6. ASSUME NEW j \in 1..Len(messages') PROVE Belongs(j)'
  <2>1. CASE j \in 1..caller
    <3>1. Belongs(j)
      BY <2>1 DEF CallsInv, AllBelong, caller
    <3> QED
      BY <1>1, <1>4, <2>1, <3>1 DEF Belongs, caller
  <2>2. ASSUME NEW k \in 1..n, j = caller + k PROVE Belongs(j)'
    <3>1. messages'[j] = AnswerTo(caller, k)
      BY <1>3, <1>4, <2>2
    <3>2. messages'[j].at = caller /\ messages'[j].call = k
      BY <3>1 DEF AnswerTo
    <3>3. caller \in 1..Len(messages') /\ messages'[caller] = messages[caller]
      BY <1>1, <1>4
    <3>4. messages'[caller].role = "assistant" /\ k <= messages'[caller].calls
      BY <1>1, <1>3, <3>3
    <3> QED
      BY <2>2, <3>2, <3>3, <3>4 DEF Belongs
  <2> QED
    BY <1>5, <2>1, <2>2
<1>7. ASSUME NEW i \in 1..Len(messages') PROVE Complete(i)'
  <2>1. CASE i \in 1..(caller - 1)
    <3>1. Complete(i) /\ messages[i] \in Message
      BY <1>1, <1>3, <2>1, ElementOfSeq DEF caller
    <3>2. messages'[i] = messages[i]
      BY <1>1, <1>4, <2>1
    <3>3. messages[i].role = "assistant" => messages[i].calls \in Nat
      BY <3>1, MessageIs
    <3> SUFFICES ASSUME messages[i].role = "assistant", NEW c \in 1..messages[i].calls
                 PROVE  i + c <= Len(messages') /\ messages'[i + c] = AnswerTo(i, c)
      BY <3>2 DEF Complete
    <3>4. i + c <= caller /\ messages[i + c] = AnswerTo(i, c)
      BY <3>1 DEF Complete, caller
    <3>5. i + c \in 1..caller /\ i + c <= Len(messages')
      BY <1>1, <1>4, <2>1, <3>3, <3>4
    <3> QED
      BY <1>4, <3>4, <3>5
  <2>2. CASE i = caller
    <3>1. messages'[caller] = messages[caller]
      BY <1>1, <1>4
    <3>2. ASSUME NEW c \in 1..n
          PROVE  caller + c <= Len(messages') /\ messages'[caller + c] = AnswerTo(caller, c)
      <4>1. caller + c <= Len(messages')
        BY <1>1, <1>4
      <4>2. toolResults[c] = AnswerTo(caller, c)
        BY <1>3
      <4>3. messages'[caller + c] = toolResults[c]
        BY <1>4
      <4> QED
        BY <4>1, <4>2, <4>3
    <3> QED
      BY <1>3, <2>2, <3>1, <3>2 DEF Complete
  <2>3. ASSUME NEW k \in 1..n, i = caller + k PROVE Complete(i)'
    <3>1. messages'[i] = AnswerTo(caller, k)
      BY <1>3, <1>4, <2>3
    <3>2. messages'[i].role = "tool"
      BY <3>1 DEF AnswerTo
    <3> QED
      BY <3>2 DEF Complete
  <2>4. i \in 1..caller => i \in 1..(caller - 1) \/ i = caller
    BY <1>1
  <2> QED
    BY <1>5, <2>1, <2>2, <2>3, <2>4
<1>8. messages' # <<>>
  BY <1>1, <1>4, EmptySeq
<1> QED
  BY <1>4, <1>6, <1>7, <1>8 DEF AllBelong

(* Steps that leave the history and the answers alone.                     *)
LEMMA Steady ==
  ASSUME CallsInv, UNCHANGED <<messages, toolResults, todo>>,
         Carrying' => Carrying /\ (Now' = "tools" \/ Now' = Now \/ todo > 0),
         Now' \in {"top", "model"} => Now \in {"top", "model"}
  PROVE  AllBelong' /\ CallsUnderWay' /\ CallsDone'
<1>1. AllBelong'
  BY DEF CallsInv, AllBelong, Belongs
<1>2. CallsUnderWay'
  BY DEF CallsInv, CallsUnderWay, Complete
<1>3. CallsDone'
  BY DEF CallsInv, CallsDone, Complete
<1> QED
  BY <1>1, <1>2, <1>3

(* Steps that answer the call at hand.                                     *)
LEMMA Answered ==
  ASSUME TypeOK, CallsInv, Carrying, Now # "tools" \/ CallDue, Answer, Now' = "tools"
  PROVE  AllBelong' /\ CallsUnderWay' /\ CallsDone'
<1>1. UNCHANGED messages /\ Len(toolResults') + todo' = messages[Len(messages)].calls
      /\ \A k \in 1..Len(toolResults') : toolResults'[k] = AnswerTo(Len(messages), k)
  BY AnswerIs
<1>2. AllBelong'
  BY <1>1 DEF CallsInv, AllBelong, Belongs
<1>3. CallsUnderWay'
  <2>1. /\ messages[Len(messages)].role = "assistant"
        /\ \A i \in 1..(Len(messages) - 1) : Complete(i)
    BY DEF CallsInv, CallsUnderWay
  <2>2. \A i \in 1..(Len(messages) - 1) : Complete(i)'
    BY <1>1, <2>1 DEF Complete
  <2> QED
    BY <1>1, <2>1, <2>2 DEF CallsUnderWay
<1>4. CallsDone'
  BY DEF CallsDone
<1> QED
  BY <1>2, <1>3, <1>4

(* The model makes calls, or none.                                         *)
LEMMA Called ==
  ASSUME TypeOK, CallsInv, NEW n \in 0..MaxCalls, ModelAnswers(n)
  PROVE  AllBelong' /\ CallsUnderWay' /\ CallsDone' /\ messages' \in Seq(Message)
<1>1. /\ Now = "model" /\ Now' = (IF n = 0 THEN "top" ELSE "tools")
      /\ messages' = Append(messages, Said(n)) /\ toolResults' = <<>> /\ todo' = n
  BY DEF ModelAnswers, Goto, Now, Said
<1>2. /\ messages' \in Seq(Message) /\ AllBelong'
      /\ Len(messages') = Len(messages) + 1 /\ messages'[Len(messages')] = Said(n)
      /\ \A i \in 1..Len(messages) : messages'[i] = messages[i]
  BY <1>1, Spoken
<1>3. Len(messages) \in Nat /\ messages \in Seq(Message)
  BY LenProperties DEF TypeOK
<1>4. ASSUME NEW i \in 1..Len(messages) PROVE Complete(i)'
  <2>1. Complete(i)
    BY <1>1 DEF CallsInv, CallsDone
  <2>2. messages[i] \in Message /\ messages'[i] = messages[i]
    BY <1>2, <1>3, ElementOfSeq
  <2>3. messages[i].role = "assistant" => messages[i].calls \in Nat
    BY <2>2, MessageIs
  <2> SUFFICES ASSUME messages[i].role = "assistant", NEW c \in 1..messages[i].calls
               PROVE  i + c <= Len(messages') /\ messages'[i + c] = AnswerTo(i, c)
    BY <2>2 DEF Complete
  <2>4. i + c <= Len(messages) /\ messages[i + c] = AnswerTo(i, c)
    BY <2>1 DEF Complete
  <2>5. i + c \in 1..Len(messages) /\ i + c <= Len(messages')
    BY <1>2, <1>3, <2>3, <2>4
  <2> QED
    BY <1>2, <2>4, <2>5
<1>5. Said(n).role = "assistant" /\ Said(n).calls = n
  BY DEF Said
<1>6. CallsUnderWay'
  <2>1. Carrying' => n > 0 /\ Len(toolResults') = 0
    BY <1>1 DEF Carrying
  <2>2. Len(messages') - 1 = Len(messages)
    BY <1>2, <1>3
  <2> QED
    BY <1>1, <1>2, <1>4, <1>5, <2>1, <2>2 DEF CallsUnderWay
<1>7. CallsDone'
  <2> SUFFICES ASSUME n = 0, NEW i \in 1..Len(messages') PROVE Complete(i)'
    BY <1>1 DEF CallsDone
  <2>1. i \in 1..Len(messages) \/ i = Len(messages')
    BY <1>2, <1>3
  <2>2. CASE i = Len(messages')
    <3>1. messages'[i].role = "assistant" /\ messages'[i].calls = 0
      BY <1>2, <1>5, <2>2
    <3> QED
      BY <3>1 DEF Complete
  <2> QED
    BY <1>4, <2>1, <2>2
<1> QED
  BY <1>2, <1>6, <1>7

LEMMA PromptIs ==
  ASSUME messages' = Prompt, Now' = "top"
  PROVE  AllBelong' /\ CallsUnderWay' /\ CallsDone'
<1>1. Len(messages') = 2 /\ messages' # <<>>
      /\ \A i \in 1..2 : messages'[i].role \in {"system", "user"}
  BY DEF Prompt
<1> QED
  BY <1>1 DEF AllBelong, Belongs, CallsUnderWay, Carrying, CallsDone, Complete

(***************************************************************************)
(* The steps                                                               *)
(***************************************************************************)

LEMMA AskType ==
  ASSUME TypeOK, CallsInv, Ask
  PROVE  sent' \in Seq(Message)
<1>1. messages \in Seq(Message) /\ messages # <<>>
  BY DEF TypeOK, CallsInv, AllBelong
<1> QED
  BY <1>1, CompactedType DEF Ask

IInv == TypeOK /\ CallsInv

LEMMA TabKeeps ==
  ASSUME IInv, TabStep \/ Reported
  PROVE  IInv'
<1> USE DEF IInv
<1>1. next \in Places /\ pc \in Places \cup {"reporting"}
  BY DEF TypeOK
<1>2. CASE TabStep
  <2>1. /\ Quietly
        /\ pc \in {"begin", "announce", "opening", "opened", "closing"}
        /\ \E place \in {"announce", "opening", "opened", "closing", "planning", "closed"} :
             /\ Goto(place) \/ Report(place)
             /\ pc = "closing" => place = "closed"
    BY <1>2 DEF TabStep, Begin, Announce, TabOpened, TabFailed, TabReady, Closed
  <2>2. PICK place \in {"announce", "opening", "opened", "closing", "planning", "closed"} :
             /\ Goto(place) \/ Report(place)
             /\ pc = "closing" => place = "closed"
    BY <2>1
  <2>3. Now' = place /\ next' \in Places /\ pc' \in Places \cup {"reporting"} /\ Now = pc
    BY <1>1, <2>1, <2>2, MovesTo DEF Places, Now
  <2>4. UNCHANGED <<tool, todo, attempt, iterations, retries, shouldRetry,
                    midActionPlanCallCount, messages, sent, toolResults, status,
                    permissions, granted, misled, aborted>>
    BY <2>1 DEF Quietly, loopVars, msgVars, dbVars, historyVars
  <2>5. TypeOK'
    BY <2>3, <2>4 DEF TypeOK
  <2>6. AllBelong' /\ CallsUnderWay' /\ CallsDone'
    <3>1. ~Carrying' /\ Now' \notin {"top", "model"}
      BY <2>2, <2>3 DEF Carrying
    <3> QED
      BY <2>4, <3>1, Steady
  <2>7. Once'
    BY <2>1, <2>2, <2>3, <2>4 DEF CallsInv, Once
  <2> QED
    BY <2>5, <2>6, <2>7 DEF CallsInv
<1>3. CASE Reported
  <2>1. /\ Now' = Now /\ next' \in Places /\ pc' \in Places \cup {"reporting"}
        /\ status' = "running"
        /\ UNCHANGED <<tool, todo, attempt, iterations, retries, shouldRetry,
                       midActionPlanCallCount, messages, sent, toolResults, permissions, granted,
                       misled, aborted>>
    BY <1>1, <1>3 DEF Reported, Goto, Now, loopVars, msgVars, historyVars, Places
  <2>2. TypeOK'
    BY <2>1 DEF TypeOK
  <2>3. AllBelong' /\ CallsUnderWay' /\ CallsDone'
    BY <2>1, Steady DEF Carrying
  <2>4. Once'
    BY <2>1 DEF CallsInv, Once
  <2> QED
    BY <2>2, <2>3, <2>4 DEF CallsInv
<1> QED
  BY <1>2, <1>3

(* Steps that end the agent, or leave the loop, and change nothing else.   *)
LEMMA LeavingKeeps ==
  ASSUME IInv, NEW place \in {"closing", "ending", "retrying"},
         Goto(place) \/ Report(place), Now \in Places,
         UNCHANGED <<todo, attempt, iterations, retries, shouldRetry, messages, sent,
                     toolResults, permissions, granted, misled, aborted>>,
         tool' \in Tool, status' \in {"running", "waiting"},
         midActionPlanCallCount' \in 0..2,
         midActionPlanCallCount' = 2 => place = "closing",
         place = "retrying" => attempt = 0
  PROVE  IInv'
<1> USE DEF IInv
<1>1. Now' = place /\ next' \in Places /\ pc' \in Places \cup {"reporting"}
  BY MovesTo DEF TypeOK, Places
<1>2. TypeOK'
  BY <1>1 DEF TypeOK
<1>3. AllBelong' /\ CallsUnderWay' /\ CallsDone'
  <2>1. ~Carrying' /\ Now' \notin {"top", "model"}
    BY <1>1 DEF Carrying
  <2> QED
    BY <2>1, Steady
<1>4. Once'
  BY <1>1 DEF Once
<1> QED
  BY <1>2, <1>3, <1>4 DEF CallsInv

LEMMA LoopKeeps ==
  ASSUME IInv, LoopStep
  PROVE  IInv'
<1> USE DEF IInv, loopVars, msgVars, dbVars, historyVars
<1>1. next \in Places /\ pc \in Places \cup {"reporting"} /\ Now \in Places
      /\ iterations \in 0..MaxIterations /\ retries \in 0..MaxRetries
      /\ MaxIterations \in Nat \ {0} /\ MaxRetries \in Nat \ {0} /\ MaxCalls \in Nat \ {0}
  BY AgentAssumption DEF TypeOK, Now
<1>2. /\ midActionPlanCallCount \in 0..2
      /\ midActionPlanCallCount = 2 => Now \in {"closing", "closed"}
  BY DEF TypeOK, CallsInv, Once
<1>3. CASE StoppedAtTop \/ LoopLeft \/ ModelThrows
  <2>1. /\ Goto("closing") \/ Goto("ending")
        /\ Quietly /\ Now \notin {"closing", "closed"}
    BY <1>3 DEF StoppedAtTop, LoopLeft, ModelThrows, Now
  <2> QED
    BY <1>1, <1>2, <2>1, LeavingKeeps DEF Quietly, TypeOK
<1>4. CASE LogWritten
  <2>1. /\ Quietly /\ Now = "ending"
        /\ \/ Goto("closing")
           \/ attempt = 0 /\ (Goto("retrying") \/ Report("retrying"))
    BY <1>4 DEF LogWritten, Now
  <2> QED
    BY <1>1, <1>2, <2>1, LeavingKeeps DEF Quietly, TypeOK
<1>5. CASE Iterate
  <2>1. /\ Now = "top" /\ Now' = "model" /\ next' \in Places /\ pc' = "model"
        /\ iterations' \in 0..MaxIterations /\ retries' = 0
        /\ UNCHANGED <<tool, todo, attempt, shouldRetry, midActionPlanCallCount, messages,
                       toolResults, status, permissions, granted, misled, aborted>>
    BY <1>1, <1>5 DEF Iterate, Goto, Now
  <2>2. sent' \in Seq(Message)
    BY <1>5, AskType DEF Iterate
  <2>3. TypeOK'
    BY <1>1, <2>1, <2>2 DEF TypeOK, Places
  <2>4. AllBelong' /\ CallsUnderWay' /\ CallsDone'
    <3>1. ~Carrying'
      BY <2>1 DEF Carrying
    <3> QED
      BY <2>1, <3>1, Steady
  <2> QED
    BY <1>2, <2>1, <2>3, <2>4 DEF CallsInv, Once
<1>6. CASE ModelBusy
  <2>1. /\ Now = "model" /\ Now' = "model" /\ UNCHANGED <<pc, next>>
        /\ retries' \in 0..MaxRetries
        /\ UNCHANGED <<tool, todo, attempt, iterations, shouldRetry,
                       midActionPlanCallCount, messages, toolResults, status, permissions,
                       granted, misled, aborted>>
    BY <1>1, <1>6 DEF ModelBusy, CountRetry, Now
  <2>2. sent' \in Seq(Message)
    BY <1>6, AskType DEF ModelBusy
  <2>3. TypeOK'
    BY <1>1, <2>1, <2>2 DEF TypeOK, Places
  <2>4. AllBelong' /\ CallsUnderWay' /\ CallsDone'
    <3>1. ~Carrying'
      BY <2>1 DEF Carrying
    <3> QED
      BY <2>1, <3>1, Steady
  <2> QED
    BY <1>2, <2>1, <2>3, <2>4 DEF CallsInv, Once
<1>7. CASE ModelEmpty
  <2>1. /\ Now = "model" /\ Now' = "closing" /\ next' \in Places /\ pc' = "closing"
        /\ messages' = Append(messages, Said(0))
        /\ UNCHANGED <<tool, todo, attempt, iterations, retries, shouldRetry,
                       midActionPlanCallCount, sent, toolResults, status, permissions, granted,
                       misled, aborted>>
    BY <1>1, <1>7 DEF ModelEmpty, Goto, Now, Said
  <2>2. messages' \in Seq(Message) /\ AllBelong'
    BY <1>1, <2>1, Spoken
  <2>3. TypeOK'
    BY <2>1, <2>2 DEF TypeOK, Places
  <2> QED
    BY <2>1, <2>2, <2>3 DEF CallsInv, CallsUnderWay, CallsDone, Carrying, Once
<1>8. CASE ToolsDone
  <2>1. /\ Now = "tools" /\ Now' \in {"ending", "top"} /\ next' \in Places
        /\ pc' \in {"ending", "top"} /\ toolResults' = <<>>
        /\ UNCHANGED <<tool, todo, attempt, iterations, retries, shouldRetry,
                       midActionPlanCallCount, sent, status, permissions, granted, misled,
                       aborted>>
    BY <1>1, <1>8 DEF ToolsDone, Goto, Now
  <2>2. /\ messages' \in Seq(Message) /\ AllBelong'
        /\ \A i \in 1..Len(messages') : Complete(i)'
    BY <1>8, Joined
  <2>3. TypeOK'
    BY <2>1, <2>2 DEF TypeOK, Places
  <2> QED
    BY <1>2, <2>1, <2>2, <2>3 DEF CallsInv, CallsUnderWay, CallsDone, Carrying, Once
<1>9. ASSUME NEW n \in 0..MaxCalls, ModelAnswers(n) PROVE IInv'
  <2>1. /\ Now = "model" /\ Now' \in {"top", "tools"} /\ next' \in Places
        /\ pc' \in {"top", "tools"} /\ toolResults' = <<>> /\ sent' = <<>> /\ todo' = n
        /\ UNCHANGED <<tool, attempt, iterations, retries, shouldRetry,
                       midActionPlanCallCount, status, permissions, granted, misled, aborted>>
    BY <1>1, <1>9 DEF ModelAnswers, Goto, Now
  <2>2. AllBelong' /\ CallsUnderWay' /\ CallsDone' /\ messages' \in Seq(Message)
    BY <1>9, Called
  <2>3. TypeOK'
    BY <2>1, <2>2 DEF TypeOK, Places
  <2> QED
    BY <1>2, <2>1, <2>2, <2>3 DEF CallsInv, Once
<1>10. CASE AttemptBegins
  <2>1. /\ Now \in {"planning", "retrying"} /\ Now' = "top" /\ next' \in Places
        /\ pc' = "top" /\ messages' = Prompt /\ iterations' = 0 /\ shouldRetry' = FALSE
        /\ attempt' = attempt \/ (Now = "retrying" /\ attempt' = attempt + 1)
        /\ UNCHANGED <<tool, todo, retries, midActionPlanCallCount, sent, toolResults,
                       status, permissions, granted, misled, aborted>>
    BY <1>1, <1>10 DEF AttemptBegins, Goto, Now
  <2>2. attempt' \in 0..1
    BY <2>1 DEF TypeOK, CallsInv, Once
  <2>3. TypeOK'
    <3>1. messages' \in Seq(Message) /\ iterations' \in 0..MaxIterations
      BY <1>1, <2>1, Messages
    <3> QED
      BY <2>1, <2>2, <3>1 DEF TypeOK, Places
  <2>4. AllBelong' /\ CallsUnderWay' /\ CallsDone'
    BY <2>1, PromptIs
  <2> QED
    BY <1>2, <2>1, <2>3, <2>4 DEF CallsInv, Once
<1> QED
  BY <1>3, <1>4, <1>5, <1>6, <1>7, <1>8, <1>9, <1>10 DEF LoopStep, StoppedAtTop

LEMMA ToolKeeps ==
  ASSUME IInv, ToolStep
  PROVE  IInv'
<1> USE DEF IInv, loopVars, msgVars, dbVars, historyVars
<1>1. next \in Places /\ pc \in Places \cup {"reporting"} /\ Now \in Places
      /\ tool \in Tool
  BY DEF TypeOK, Now, Tool
<1>2. /\ midActionPlanCallCount \in 0..2
      /\ midActionPlanCallCount = 2 => Now \in {"closing", "closed"}
  BY DEF TypeOK, CallsInv, Once
<1>3. CASE ArgumentsGarbled \/ StoppedAtTool
  <2>1. /\ Goto("closing") /\ Now = "tools" /\ tool' \in Tool
        /\ UNCHANGED <<todo, attempt, iterations, retries, shouldRetry,
                       midActionPlanCallCount, messages, sent, toolResults, status,
                       permissions, granted, misled, aborted>>
    BY <1>1, <1>3 DEF ArgumentsGarbled, StoppedAtTool, CallDue, Quietly, Now, Tool
  <2> QED
    BY <1>1, <1>2, <2>1, LeavingKeeps DEF TypeOK
<1>4. CASE Completed
  <2>1. Goto("closing") /\ Now = "acting" /\ Quietly
    BY <1>4 DEF Completed, Now
  <2> QED
    BY <1>1, <1>2, <2>1, LeavingKeeps DEF Quietly, TypeOK
(* A call begins.                                                          *)
<1>5. ASSUME CallDue, tool' \in Tool, Goto("acting") \/ Report("acting"),
             midActionPlanCallCount' \in 0..1,
             UNCHANGED <<todo, attempt, iterations, retries, shouldRetry, messages, sent,
                         toolResults, status, permissions, granted, misled, aborted>>
      PROVE  IInv'
  <2>1. /\ Now = "tools" /\ Now' = "acting" /\ next' \in Places
        /\ pc' \in Places \cup {"reporting"} /\ todo > 0
    BY <1>1, <1>5, MovesTo DEF CallDue, Now, Places
  <2>2. TypeOK'
    BY <1>5, <2>1 DEF TypeOK
  <2>3. AllBelong' /\ CallsUnderWay' /\ CallsDone'
    <3>1. Carrying
      BY <2>1 DEF Carrying
    <3> QED
      BY <1>5, <2>1, <3>1, Steady
  <2>4. Once'
    BY <1>5, <2>1 DEF Once
  <2> QED
    BY <2>2, <2>3, <2>4 DEF CallsInv
<1>6. CASE CallDue => midActionPlanCallCount \in 0..1
  <2>1. ASSUME NEW t \in Tool, Act(t) PROVE IInv'
    <3>1. CallDue /\ tool' = t /\ (Goto("acting") \/ Report("acting"))
      BY <2>1 DEF Act, CallOf
    <3> QED
      BY <1>5, <1>6, <2>1, <3>1 DEF Act
  <2>2. CASE Plan
    <3>1. CallDue /\ tool' \in Tool
      BY <2>2 DEF Plan, CallOf, Tool
    <3>2. midActionPlanCallCount' = midActionPlanCallCount + 1
          /\ UNCHANGED <<todo, attempt, iterations, retries, shouldRetry, messages, sent,
                         toolResults, status, permissions, granted, misled, aborted>>
      BY <2>2 DEF Plan
    <3>3. CASE midActionPlanCallCount = 0
      BY <1>5, <2>2, <3>1, <3>2, <3>3 DEF Plan
    <3>4. CASE midActionPlanCallCount = 1
      <4>1. Goto("closing")
        BY <2>2, <3>4 DEF Plan
      <4> QED
        BY <1>1, <3>1, <3>2, <3>4, <4>1, LeavingKeeps DEF TypeOK
    <3> QED
      BY <1>6, <3>1, <3>3, <3>4
  <2>3. CASE AskPermission
    <3>1. /\ CallDue /\ tool' \in Tool
          /\ Goto("closing") \/ Goto("acting") \/ Report("acting")
          /\ UNCHANGED <<todo, attempt, iterations, retries, shouldRetry,
                         midActionPlanCallCount, messages, sent, toolResults, status,
                         permissions, granted, misled, aborted>>
      BY <2>3 DEF AskPermission, CallOf, Tool
    <3>2. CASE Goto("closing")
      BY <1>1, <1>2, <3>1, <3>2, LeavingKeeps DEF TypeOK
    <3> QED
      BY <1>5, <1>6, <3>1, <3>2
  <2>4. CASE ToolDone \/ ToolFails \/ AskThrows
    <3>1. /\ Now = "acting" \/ (Now = "tools" /\ CallDue)
          /\ Answer /\ shouldRetry' \in BOOLEAN /\ tool' \in Tool
          /\ Goto("tools") \/ Report("tools")
          /\ UNCHANGED <<attempt, iterations, retries, midActionPlanCallCount, status,
                         permissions, granted, misled, aborted>>
      BY <2>4 DEF ToolDone, ToolFails, AskThrows, CallOf, CallDue, Now, TypeOK, Tool
    <3>2. Now' = "tools" /\ next' \in Places /\ pc' \in Places \cup {"reporting"}
      BY <1>1, <3>1, MovesTo DEF Places
    <3>3. Carrying
      BY <3>1 DEF Carrying
    <3>4. /\ todo' \in 0..MaxCalls /\ toolResults' \in Seq(Message)
          /\ UNCHANGED <<messages, sent>>
      BY <3>1, <3>3, AnswerIs
    <3>5. TypeOK'
      BY <3>1, <3>2, <3>4 DEF TypeOK
    <3>6. AllBelong' /\ CallsUnderWay' /\ CallsDone'
      BY <3>1, <3>2, <3>3, Answered
    <3> QED
      BY <1>2, <3>1, <3>2, <3>5, <3>6 DEF CallsInv, Once
  <2> QED
    BY <1>3, <1>4, <2>1, <2>2, <2>3, <2>4 DEF ToolStep
<1>7. CallDue => midActionPlanCallCount \in 0..1
  <2>1. CallDue => Now = "tools"
    BY DEF CallDue, Now
  <2> QED
    BY <1>2, <2>1
<1> QED
  BY <1>6, <1>7

LEMMA PermissionKeeps ==
  ASSUME IInv, PermissionStep
  PROVE  IInv'
<1> USE DEF IInv, loopVars, msgVars, dbVars, historyVars
<1>1. next \in Places /\ pc \in Places \cup {"reporting"} /\ Now \in Places
  BY DEF TypeOK, Now
<1>2. /\ midActionPlanCallCount \in 0..2
      /\ midActionPlanCallCount = 2 => Now \in {"closing", "closed"}
  BY DEF TypeOK, CallsInv, Once
<1>3. CASE AutoApproved \/ PermissionGiven
  <2>1. /\ Now \in {"acting", "asking", "reviewing"} /\ Answer /\ Goto("tools")
        /\ status' \in {"running", "waiting"} /\ misled' \in BOOLEAN
        /\ UNCHANGED <<tool, attempt, iterations, retries, shouldRetry,
                       midActionPlanCallCount, permissions, aborted>>
    BY <1>3 DEF AutoApproved, PermissionGiven, MustAsk, Now, TypeOK
  <2>7. granted' \subseteq Nat
    <3>1. granted \subseteq Nat /\ Len(permissions) \in Nat
      BY LenProperties DEF TypeOK
    <3> QED
      BY <1>3, <3>1 DEF AutoApproved, PermissionGiven
  <2>2. Now' = "tools" /\ next' \in Places /\ pc' \in Places \cup {"reporting"}
    BY <1>1, <2>1, MovesTo DEF Places
  <2>3. Carrying
    BY <2>1 DEF Carrying
  <2>4. /\ todo' \in 0..MaxCalls /\ toolResults' \in Seq(Message)
        /\ UNCHANGED <<messages, sent>>
    BY <2>1, <2>3, AnswerIs
  <2>5. TypeOK'
    BY <2>1, <2>2, <2>4, <2>7 DEF TypeOK
  <2>6. AllBelong' /\ CallsUnderWay' /\ CallsDone'
    BY <2>1, <2>2, <2>3, Answered
  <2> QED
    BY <1>2, <2>1, <2>2, <2>5, <2>6 DEF CallsInv, Once
<1>4. CASE PermissionAsked
  <2>1. /\ Now = "acting" /\ Now' \in {"asking", "reviewing"} /\ next' \in Places
        /\ pc' \in {"asking", "reviewing"} /\ status' = "waiting"
        /\ permissions' \in {permissions, Append(permissions, "pending")}
        /\ misled' \in BOOLEAN
        /\ UNCHANGED <<tool, todo, attempt, iterations, retries, shouldRetry,
                       midActionPlanCallCount, messages, sent, toolResults, granted, aborted>>
    BY <1>1, <1>4 DEF PermissionAsked, MustAsk, Goto, Now, TypeOK
  <2>2. permissions' \in Seq({"pending", "approved", "denied"})
    <3>1. CASE permissions' = permissions
      BY <3>1 DEF TypeOK
    <3>2. CASE permissions' = Append(permissions, "pending")
      BY <3>2 DEF TypeOK
    <3> QED
      BY <2>1, <3>1, <3>2
  <2>3. TypeOK'
    BY <2>1, <2>2 DEF TypeOK, Places
  <2>4. AllBelong' /\ CallsUnderWay' /\ CallsDone'
    <3>1. Carrying /\ todo > 0
      BY <2>1 DEF Carrying, CallsInv, CallsUnderWay
    <3> QED
      BY <2>1, <3>1, Steady
  <2> QED
    BY <1>2, <2>1, <2>3, <2>4 DEF CallsInv, Once
<1>5. CASE PermissionDenied \/ PermissionTimedOut
  <2>1. /\ Goto("closing") /\ Now \in {"asking", "reviewing"}
        /\ status' \in {"running", "waiting"}
        /\ UNCHANGED <<tool, todo, attempt, iterations, retries, shouldRetry,
                       midActionPlanCallCount, messages, sent, toolResults, permissions, granted,
                       misled, aborted>>
    BY <1>5 DEF PermissionDenied, PermissionTimedOut, Now, TypeOK
  <2> QED
    BY <1>1, <1>2, <2>1, LeavingKeeps DEF TypeOK
<1> QED
  BY <1>3, <1>4, <1>5 DEF PermissionStep

LEMMA NextKeeps == IInv /\ [Next]_vars => IInv'
<1> SUFFICES ASSUME IInv, [Next]_vars PROVE IInv'
  OBVIOUS
<1> USE DEF IInv, loopVars, msgVars, dbVars, historyVars
<1>1. ASSUME Now' = Now, pc' = pc, next' = next, aborted' \in BOOLEAN,
             permissions' \in Seq({"pending", "approved", "denied"}),
             UNCHANGED <<tool, todo, attempt, iterations, retries, shouldRetry,
                         midActionPlanCallCount, messages, sent, toolResults, status, granted,
                         misled>>
      PROVE  IInv'
  <2>1. TypeOK'
    BY <1>1 DEF TypeOK
  <2>2. AllBelong' /\ CallsUnderWay' /\ CallsDone'
    BY <1>1, Steady DEF Carrying
  <2> QED
    BY <1>1, <2>1, <2>2 DEF CallsInv, Once
<1>2. ASSUME NEW answer \in {"approved", "denied"}, Confirm(answer) PROVE IInv'
  <2>1. permissions' \in Seq({"pending", "approved", "denied"})
    <3>1. permissions \in Seq({"pending", "approved", "denied"})
          /\ permissions' = [i \in DOMAIN permissions |->
                IF permissions[i] = "pending" THEN answer ELSE permissions[i]]
      BY <1>2 DEF Confirm, TypeOK
    <3>2. DOMAIN permissions = 1..Len(permissions) /\ Len(permissions) \in Nat
      BY <3>1, LenProperties
    <3>3. \A i \in 1..Len(permissions) :
            (IF permissions[i] = "pending" THEN answer ELSE permissions[i])
              \in {"pending", "approved", "denied"}
      BY <3>1, ElementOfSeq
    <3> QED
      BY <3>1, <3>2, <3>3, IsASeq
  <2> QED
    BY <1>1, <1>2, <2>1 DEF Confirm, Now, TypeOK
<1>3. CASE Stop
  BY <1>1, <1>3 DEF Stop, Now, TypeOK
<1>4. CASE UNCHANGED vars
  BY <1>1, <1>4 DEF vars, Now, TypeOK
<1> QED
  BY <1>2, <1>3, <1>4, TabKeeps, LoopKeeps, ToolKeeps, PermissionKeeps DEF Next, AgentStep

LEMMA InitKeeps == Init => IInv
<1> SUFFICES ASSUME Init PROVE IInv
  OBVIOUS
<1>1. TypeOK
  <2>1. messages \in Seq(Message) /\ sent \in Seq(Message) /\ toolResults \in Seq(Message)
        /\ permissions \in Seq({"pending", "approved", "denied"})
    BY Messages DEF Init
  <2>2. 0 \in 0..MaxIterations /\ 0 \in 0..MaxRetries /\ 0 \in 0..MaxCalls
    BY AgentAssumption
  <2>3. /\ pc \in Places \cup {"reporting"} /\ next \in Places /\ tool \in Tool
        /\ status \in {"running", "waiting"} /\ aborted \in BOOLEAN /\ shouldRetry \in BOOLEAN
        /\ granted \subseteq Nat /\ misled \in BOOLEAN
    BY DEF Init, Places, Tool
  <2>4. /\ todo \in 0..MaxCalls /\ attempt \in 0..1 /\ iterations \in 0..MaxIterations
        /\ retries \in 0..MaxRetries /\ midActionPlanCallCount \in 0..2
    BY <2>2 DEF Init
  <2> QED
    BY <2>1, <2>3, <2>4 DEF TypeOK
<1>2. Now = "begin"
  BY DEF Init, Now
<1>3. AllBelong
  <2>1. Len(messages) = 2 /\ messages # <<>>
        /\ \A i \in 1..2 : messages[i].role \in {"system", "user"}
    BY DEF Init, Prompt
  <2> QED
    BY <2>1 DEF AllBelong, Belongs
<1>4. CallsUnderWay /\ CallsDone /\ Once
  BY <1>2 DEF Init, CallsUnderWay, Carrying, CallsDone, Once
<1> QED
  BY <1>1, <1>3, <1>4 DEF IInv, CallsInv

LEMMA Invariance == Spec => []IInv
<1>1. Init => IInv
  BY InitKeeps
<1>2. IInv /\ [Next]_vars => IInv'
  BY NextKeeps
<1> QED
  BY <1>1, <1>2, PTL DEF Spec

(* Every state is of its type; in particular no attempt is made after the  *)
(* second, and the model is not asked more often than it may be.           *)
THEOREM TypeCorrect == Spec => []TypeOK
<1>1. IInv => TypeOK
  BY DEF IInv
<1> QED
  BY <1>1, Invariance, PTL

(* When the model is asked, every call it has made is answered in the      *)
(* history, once and in order, before its next message.                    *)
THEOREM HistoryIsPaired == Spec => []HistoryPaired
<1>1. IInv => HistoryPaired
  <2> SUFFICES ASSUME IInv, pc = "model",
                      NEW i \in DOMAIN messages, NEW c \in 1..MaxCalls,
                      messages[i].role = "assistant"
               PROVE  IF c <= messages[i].calls
                      THEN /\ i + c <= Len(messages)
                           /\ messages[i + c] = AnswerTo(i, c)
                      ELSE AnswerTo(i, c) \notin ToSet(messages)
    BY DEF HistoryPaired, AnswerTo
  <2>1. /\ messages \in Seq(Message) /\ DOMAIN messages = 1..Len(messages)
        /\ Len(messages) \in Nat /\ messages[i] \in Message
    BY LenProperties, ElementOfSeq DEF IInv, TypeOK
  <2>2. Complete(i)
    BY <2>1 DEF IInv, CallsInv, CallsDone, Now
  <2>3. messages[i].calls \in Nat /\ c \in Nat
    BY <2>1, MessageIs, AgentAssumption
  <2>4. CASE c <= messages[i].calls
    BY <2>2, <2>3, <2>4 DEF Complete
  <2>5. CASE c > messages[i].calls
    <3> SUFFICES ASSUME NEW j \in 1..Len(messages), messages[j] = AnswerTo(i, c)
                 PROVE  FALSE
      BY <2>1, <2>3, <2>5 DEF ToSet
    <3>1. messages[j].role = "tool" /\ messages[j].at = i /\ messages[j].call = c
      BY DEF AnswerTo
    <3>2. Belongs(j)
      BY DEF IInv, CallsInv, AllBelong
    <3> QED
      BY <2>3, <2>5, <3>1, <3>2 DEF Belongs
  <2> QED
    BY <2>3, <2>4, <2>5
<1> QED
  BY <1>1, Invariance, PTL

(***************************************************************************)
(* The steps of TaskRunner's agents                                        *)
(***************************************************************************)

Waiting == {"asking", "reviewing"}
Ended == {"closing", "closed"}
Busy == Places \ (Waiting \cup Ended)

(* Whatever the database does, the last request is pending if any is.      *)
PermissionInv ==
  /\ pc = "reporting" => next \in Busy
  /\ \A i \in 1..Len(permissions) :
       permissions[i] = "pending" => permissions[Len(permissions)] = "pending"

(* If it did not fail, no other is, and none while the agent works; and    *)
(* what the agent went on from is approved.                                *)
QuestionInv ==
  misled \/
  /\ Now = "asking" => permissions # <<>>
  /\ \A i \in 1..Len(permissions) :
       permissions[i] = "pending" => i = Len(permissions) /\ Now \in Waiting \cup Ended
  /\ \A i \in granted : i \in 1..Len(permissions) /\ permissions[i] = "approved"

Rows == <<status, permissions, granted, misled, aborted>>

Works ==
  /\ pc \in Busy /\ UNCHANGED Rows
  /\ \E place \in Busy : Goto(place) \/ Report(place)

Ends ==
  /\ pc \in Busy \cup {"closing"} /\ UNCHANGED Rows
  /\ \E place \in Ended : Goto(place)

(* Most steps do not touch the rows.                                       *)
LEMMA Kinds ==
  ASSUME IInv, [Next]_vars
  PROVE  \/ UNCHANGED <<pc, next, Rows>> \/ Works \/ Ends
         \/ Reported \/ PermissionAsked \/ PermissionGiven
         \/ PermissionDenied \/ PermissionTimedOut \/ Stop
         \/ \E answer \in {"approved", "denied"} : Confirm(answer)
<1> USE DEF dbVars, historyVars, Rows, Busy, Places, Waiting, Ended
<1>1. CASE UNCHANGED vars
  BY <1>1 DEF vars
<1>2. CASE TabStep
  <2>1. Quietly /\ pc \in {"begin", "announce", "opening", "opened", "closing"}
    BY <1>2 DEF TabStep, Begin, Announce, TabOpened, TabFailed, TabReady, Closed
  <2>2. \/ \E place \in Busy : Goto(place) \/ Report(place)
        \/ Goto("closing") \/ Goto("closed")
    BY <1>2 DEF TabStep, Begin, Announce, TabOpened, TabFailed, TabReady, Closed
  <2>3. pc = "closing" => Goto("closed")
    BY <1>2 DEF TabStep, Begin, Announce, TabOpened, TabFailed, TabReady, Closed
  <2> QED
    BY <2>1, <2>2, <2>3 DEF Works, Ends, Quietly
<1>3. CASE LoopStep
  <2>1. CASE ModelBusy
    BY <2>1 DEF ModelBusy
  <2>2. CASE LogWritten
    BY <2>2 DEF LogWritten, Quietly, Works, Ends
  <2>3. CASE StoppedAtTop \/ LoopLeft \/ ModelThrows
    BY <2>3 DEF StoppedAtTop, LoopLeft, ModelThrows, Quietly, Works, Ends
  <2>4. CASE Iterate \/ AttemptBegins
    BY <2>4 DEF Iterate, AttemptBegins, Works
  <2>5. CASE ModelEmpty \/ ToolsDone
    BY <2>5 DEF ModelEmpty, ToolsDone, Works, Ends
  <2>6. ASSUME NEW n \in 0..MaxCalls, ModelAnswers(n) PROVE Works
    BY <2>6 DEF ModelAnswers, Works
  <2> QED
    BY <1>3, <2>1, <2>2, <2>3, <2>4, <2>5, <2>6 DEF LoopStep
<1>4. CASE ToolStep
  <2>1. CASE ArgumentsGarbled \/ StoppedAtTool \/ Completed
    BY <2>1 DEF ArgumentsGarbled, StoppedAtTool, Completed, CallDue, Quietly, Ends
  <2>2. CASE Plan \/ AskPermission
    BY <2>2 DEF Plan, AskPermission, CallOf, CallDue, Works, Ends
  <2>3. CASE ToolDone \/ ToolFails \/ AskThrows
    BY <2>3 DEF ToolDone, ToolFails, AskThrows, CallOf, CallDue, Works
  <2>4. ASSUME NEW t \in Tool, Act(t) PROVE Works
    BY <2>4 DEF Act, CallOf, CallDue, Works
  <2> QED
    BY <1>4, <2>1, <2>2, <2>3, <2>4 DEF ToolStep
<1>5. CASE AutoApproved
  BY <1>5 DEF AutoApproved, MustAsk, Works
<1> QED
  BY <1>1, <1>2, <1>3, <1>4, <1>5 DEF Next, AgentStep, PermissionStep

LEMMA Requests ==
  ASSUME IInv
  PROVE  /\ permissions \in Seq({"pending", "approved", "denied"})
         /\ Len(permissions) \in Nat /\ DOMAIN permissions = 1..Len(permissions)
         /\ next \in Places /\ pc \in Places \cup {"reporting"}
         /\ permissions # <<>> => Len(permissions) \in 1..Len(permissions)
  BY LenProperties, EmptySeq DEF IInv, TypeOK

(* A request is added, and nothing else changes about the others.          *)
LEMMA Added ==
  ASSUME IInv, permissions' = Append(permissions, "pending")
  PROVE  /\ Len(permissions') = Len(permissions) + 1 /\ permissions' # <<>>
         /\ permissions'[Len(permissions')] = "pending"
         /\ \A i \in 1..Len(permissions) : permissions'[i] = permissions[i]
  BY Requests, AppendProperties

LEMMA Confirmed ==
  ASSUME IInv, NEW answer \in {"approved", "denied"}, Confirm(answer)
  PROVE  /\ UNCHANGED <<pc, next, status, granted, misled, aborted>>
         /\ Len(permissions') = Len(permissions)
         /\ \A i \in 1..Len(permissions) :
              permissions'[i] = IF permissions[i] = "pending" THEN answer ELSE permissions[i]
         /\ \E i \in 1..Len(permissions) : permissions[i] = "pending"
<1>1. /\ permissions' = [i \in DOMAIN permissions |->
             IF permissions[i] = "pending" THEN answer ELSE permissions[i]]
      /\ "pending" \in ToSet(permissions)
      /\ UNCHANGED <<pc, next, status, granted, misled, aborted>>
  BY DEF Confirm, historyVars
<1>2. permissions' \in Seq({"pending", "approved", "denied"})
  BY NextKeeps DEF IInv, TypeOK, Next
<1> QED
  BY <1>1, <1>2, Requests, LenProperties DEF ToSet

LEMMA PermissionInvNext ==
  ASSUME IInv, PermissionInv, [Next]_vars
  PROVE  PermissionInv'
<1> USE DEF Busy, Places, Waiting, Ended
<1>2. CASE UNCHANGED <<pc, next, Rows>> \/ Stop
  BY <1>2 DEF PermissionInv, Rows, Stop, dbVars
<1>3. CASE Works
  <2>1. PICK place \in Busy : Goto(place) \/ Report(place)
    BY <1>3 DEF Works
  <2>2. pc' = "reporting" => next' = place
    BY <2>1 DEF Goto, Report
  <2> QED
    BY <1>3, <2>2 DEF PermissionInv, Works, Rows
<1>4. CASE Ends
  BY <1>4 DEF PermissionInv, Ends, Goto, Rows
<1>5. CASE Reported
  BY <1>5, Requests DEF PermissionInv, Reported, Goto
<1>6. CASE PermissionAsked
  <2>1. /\ permissions' = Append(permissions, "pending") \/ UNCHANGED permissions
        /\ pc' \in Waiting
    BY <1>6 DEF PermissionAsked, Goto
  <2> QED
    BY <2>1, Added DEF PermissionInv
<1>7. CASE PermissionGiven
  BY <1>7 DEF PermissionGiven, Goto, PermissionInv
<1>8. CASE PermissionDenied \/ PermissionTimedOut
  BY <1>8 DEF PermissionDenied, PermissionTimedOut, Goto, PermissionInv
<1>10. ASSUME NEW answer \in {"approved", "denied"}, Confirm(answer)
       PROVE  PermissionInv'
  BY <1>10, Confirmed DEF PermissionInv
<1> QED
  BY <1>2, <1>3, <1>4, <1>5, <1>6, <1>7, <1>8, <1>10, Kinds

LEMMA QuestionInvNext ==
  ASSUME IInv, PermissionInv, QuestionInv, [Next]_vars
  PROVE  QuestionInv'
<1> USE DEF Busy, Places, Waiting, Ended
<1>2. CASE UNCHANGED <<pc, next, Rows>> \/ Stop
  BY <1>2 DEF QuestionInv, Rows, Stop, dbVars, historyVars, Now
<1>3. CASE Works
  <2>1. PICK place \in Busy : Goto(place) \/ Report(place)
    BY <1>3 DEF Works
  <2>2. Now' = place
    BY <2>1 DEF Goto, Report, Now
  <2>3. Now = pc /\ UNCHANGED <<permissions, granted, misled>>
    BY <1>3 DEF Works, Now, Rows
  <2> QED
    BY <1>3, <2>2, <2>3 DEF QuestionInv, Works
<1>4. CASE Ends
  BY <1>4 DEF QuestionInv, Ends, Goto, Now, Rows
<1>5. CASE Reported
  BY <1>5, Requests DEF QuestionInv, Reported, Goto, Now, historyVars
<1>6. CASE PermissionAsked
  <2>1. /\ misled' \/ (permissions' = Append(permissions, "pending") /\ UNCHANGED misled)
        /\ pc = "acting" /\ pc' \in Waiting /\ UNCHANGED granted
    BY <1>6 DEF PermissionAsked, MustAsk, Goto
  <2>2. CASE misled'
    BY <2>2 DEF QuestionInv
  <2>3. CASE permissions' = Append(permissions, "pending") /\ UNCHANGED misled /\ ~misled
    <3>1. \A i \in 1..Len(permissions) : permissions[i] # "pending"
      BY <2>1, <2>3 DEF QuestionInv, Now
    <3>2. \A i \in 1..Len(permissions') : i \in 1..Len(permissions) \/ i = Len(permissions')
      BY <2>3, Added, Requests
    <3>3. \A i \in 1..Len(permissions) : i \in 1..Len(permissions')
      BY <2>3, Added, Requests
    <3> QED
      BY <2>1, <2>3, <3>1, <3>2, <3>3, Added DEF QuestionInv, Now
  <2> QED
    BY <2>1, <2>2, <2>3
<1>7. CASE PermissionGiven
  <2>1. /\ UNCHANGED permissions /\ pc' = "tools"
        /\ misled' \/ (FoundYes /\ UNCHANGED misled)
        /\ granted' = IF pc = "asking" THEN granted \cup {Len(permissions)} ELSE granted
    BY <1>7 DEF PermissionGiven, Goto
  <2>2. CASE misled'
    BY <2>2 DEF QuestionInv
  <2>3. CASE FoundYes /\ UNCHANGED misled /\ ~misled
    <3>1. CASE pc = "asking"
      <4>1. permissions # <<>>
        BY <2>3, <3>1 DEF QuestionInv, Now
      <4>2. permissions[Len(permissions)] = "approved"
        <5>1. permissions[Len(permissions)] \in {"pending", "approved", "denied"}
          BY <4>1, Requests, ElementOfSeq
        <5> QED
          BY <2>3, <3>1, <4>1, <5>1 DEF FoundYes, LatestRequest, Last
      <4>3. \A i \in 1..Len(permissions) : permissions[i] # "pending"
        BY <2>3, <4>2 DEF QuestionInv
      <4> QED
        BY <2>1, <2>3, <3>1, <4>1, <4>2, <4>3, Requests DEF QuestionInv, Now
    <3>2. CASE pc = "reviewing"
      <4>1. "pending" \notin ToSet(permissions)
        BY <2>3, <3>2 DEF FoundYes
      <4>2. \A i \in 1..Len(permissions) : permissions[i] # "pending"
        BY <4>1, Requests DEF ToSet
      <4> QED
        BY <2>1, <2>3, <3>2, <4>2 DEF QuestionInv, Now
    <3> QED
      BY <2>3, <3>1, <3>2 DEF FoundYes
  <2> QED
    BY <2>1, <2>2, <2>3
<1>8. CASE PermissionDenied \/ PermissionTimedOut
  <2>1. UNCHANGED <<permissions, granted, misled>> /\ pc' = "closing" /\ Now \in Waiting
    BY <1>8 DEF PermissionDenied, PermissionTimedOut, Goto, Now, historyVars
  <2> QED
    BY <2>1 DEF QuestionInv, Now
<1>10. ASSUME NEW answer \in {"approved", "denied"}, Confirm(answer)
       PROVE  QuestionInv'
  <2>1. permissions # <<>> => permissions' # <<>>
    <3>1. permissions' \in Seq({"pending", "approved", "denied"})
      BY <1>10, NextKeeps DEF IInv, TypeOK, Next
    <3> QED
      BY <1>10, <3>1, Confirmed, Requests, EmptySeq
  <2> QED
    BY <1>10, <2>1, Confirmed, Requests DEF QuestionInv, Now
<1> QED
  BY <1>2, <1>3, <1>4, <1>5, <1>6, <1>7, <1>8, <1>10, Kinds

LEMMA AsStutter ==
  ASSUME Doing' = Doing, UNCHANGED Rows
  PROVE  UNCHANGED Runner!vars
  BY DEF Rows, LatestRequest, Runner!vars, Runner!rowVars, Runner!memVars, Runner!runVars,
         Runner!agentVars, Runner!timerVars, Runner!stopVars, The, Run

LEMMA AsReports ==
  ASSUME Doing = "working", Doing' = "reporting", ~aborted, UNCHANGED Rows
  PROVE  Runner!AgentReports(1)
  BY DEF Rows, LatestRequest, Runner!AgentReports, Runner!AgentOnly, Runner!stopVars,
         Runner!rowVars, Runner!memVars, Runner!runVars, Runner!timerVars, The, Run

LEMMA AsWritten ==
  ASSUME Doing = "reporting", Doing' = "working", status' = "running",
         UNCHANGED <<permissions, aborted>>
  PROVE  Runner!ReportWritten(1)
  BY DEF LatestRequest, Runner!ReportWritten, Runner!SetStatus, Runner!AgentOnly,
         Runner!stopVars, Runner!memVars, Runner!runVars, Runner!timerVars, The, Run

LEMMA AsEnds ==
  ASSUME Doing = "working", Doing' = "returned", UNCHANGED Rows
  PROVE  Runner!AgentEnds(1)
  BY DEF Rows, LatestRequest, Runner!AgentEnds, Runner!AgentReturns, Runner!AgentOnly,
         Runner!stopVars, Runner!rowVars, Runner!memVars, Runner!runVars, Runner!timerVars,
         The, Run

LEMMA AsAsks ==
  ASSUME NEW how \in Waiting, how = "asking" => ~PreApproved,
         Doing = "working", Doing' = how, status' = "waiting", UNCHANGED aborted,
         LatestRequest' = "pending" \/ (DbMayFail /\ UNCHANGED LatestRequest)
  PROVE  Runner!AgentAsks(1, how)
<1> DEFINE before == The(LatestRequest)
           after == The(LatestRequest')
<1>1. /\ Run(Doing)[1] = "working" /\ Run("task")[1] = "task"
      /\ Run(Doing') = [Run(Doing) EXCEPT ![1] = how]
  BY DEF Run
<1>2. The(status') = [The(status) EXCEPT !["task"] = "waiting"]
  BY DEF The
<1>3. after = [before EXCEPT !["task"] = "pending"] \/ (DbMayFail /\ after = before)
  BY DEF The
<1>4. how # "returned" /\ (how = "asking" => "task" \notin IF PreApproved THEN {"task"} ELSE {})
  BY DEF Waiting
<1> QED
  BY <1>1, <1>2, <1>3, <1>4
  DEF Runner!AgentAsks, Runner!SetStatus, Runner!AgentOnly, Runner!stopVars, Runner!memVars,
      Runner!runVars, Runner!timerVars

LEMMA AsApproved ==
  ASSUME ~aborted, Doing' = "working", status' = "running",
         UNCHANGED <<permissions, aborted>>,
         \/ Doing = "asking" /\ LatestRequest \in {"approved", "none"}
         \/ Doing = "reviewing" /\ LatestRequest # "pending"
         \/ Doing \in Waiting /\ DbMayFail
  PROVE  Runner!AgentApproved(1)
  BY DEF LatestRequest, Waiting, Runner!AgentApproved, Runner!Approved, Runner!SetStatus,
         Runner!AgentOnly, Runner!stopVars, Runner!memVars, Runner!runVars, Runner!timerVars,
         The, Run

LEMMA AsDenied ==
  ASSUME Doing' = "returned", status' = "running", UNCHANGED <<permissions, aborted>>,
         \/ Doing \in Waiting /\ aborted
         \/ Doing = "asking" /\ LatestRequest = "denied"
  PROVE  Runner!AgentDenied(1)
  BY DEF LatestRequest, Waiting, Runner!AgentDenied, Runner!AgentReturns, Runner!SetStatus,
         Runner!AgentOnly, Runner!stopVars, Runner!memVars, Runner!runVars, Runner!timerVars,
         The, Run

LEMMA AsGivesUp ==
  ASSUME Doing \in Waiting, Doing' = "returned", UNCHANGED <<permissions, aborted>>,
         status' = IF Doing = "reviewing" THEN "running" ELSE status
  PROVE  Runner!AgentGivesUp(1)
  BY DEF LatestRequest, Waiting, Runner!AgentGivesUp, Runner!AgentReturns, Runner!SetStatus,
         Runner!AgentOnly, Runner!stopVars, Runner!memVars, Runner!runVars, Runner!timerVars,
         The, Run

LEMMA AsConfirm ==
  ASSUME NEW answer \in {"approved", "denied"}, Doing' = Doing,
         LatestRequest = "pending", LatestRequest' = answer, UNCHANGED <<status, aborted>>
  PROVE  Runner!Confirm("task", answer)
  BY DEF LatestRequest, Runner!Confirm, Runner!RouteOnly, Runner!stopVars, Runner!memVars,
         Runner!runVars, Runner!agentVars, Runner!timerVars, The, Run

LEMMA AsStop ==
  ASSUME aborted = FALSE, aborted' = TRUE, Doing' = Doing, status # "absent",
         UNCHANGED <<status, permissions>>
  PROVE  Runner!StopAsked("task", "user")
<1>1. /\ The(IF aborted THEN "none" ELSE 1)["task"] = 1
      /\ The(IF aborted THEN "asked" ELSE "none")["task"] = "none"
      /\ The(status)["task"] # "absent"
  BY DEF The
<1>2. /\ The(IF aborted' THEN "asked" ELSE "none")
           = [The(IF aborted THEN "asked" ELSE "none") EXCEPT !["task"] = "asked"]
      /\ The(IF aborted' THEN "user" ELSE "none")
           = [The(IF aborted THEN "user" ELSE "none") EXCEPT !["task"] = "user"]
      /\ The(IF aborted' THEN "none" ELSE 1)
           = [The(IF aborted THEN "none" ELSE 1) EXCEPT !["task"] = "none"]
  BY DEF The
<1>3. Run(aborted') = [q \in Runner!Run |-> Run(aborted)[q] \/ q = 1]
  <2>1. \A q \in 1..1 : q = 1
    OBVIOUS
  <2>2. \A q \in 1..1 : (Run(aborted)[q] \/ q = 1) = aborted'
    BY <2>1, Zenon
  <2>3. [q \in 1..1 |-> Run(aborted)[q] \/ q = 1] = [q \in 1..1 |-> aborted']
    BY <2>2, Zenon
  <2> QED
    BY <2>3, Zenon DEF Run, Runner!Run
<1> QED
  BY <1>1, <1>2, <1>3
  DEF LatestRequest, Runner!StopAsked, Runner!RouteOnly, Runner!stopVars, Runner!rowVars,
      Runner!runVars, Runner!agentVars, Runner!timerVars

RunnerStep ==
  \/ Runner!AgentStep(1)
  \/ Runner!StopAsked("task", "user")
  \/ \E answer \in {"approved", "denied"} : Runner!Confirm("task", answer)

LEMMA DoingIs ==
  ASSUME pc \in Places \cup {"reporting"}
  PROVE  /\ pc \in Busy => Doing = "working"
         /\ pc \in Ended => Doing = "returned"
         /\ pc \in Waiting \cup {"reporting"} => Doing = pc
  BY DEF Doing, Busy, Ended, Waiting, Places

LEMMA StepIsRunners ==
  ASSUME IInv, PermissionInv, [Next]_vars
  PROVE  RunnerStep \/ UNCHANGED Runner!vars
<1>1. /\ permissions \in Seq({"pending", "approved", "denied"}) /\ Len(permissions) \in Nat
      /\ permissions' \in Seq({"pending", "approved", "denied"})
      /\ next \in Places /\ pc \in Places \cup {"reporting"}
      /\ pc' \in Places \cup {"reporting"} /\ aborted \in BOOLEAN
      /\ status \in {"running", "waiting"}
  BY NextKeeps, LenProperties DEF IInv, TypeOK
<1>2. /\ pc \in Busy => Doing = "working"
      /\ pc \in Ended => Doing = "returned"
      /\ pc \in Waiting \cup {"reporting"} => Doing = pc
  BY <1>1, DoingIs
<1>3. /\ pc' \in Busy => Doing' = "working"
      /\ pc' \in Ended => Doing' = "returned"
      /\ pc' \in Waiting \cup {"reporting"} => Doing' = pc'
  BY <1>1 DEF Doing, Busy, Ended, Waiting, Places
<1>4. pc' = pc => Doing' = Doing
  BY DEF Doing
<1>5. \/ Runner!AgentReports(1) \/ Runner!ReportWritten(1) \/ Runner!AgentEnds(1)
      \/ Runner!AgentApproved(1) \/ Runner!AgentDenied(1) \/ Runner!AgentGivesUp(1)
      \/ \E how \in Waiting : Runner!AgentAsks(1, how)
      => RunnerStep
  BY DEF RunnerStep, Runner!AgentStep, Runner!AgentAnswered, Waiting
<1> HIDE DEF Doing
<1>6. CASE UNCHANGED <<pc, next, Rows>>
  BY <1>4, <1>6, AsStutter
<1>7. CASE Works
  <2>1. PICK place \in Busy : Goto(place) \/ Report(place)
    BY <1>7 DEF Works
  <2>2. pc' = place \/ (pc' = "reporting" /\ ~aborted)
    BY <2>1 DEF Goto, Report
  <2>3. Doing = "working" /\ UNCHANGED Rows
    BY <1>2, <1>7 DEF Works
  <2>4. CASE pc' = place
    BY <1>3, <2>1, <2>3, <2>4, AsStutter
  <2>5. CASE pc' = "reporting" /\ ~aborted
    BY <1>3, <1>5, <2>3, <2>5, AsReports
  <2> QED
    BY <2>2, <2>4, <2>5
<1>8. CASE Ends
  <2>1. pc' \in Ended /\ UNCHANGED Rows /\ pc \in Busy \cup Ended
    BY <1>8 DEF Ends, Goto, Ended
  <2>2. CASE pc \in Busy
    BY <1>2, <1>3, <1>5, <2>1, <2>2, AsEnds
  <2>3. CASE pc \in Ended
    BY <1>2, <1>3, <2>1, <2>3, AsStutter
  <2> QED
    BY <2>1, <2>2, <2>3
<1>9. CASE Reported
  <2>1. pc = "reporting" /\ pc' \in Busy /\ status' = "running"
        /\ UNCHANGED <<permissions, aborted>>
    BY <1>9 DEF Reported, Goto, PermissionInv
  <2> QED
    BY <1>2, <1>3, <1>5, <2>1, AsWritten
<1>10. CASE PermissionAsked
  <2>1. /\ pc \in Busy /\ pc' = IF tool = "ask" THEN "asking" ELSE "reviewing"
        /\ tool = "ask" => ~PreApproved
        /\ \/ permissions' = Append(permissions, "pending")
           \/ DbMayFail /\ UNCHANGED permissions
        /\ status' = "waiting" /\ UNCHANGED aborted
    BY <1>10 DEF PermissionAsked, MustAsk, NeedsConsent, Goto, Busy, Places, Waiting, Ended
  <2>2. LatestRequest' = "pending" \/ (DbMayFail /\ UNCHANGED LatestRequest)
    BY <2>1, Added DEF LatestRequest, Last
  <2>3. pc' \in Waiting /\ (pc' = "asking" => ~PreApproved)
    BY <2>1 DEF Waiting
  <2>4. Runner!AgentAsks(1, pc')
    BY <1>2, <1>3, <2>1, <2>2, <2>3, AsAsks
  <2> QED
    BY <1>5, <2>3, <2>4
<1>11. CASE PermissionGiven
  <2>1. /\ ~aborted /\ pc' = "tools" /\ status' = "running"
        /\ UNCHANGED <<permissions, aborted>> /\ pc \in Waiting
        /\ FoundYes \/ DbMayFail
    BY <1>11 DEF PermissionGiven, Goto, Waiting
  <2>2. \/ pc = "asking" /\ LatestRequest \in {"approved", "none"}
        \/ pc = "reviewing" /\ LatestRequest # "pending"
        \/ DbMayFail
    <3>1. permissions # <<>> => permissions[Len(permissions)] \in ToSet(permissions)
      BY Requests DEF ToSet
    <3> QED
      BY <2>1, <3>1 DEF FoundYes, LatestRequest, Last
  <2>3. Doing' = "working"
    BY <1>3, <2>1 DEF Busy, Places, Waiting, Ended
  <2>4. Doing = pc
    BY <1>2, <2>1
  <2> QED
    BY <1>5, <2>1, <2>2, <2>3, <2>4, AsApproved
<1>12. CASE PermissionDenied
  <2>1. /\ pc' = "closing" /\ status' = "running" /\ UNCHANGED <<permissions, aborted>>
        /\ \/ pc \in Waiting /\ aborted
           \/ pc = "asking" /\ LatestRequest = "denied"
    BY <1>12 DEF PermissionDenied, Goto, Waiting
  <2>3. Doing' = "returned" /\ Doing = pc
    BY <1>2, <1>3, <2>1 DEF Ended, Waiting
  <2> QED
    BY <1>5, <2>1, <2>3, AsDenied
<1>13. CASE PermissionTimedOut
  <2>1. /\ pc' = "closing" /\ pc \in Waiting /\ UNCHANGED <<permissions, aborted>>
        /\ status' = IF pc = "reviewing" THEN "running" ELSE status
    BY <1>13 DEF PermissionTimedOut, Goto, Waiting
  <2>2. Doing' = "returned" /\ Doing = pc
    BY <1>2, <1>3, <2>1 DEF Ended
  <2> QED
    BY <1>5, <2>1, <2>2, AsGivesUp
<1>14. CASE Stop
  <2>1. aborted = FALSE /\ aborted' = TRUE /\ UNCHANGED <<pc, status, permissions>>
    BY <1>1, <1>14 DEF Stop, dbVars
  <2> QED
    BY <1>1, <1>4, <2>1, AsStop DEF RunnerStep
<1>15. ASSUME NEW answer \in {"approved", "denied"}, Confirm(answer)
       PROVE  RunnerStep
  <2>1. permissions # <<>> /\ permissions[Len(permissions)] = "pending"
    BY <1>15, Confirmed, EmptySeq DEF PermissionInv
  <2>2. permissions' # <<>> /\ permissions'[Len(permissions')] = answer
    BY <1>1, <1>15, <2>1, Confirmed, Requests, EmptySeq
  <2>3. LatestRequest = "pending" /\ LatestRequest' = answer
    BY <2>1, <2>2 DEF LatestRequest, Last
  <2> QED
    BY <1>4, <1>15, <2>3, Confirmed, AsConfirm DEF RunnerStep
<1> QED
  BY <1>6, <1>7, <1>8, <1>9, <1>10, <1>11, <1>12, <1>13, <1>14, <1>15, Kinds

(* Every step of the agent is one that TaskRunner has for agents, a stop   *)
(* or an answer of the user.                                               *)
THEOREM AgentIsRunners == Spec => RunnerSteps
<1>1. Init => PermissionInv
  BY DEF Init, PermissionInv, Now
<1>2. IInv /\ PermissionInv /\ [Next]_vars => PermissionInv'
  BY PermissionInvNext
<1>3. IInv /\ PermissionInv /\ [Next]_vars => [RunnerStep]_(Runner!vars)
  BY StepIsRunners
<1> QED
  BY <1>1, <1>2, <1>3, Invariance, PTL DEF Spec, RunnerSteps, RunnerStep

(***************************************************************************)
(* What the model is sent                                                  *)
(***************************************************************************)

Sizes == {"small", "large", "huge"}

(* While the model is asked, it is with the history as it is, compacted.   *)
SentInv ==
  /\ pc = "model" => \E size \in Sizes : sent = Compacted(messages, size)
  /\ pc = "reporting" => next # "model"

LEMMA SentInvNext ==
  ASSUME SentInv, [Next]_vars
  PROVE  SentInv'
<1>1. CASE UNCHANGED <<pc, next, messages, sent>>
  BY <1>1 DEF SentInv
<1>2. CASE Ask /\ UNCHANGED messages /\ pc' = "model"
  BY <1>2 DEF SentInv, Ask, Sizes
<1>3. ASSUME NEW place, Goto(place) \/ Report(place), place \notin {"model", "reporting"}
      PROVE  SentInv'
  BY <1>3 DEF SentInv, Goto, Report
<1>4. CASE UNCHANGED vars
  BY <1>1, <1>4 DEF vars, msgVars
<1>5. CASE Stop \/ \E answer \in {"approved", "denied"} : Confirm(answer)
  BY <1>1, <1>5 DEF Stop, Confirm, msgVars
<1>6. CASE Reported
  <2>1. pc' = next /\ next' = next /\ next # "model" /\ pc = "reporting"
    BY <1>6 DEF Reported, Goto, SentInv
  <2> QED
    BY <2>1 DEF SentInv
<1>7. CASE TabStep
  BY <1>3, <1>7 DEF TabStep, Begin, Announce, TabOpened, TabFailed, TabReady, Closed
<1>8. CASE LoopStep
  <2>1. CASE Iterate
    BY <1>2, <2>1 DEF Iterate, Goto
  <2>2. CASE ModelBusy
    BY <1>2, <2>2 DEF ModelBusy
  <2>3. CASE StoppedAtTop \/ LoopLeft \/ LogWritten \/ ModelThrows \/ ModelEmpty
    BY <1>3, <2>3 DEF StoppedAtTop, LoopLeft, LogWritten, ModelThrows, ModelEmpty
  <2>4. CASE AttemptBegins \/ ToolsDone
    BY <1>3, <2>4 DEF AttemptBegins, ToolsDone
  <2>5. ASSUME NEW n \in 0..MaxCalls, ModelAnswers(n) PROVE SentInv'
    BY <1>3, <2>5 DEF ModelAnswers
  <2> QED
    BY <1>8, <2>1, <2>2, <2>3, <2>4, <2>5 DEF LoopStep
<1>9. CASE ToolStep
  <2>1. CASE ArgumentsGarbled \/ StoppedAtTool \/ Plan \/ AskPermission
    BY <1>3, <2>1 DEF ArgumentsGarbled, StoppedAtTool, Plan, AskPermission
  <2>2. CASE ToolDone \/ ToolFails \/ AskThrows \/ Completed
    BY <1>3, <2>2 DEF ToolDone, ToolFails, AskThrows, Completed
  <2>3. ASSUME NEW t \in Tool, Act(t) PROVE SentInv'
    BY <1>3, <2>3 DEF Act
  <2> QED
    BY <1>9, <2>1, <2>2, <2>3 DEF ToolStep
<1>10. CASE PermissionStep
  BY <1>3, <1>10 DEF PermissionStep, AutoApproved, PermissionAsked, PermissionGiven,
                     PermissionDenied, PermissionTimedOut
<1> QED
  BY <1>4, <1>5, <1>6, <1>7, <1>8, <1>9, <1>10 DEF Next, AgentStep

(* Behind the last message that is no answer there are only answers to it, *)
(* and no more than it made calls.                                         *)
LEMMA LastSpoken ==
  ASSUME IInv, pc = "model"
  PROVE  LET last == SelectLastInSeq(messages, LAMBDA m : m.role # "tool") IN
         /\ last \in 1..Len(messages)
         /\ Len(messages) - last <= MaxCalls
<1> DEFINE I == {i \in 1..Len(messages) : messages[i].role # "tool"}
<1>1. /\ messages \in Seq(Message) /\ Len(messages) \in Nat \ {0}
      /\ \A i \in 1..Len(messages) : messages[i] \in Message
  BY LenProperties, ElementOfSeq, EmptySeq DEF IInv, TypeOK, CallsInv, AllBelong
<1>2. MaxCalls \in Nat \ {0}
  BY AgentAssumption
<1>3. PICK top \in I : /\ \A i \in I : top >= i
                       /\ Len(messages) - top <= MaxCalls
  <2> DEFINE n == Len(messages)
  <2>1. CASE messages[n].role # "tool"
    BY <1>1, <1>2, <2>1
  <2>2. CASE messages[n].role = "tool"
    <3> DEFINE at == messages[n].at
    <3>1. /\ at \in 1..n /\ n = at + messages[n].call
          /\ messages[at].role = "assistant" /\ messages[n].call <= messages[at].calls
      BY <1>1, <2>2 DEF IInv, CallsInv, AllBelong, Belongs
    <3>2. messages[n].call \in 1..MaxCalls /\ messages[at].calls \in 0..MaxCalls
      BY <1>1, <2>2, <3>1, MessageIs
    <3>3. Complete(at)
      BY <3>1 DEF IInv, CallsInv, CallsDone, Now
    <3>4. \A j \in (at + 1)..n : messages[j].role = "tool"
      <4> TAKE j \in (at + 1)..n
      <4> DEFINE call == messages[n].call
                 calls == messages[at].calls
      <4>1. j - at \in 1..calls /\ at + (j - at) = j
        <5>1. /\ at \in Nat /\ j \in Int /\ at + 1 <= j /\ j <= n
              /\ call \in Nat /\ calls \in Nat /\ n = at + call /\ call <= calls
          <6> HIDE DEF n, at
          <6>1. n \in Nat /\ at \in 1..n
            BY <3>1, <1>1 DEF n
          <6>2. call \in Nat /\ calls \in Nat
            BY <1>2, <3>2
          <6> QED
            BY <3>1, <6>1, <6>2
        <5> HIDE DEF n, at, call, calls
        <5> QED
          BY <5>1
      <4>2. messages[j] = AnswerTo(at, j - at)
        BY <3>1, <3>3, <4>1 DEF Complete
      <4> QED
        BY <4>2 DEF AnswerTo
    <3>5. at \in I /\ \A i \in I : at >= i
      BY <1>1, <3>1, <3>4
    <3>6. n - at <= MaxCalls
      BY <1>1, <1>2, <3>1, <3>2
    <3> QED
      BY <3>5, <3>6
  <2> QED
    BY <2>1, <2>2
<1>4. I # {} /\ I \subseteq Nat
  BY <1>1, <1>3
<1>5. Max(I) = top
  BY <1>3, <1>4 DEF Max
<1>6. SelectLastInSeq(messages, LAMBDA m : m.role # "tool") = Max(I)
  BY <1>4 DEF SelectLastInSeq
<1> QED
  BY <1>3, <1>5, <1>6

(* However much of the history is cut, the model gets the system prompt    *)
(* and the answers to all of its latest calls, if it makes no more calls   *)
(* at a time than the messages that are kept.                              *)
THEOREM LatestAnswersArrive == Spec => []LatestAnswersSent
<1>1. IInv /\ SentInv => LatestAnswersSent
  <2> DEFINE last == SelectLastInSeq(messages, LAMBDA m : m.role # "tool")
             rest == Tail(messages)
             fresh == SubSeq(messages, last + 1, Len(messages))
  <2> SUFFICES ASSUME IInv, SentInv, pc = "model", MaxCalls <= KeepFewer
               PROVE  /\ Head(sent) = Head(messages)
                      /\ ToSet(fresh) \subseteq ToSet(sent)
    BY DEF LatestAnswersSent
  <2>1. last \in 1..Len(messages) /\ Len(messages) - last <= MaxCalls
    BY LastSpoken
  <2>2. /\ messages \in Seq(Message) /\ Len(messages) \in Nat \ {0} /\ messages # <<>>
        /\ DOMAIN messages = 1..Len(messages)
    BY LenProperties, EmptySeq DEF IInv, TypeOK, CallsInv, AllBelong
  <2>3. PICK size \in Sizes : sent = Compacted(messages, size)
    BY DEF SentInv
  <2> HIDE DEF last
  <2>4. \A m \in ToSet(fresh) : \E j \in (last + 1)..Len(messages) : m = messages[j]
    <3>1. \A k \in 1..Len(fresh) : fresh[k] = messages[last + k]
      BY <2>1, <2>2, SubSeqProperties
    <3>2. /\ fresh \in Seq(Message) /\ Len(fresh) = Len(messages) - last
          /\ DOMAIN fresh = 1..Len(fresh)
      <4>1. last + 1 \in 1..(Len(messages) + 1) /\ Len(messages) \in Int
            /\ last + 1 \in Int /\ last \in Int /\ last <= Len(messages)
        BY <2>1, <2>2
      <4>2. fresh \in Seq(Message)
        BY <2>1, <2>2, <4>1, SubSeqProperties
      <4>3. Len(fresh) = Len(messages) - last
        <5>1. \A i \in (last + 1)..Len(messages) : messages[i] \in Message
          BY <2>1, <2>2, <4>1, ElementOfSeq
        <5>2. Len(fresh) = IF last + 1 <= Len(messages)
                           THEN Len(messages) - (last + 1) + 1 ELSE 0
          BY <4>1, <5>1, SubSeqProperties
        <5> DEFINE n == Len(messages)
                   many == Len(fresh)
        <5>3. n \in Nat /\ last \in Nat /\ last <= n
              /\ many = IF last + 1 <= n THEN n - (last + 1) + 1 ELSE 0
          BY <2>1, <2>2, <5>2
        <5> HIDE DEF n, many
        <5>4. many = n - last
          BY <5>3
        <5> QED
          BY <5>4 DEF n, many
      <4> HIDE DEF fresh
      <4> QED
        BY <4>2, <4>3, LenProperties
    <3> HIDE DEF fresh
    <3> QED
      BY <2>1, <2>2, <3>1, <3>2 DEF ToSet
  <2>5. CASE size = "small" \/ Len(rest) <= KeepRecent
    <3>1. sent = messages
      BY <2>3, <2>5 DEF Compacted
    <3> QED
      BY <2>1, <2>2, <2>4, <3>1 DEF ToSet
  <2>6. CASE ~(size = "small" \/ Len(rest) <= KeepRecent)
    <3> DEFINE kept == IF size = "large" THEN KeepRecent ELSE KeepFewer
               head == <<Head(messages), [role |-> "user"]>>
    <3>1. sent = head \o Latest(rest, kept)
      BY <2>3, <2>6 DEF Compacted
    <3>2. /\ KeepRecent \in Nat \ {0} /\ KeepFewer \in Nat \ {0}
          /\ KeepFewer < KeepRecent /\ MaxCalls \in Nat
      BY AgentAssumption
    <3>3. rest \in Seq(Message) /\ Len(rest) = Len(messages) - 1
          /\ \A k \in 1..Len(rest) : rest[k] = messages[k + 1]
      BY <2>2, HeadTailProperties
    <3>4. kept \in Nat \ {0} /\ MaxCalls <= kept /\ kept < Len(rest)
      BY <2>6, <3>2, <3>3, <2>2
    <3> HIDE DEF rest, kept
    <3>5. /\ Latest(rest, kept) \in Seq(Message) /\ Len(Latest(rest, kept)) = kept
          /\ \A k \in 1..kept : Latest(rest, kept)[k] = rest[Len(rest) - kept + k]
      BY <2>2, <3>3, <3>4, SubSeqProperties DEF Latest
    <3>6. head \in Seq(Message) /\ Len(head) = 2 /\ head[1] = Head(messages)
      BY <2>2, Messages, HeadTailProperties
    <3> HIDE DEF head
    <3> DEFINE tail == Latest(rest, kept)
    <3>7. /\ sent \in Seq(Message) /\ Len(sent) = 2 + kept
          /\ sent[1] = head[1]
          /\ \A k \in 1..kept : sent[2 + k] = tail[k]
      <4>1. tail \in Seq(Message) /\ Len(tail) = kept /\ sent = head \o tail
        BY <3>1, <3>5
      <4> HIDE DEF tail
      <4>2. sent \in Seq(Message) /\ Len(sent) = 2 + kept
        BY <3>4, <3>6, <4>1, ConcatProperties
      <4>3. \A i \in 1..(2 + kept) :
              sent[i] = IF i <= 2 THEN head[i] ELSE tail[i - 2]
        <5>1. \A i \in 1..(Len(head) + Len(tail)) :
                (head \o tail)[i] = IF i <= Len(head) THEN head[i] ELSE tail[i - Len(head)]
          BY <3>6, <4>1, ConcatProperties
        <5> QED
          BY <3>6, <4>1, <5>1
      <4>4. sent[1] = head[1]
        BY <3>4, <4>3
      <4>5. ASSUME NEW k \in 1..kept PROVE sent[2 + k] = tail[k]
        <5>1. 2 + k \in 1..(2 + kept) /\ ~(2 + k <= 2) /\ (2 + k) - 2 = k
          BY <3>4
        <5> QED
          BY <4>3, <5>1
      <4> QED
        BY <4>2, <4>4, <4>5
    <3>8. Head(sent) = Head(messages)
      BY <3>4, <3>6, <3>7, HeadTailProperties, EmptySeq
    <3>9. ASSUME NEW j \in (last + 1)..Len(messages)
          PROVE  messages[j] \in ToSet(sent)
      <4> DEFINE k == j - Len(messages) + kept
      <4>1. /\ k \in 1..kept /\ Len(rest) - kept + k = j - 1
            /\ j - 1 \in 1..Len(rest) /\ (j - 1) + 1 = j
        BY <2>1, <2>2, <3>2, <3>3, <3>4
      <4> HIDE DEF k
      <4>2. tail[k] = rest[j - 1]
        BY <3>5, <4>1
      <4>3. rest[j - 1] = messages[j]
        BY <3>3, <4>1
      <4>4. sent[2 + k] = messages[j]
        BY <3>7, <4>1, <4>2, <4>3
      <4>5. 2 + k \in DOMAIN sent
        BY <3>4, <3>7, <4>1, LenProperties
      <4> QED
        BY <4>4, <4>5 DEF ToSet
    <3> QED
      BY <2>4, <3>8, <3>9
  <2> QED
    BY <2>5, <2>6
<1>2. Init => SentInv
  BY DEF Init, SentInv
<1>3. SentInv /\ [Next]_vars => SentInv'
  BY SentInvNext
<1> QED
  BY <1>1, <1>2, <1>3, Invariance, PTL DEF Spec

(* Every yes is to one question, as long as the database fails no request  *)
(* and no poll that ends in a yes: of the requests of the task, however    *)
(* many it makes, gives up on, is stopped in or has answered late, only    *)
(* the latest can be pending and so be answered by /confirm, and what      *)
(* ask_permission took for answered yes stays answered so.                 *)
THEOREM OneYesServesOneQuestion == Spec => []OneYesPerQuestion
<1>1. Init => PermissionInv /\ QuestionInv
  BY DEF Init, PermissionInv, QuestionInv, Now
<1>2. IInv /\ PermissionInv /\ QuestionInv /\ [Next]_vars
        => PermissionInv' /\ QuestionInv'
  BY PermissionInvNext, QuestionInvNext
<1>3. IInv /\ PermissionInv /\ QuestionInv => OneYesPerQuestion
  BY Requests
     DEF PermissionInv, QuestionInv, OneYesPerQuestion, Now, Waiting, Ended, Busy, Places
<1> QED
  BY <1>1, <1>2, <1>3, Invariance, PTL DEF Spec
---------------------------------------------------------------------------
(***************************************************************************)
(* The agent runs down: what each of its steps takes something of.  First  *)
(* how much of the run is ahead: the tab, the two attempts, the end; then  *)
(* the iterations left, where in an iteration the agent is, what is left   *)
(* to try or to carry out there, and how far the call at hand is.          *)
(***************************************************************************)
OpeningTab == {"begin", "announce", "opening", "opened", "planning"}
InCalls == {"tools", "acting", "asking", "reviewing"}

Phase == IF Now \in OpeningTab THEN 3
         ELSE IF Now \in {"closing", "closed"} THEN 0 ELSE 2 - attempt

Turns == MaxIterations - iterations

PlaceRank ==
  CASE Now = "begin" -> 5
    [] Now \in {"announce", "model"} -> 4
    [] Now \in InCalls \cup {"opening"} -> 3
    [] Now \in {"opened", "top"} -> 2
    [] Now \in {"planning", "ending", "closing"} -> 1
    [] OTHER -> 0

Tries == IF Now = "model" THEN MaxRetries - retries ELSE IF Now \in InCalls THEN todo ELSE 0

CallRank ==
  CASE Now = "tools" -> 3 [] Now = "acting" -> 2 [] Now \in {"asking", "reviewing"} -> 1
    [] OTHER -> 0

ReportRank == IF pc = "reporting" THEN 1 ELSE 0

Variant == <<Phase, Turns, PlaceRank, Tries, CallRank, ReportRank>>

(* The first of these that changes gets less.                              *)
Lower ==
  \/ Phase' < Phase
  \/ /\ Phase' = Phase
     /\ \/ Turns' < Turns
        \/ /\ Turns' = Turns
           /\ \/ PlaceRank' < PlaceRank
              \/ /\ PlaceRank' = PlaceRank
                 /\ \/ Tries' < Tries
                    \/ /\ Tries' = Tries
                       /\ \/ CallRank' < CallRank
                          \/ CallRank' = CallRank /\ ReportRank' < ReportRank

LEMMA RanksAreNumbers ==
  ASSUME IInv
  PROVE  {Phase, Turns, PlaceRank, Tries, CallRank, ReportRank} \subseteq Nat
<1>1. /\ attempt \in 0..1 /\ iterations \in 0..MaxIterations /\ retries \in 0..MaxRetries
      /\ todo \in 0..MaxCalls /\ {MaxIterations, MaxRetries, MaxCalls} \subseteq Nat
  BY AgentAssumption DEF IInv, TypeOK
<1>2. Phase \in Nat /\ Turns \in Nat
  BY <1>1 DEF Phase, Turns
<1>3. PlaceRank \in Nat
  BY DEF PlaceRank
<1>4. Tries \in Nat
  BY <1>1 DEF Tries
<1>5. CallRank \in Nat /\ ReportRank \in Nat
  BY DEF CallRank, ReportRank
<1> QED
  BY <1>2, <1>3, <1>4, <1>5

(* Steps from one place to another, that touch no counter.                 *)
LEMMA Onward ==
  ASSUME IInv, NEW place \in Places, Goto(place) \/ Report(place), pc # "reporting",
         UNCHANGED <<attempt, iterations, retries, todo>>,
         \/ pc \in OpeningTab /\ place \in {"closing", "top"} \ {pc}
         \/ pc \in Places \ {"closing", "closed"} /\ place \in {"closing"}
         \/ pc = "begin" /\ place = "announce"
         \/ pc = "announce" /\ place = "opening"
         \/ pc = "opening" /\ place = "opened"
         \/ pc = "opened" /\ place = "planning"
         \/ pc = "closing" /\ place = "closed"
         \/ pc = "top" /\ place = "ending"
         \/ pc = "ending" /\ place = "retrying"
         \/ pc = "tools" /\ place = "acting"
         \/ pc = "acting" /\ place \in {"asking", "reviewing"}
  PROVE  Lower
<1>1. Now = pc /\ Now' = place /\ attempt \in 0..1
  BY MovesTo DEF Now, IInv, TypeOK
<1>2. Turns' = Turns
  BY DEF Turns
<1>3. CASE Phase' < Phase
  BY <1>3 DEF Lower
<1>4. CASE Phase' = Phase /\ PlaceRank' < PlaceRank
  BY <1>2, <1>4 DEF Lower
<1>5. CASE Phase' = Phase /\ PlaceRank' = PlaceRank /\ Tries' = Tries /\ CallRank' < CallRank
  BY <1>2, <1>5 DEF Lower
<1>6. CASE pc \in Places \ {"closing", "closed"} /\ place = "closing"
  BY <1>1, <1>3, <1>6 DEF Phase, OpeningTab, Places
<1>7. CASE pc \in OpeningTab /\ place = "top"
  BY <1>1, <1>3, <1>7 DEF Phase, OpeningTab
<1>8. CASE \/ pc = "begin" /\ place = "announce"
           \/ pc = "announce" /\ place = "opening"
           \/ pc = "opening" /\ place = "opened"
           \/ pc = "opened" /\ place = "planning"
           \/ pc = "closing" /\ place = "closed"
           \/ pc = "top" /\ place = "ending"
           \/ pc = "ending" /\ place = "retrying"
  BY <1>1, <1>4, <1>8 DEF Phase, PlaceRank, OpeningTab, InCalls
<1>9. CASE \/ pc = "tools" /\ place = "acting"
           \/ pc = "acting" /\ place \in {"asking", "reviewing"}
  BY <1>1, <1>5, <1>9 DEF Phase, PlaceRank, Tries, CallRank, OpeningTab, InCalls
<1> QED
  BY <1>6, <1>7, <1>8, <1>9 DEF OpeningTab, Places

LEMMA ReportRunsDown ==
  ASSUME IInv, Reported
  PROVE  Lower
<1>1. Now' = Now /\ UNCHANGED <<attempt, iterations, retries, todo>> /\ pc = "reporting"
      /\ pc' # "reporting"
  BY DEF Reported, Goto, Now, loopVars, IInv, TypeOK, Places
<1>2. /\ Phase' = Phase /\ Turns' = Turns /\ PlaceRank' = PlaceRank /\ Tries' = Tries
      /\ CallRank' = CallRank /\ ReportRank' < ReportRank
  BY <1>1 DEF Phase, Turns, PlaceRank, Tries, CallRank, ReportRank
<1> QED
  BY <1>2 DEF Lower

LEMMA TabRunsDown ==
  ASSUME IInv, TabStep
  PROVE  Lower
  BY Onward DEF TabStep, Begin, Announce, TabOpened, TabFailed, TabReady, Closed, Quietly, loopVars,
     Places, OpeningTab

(* To the end from anywhere, whatever the counters are.                    *)
LEMMA LeavingRunsDown ==
  ASSUME IInv, Now \notin {"closing", "closed"}, Goto("closing")
  PROVE  Lower
<1>1. attempt \in 0..1 /\ Now' = "closing"
  BY DEF IInv, TypeOK, Goto, Now
<1>2. Phase' = 0 /\ Phase > 0
  BY <1>1 DEF Phase, OpeningTab
<1> QED
  BY <1>2 DEF Lower

LEMMA LoopRunsDown ==
  ASSUME IInv, LoopStep
  PROVE  Lower
<1>1. /\ attempt \in 0..1 /\ iterations \in 0..MaxIterations /\ retries \in 0..MaxRetries
      /\ MaxIterations \in Nat /\ MaxRetries \in Nat
  BY AgentAssumption DEF IInv, TypeOK
<1>2. CASE StoppedAtTop \/ ModelThrows \/ ModelEmpty
  <2>1. Goto("closing") /\ Now \notin {"closing", "closed"}
    BY <1>2 DEF StoppedAtTop, ModelThrows, ModelEmpty, Now
  <2> QED
    BY <2>1, LeavingRunsDown
<1>3. CASE LoopLeft
  BY <1>3, Onward DEF LoopLeft, Quietly, loopVars, Places
<1>4. CASE LogWritten
  <2>1. pc = "ending" /\ Now = "ending" /\ UNCHANGED <<attempt, iterations, retries, todo>>
    BY <1>4 DEF LogWritten, Quietly, loopVars, Now
  <2>2. CASE shouldRetry /\ attempt = 0
    BY <1>4, <2>1, <2>2, Onward DEF LogWritten, Places
  <2>3. CASE ~(shouldRetry /\ attempt = 0)
    BY <1>4, <2>1, <2>3, LeavingRunsDown DEF LogWritten
  <2> QED
    BY <2>2, <2>3
<1>5. CASE Iterate
  <2>1. /\ Now = "top" /\ Now' = "model" /\ UNCHANGED attempt
        /\ iterations' = iterations + 1
    BY <1>5 DEF Iterate, Goto, Now
  <2>2. Phase' = Phase /\ Turns' < Turns
    BY <1>1, <2>1 DEF Phase, Turns, OpeningTab
  <2> QED
    BY <2>2 DEF Lower
<1>6. CASE ModelBusy
  <2>1. /\ Now = "model" /\ Now' = "model" /\ UNCHANGED <<attempt, iterations>>
        /\ retries' = retries + 1
    BY <1>6 DEF ModelBusy, CountRetry, Now
  <2>2. Phase' = Phase /\ Turns' = Turns /\ PlaceRank' = PlaceRank /\ Tries' < Tries
    BY <1>1, <2>1 DEF Phase, Turns, PlaceRank, Tries, OpeningTab, InCalls
  <2> QED
    BY <2>2 DEF Lower
<1>7. CASE ToolsDone \/ \E n \in 0..MaxCalls : ModelAnswers(n)
  <2>1. /\ \/ Now = "model" /\ Now' \in {"top", "tools"}
           \/ Now = "tools" /\ Now' \in {"ending", "top"}
        /\ UNCHANGED <<attempt, iterations>>
    BY <1>7 DEF ToolsDone, ModelAnswers, Goto, Now, loopVars
  <2>2. Phase' = Phase /\ Turns' = Turns /\ PlaceRank' < PlaceRank
    BY <2>1 DEF Phase, Turns, PlaceRank, OpeningTab, InCalls
  <2> QED
    BY <2>2 DEF Lower
<1>8. CASE AttemptBegins
  <2>1. /\ Now' = "top"
        /\ \/ Now = "planning" /\ UNCHANGED attempt
           \/ Now = "retrying" /\ attempt' = attempt + 1 /\ attempt = 0
    BY <1>8 DEF AttemptBegins, Goto, Now, IInv, CallsInv, Once
  <2>2. Phase' < Phase
    BY <1>1, <2>1 DEF Phase, OpeningTab
  <2> QED
    BY <2>2 DEF Lower
<1> QED
  BY <1>2, <1>3, <1>4, <1>5, <1>6, <1>7, <1>8 DEF LoopStep

(* The call at hand is answered: there is one less to carry out.           *)
LEMMA AnsweringRunsDown ==
  ASSUME IInv, Answer, Now' = "tools", UNCHANGED <<attempt, iterations>>,
         Now \in {"acting", "asking", "reviewing"} \/ CallDue
  PROVE  Lower
<1>1. Now \in InCalls
  BY DEF CallDue, Now, InCalls
<1>3. todo \in 1..MaxCalls /\ todo' = todo - 1 /\ MaxCalls \in Nat
  BY <1>1, AnswerIs, AgentAssumption DEF IInv, Carrying, InCalls
<1>2. Phase' = Phase /\ Turns' = Turns /\ PlaceRank' = PlaceRank /\ Tries' < Tries
  BY <1>1, <1>3 DEF Phase, Turns, PlaceRank, Tries, OpeningTab, InCalls
<1> QED
  BY <1>2 DEF Lower

LEMMA ToolRunsDown ==
  ASSUME IInv, ToolStep
  PROVE  Lower
<1>1. CallDue => Now = "tools" /\ pc = "tools"
  BY DEF CallDue, Now
(* A call begins, or the agent gives up.                                   *)
<1>2. ASSUME CallDue, Goto("acting") \/ Report("acting") \/ Goto("closing"),
             UNCHANGED <<attempt, iterations, retries, todo>>
      PROVE  Lower
  <2>1. CASE Goto("closing")
    BY <1>1, <1>2, <2>1, LeavingRunsDown
  <2>2. CASE Goto("acting") \/ Report("acting")
    BY <1>1, <1>2, <2>2, Onward DEF Places
  <2> QED
    BY <1>2, <2>1, <2>2
<1>3. CASE ArgumentsGarbled \/ StoppedAtTool \/ Plan \/ AskPermission
           \/ \E t \in Tool : Act(t)
  <2>1. /\ CallDue /\ UNCHANGED <<attempt, iterations, retries, todo>>
        /\ Goto("acting") \/ Report("acting") \/ Goto("closing")
    BY <1>3 DEF ArgumentsGarbled, StoppedAtTool, Plan, AskPermission, Act, CallOf, Quietly, loopVars
  <2> QED
    BY <1>2, <2>1
<1>4. CASE ToolDone \/ ToolFails \/ AskThrows
  <2>1. /\ Now = "acting" \/ CallDue
        /\ Answer /\ UNCHANGED <<attempt, iterations>>
        /\ Goto("tools") \/ Report("tools")
    BY <1>4 DEF ToolDone, ToolFails, AskThrows, CallOf, Now, loopVars
  <2>2. Now' = "tools"
    BY <2>1, MovesTo DEF IInv, TypeOK, Places
  <2> QED
    BY <2>1, <2>2, AnsweringRunsDown
<1>5. CASE Completed
  BY <1>5, LeavingRunsDown DEF Completed, Now
<1> QED
  BY <1>3, <1>4, <1>5 DEF ToolStep

LEMMA PermissionRunsDown ==
  ASSUME IInv, PermissionStep
  PROVE  Lower
<1>1. CASE AutoApproved \/ PermissionGiven
  <2>1. /\ Now \in {"acting", "asking", "reviewing"} /\ Now' = "tools" /\ Answer
        /\ UNCHANGED <<attempt, iterations>>
    BY <1>1 DEF AutoApproved, PermissionGiven, MustAsk, Goto, Now, loopVars
  <2> QED
    BY <2>1, AnsweringRunsDown
<1>2. CASE PermissionAsked
  BY <1>2, Onward DEF PermissionAsked, MustAsk, Places, loopVars
<1>3. CASE PermissionDenied \/ PermissionTimedOut
  BY <1>3, LeavingRunsDown DEF PermissionDenied, PermissionTimedOut, Now
<1> QED
  BY <1>1, <1>2, <1>3 DEF PermissionStep

LEMMA StepRunsDown ==
  ASSUME IInv, AgentStep
  PROVE  Lower
  BY ReportRunsDown, TabRunsDown, LoopRunsDown, ToolRunsDown, PermissionRunsDown DEF AgentStep

(* What the user does, and what changes nothing of the agent, adds nothing *)
(* to what is ahead.                                                       *)
LEMMA OthersLeave ==
  ASSUME [Next]_vars, ~AgentStep
  PROVE  UNCHANGED Variant
<1>1. UNCHANGED <<pc, next, attempt, iterations, retries, todo>>
  BY DEF Next, Stop, Confirm, vars, loopVars
<1>2. Now' = Now
  BY <1>1 DEF Now
<1> QED
  BY <1>1, <1>2 DEF Variant, Phase, Turns, PlaceRank, Tries, CallRank, ReportRank

(* The order of the numbers ahead, as of the words of a dictionary: there  *)
(* is no run of the agent in which they get less without end.              *)
Amounts == [1..6 -> Nat]

Less == OpToRel(<, Nat)

Below == LexProductOrdering(Less, Nat, 6)

LEMMA LessIs ==
  ASSUME NEW m \in Nat, NEW n \in Nat
  PROVE  <<m, n>> \in Less <=> m < n
  BY DEF Less, OpToRel

THEOREM NoEndlessDescent == IsWellFoundedOn(Below, Amounts)
<1>1. IsWellFoundedOn(Less, Nat)
  BY NatLessThanWellFounded DEF Less
<1> QED
  BY <1>1, WFLexProductOrdering DEF Below, Amounts

LEMMA LowerIsBelow ==
  ASSUME IInv, IInv', Lower
  PROVE  <<Variant', Variant>> \in Below
<1>1. /\ {Phase, Turns, PlaceRank, Tries, CallRank, ReportRank} \subseteq Nat
      /\ {Phase', Turns', PlaceRank', Tries', CallRank', ReportRank'} \subseteq Nat
  <2>1. {Phase, Turns, PlaceRank, Tries, CallRank, ReportRank} \subseteq Nat
    BY RanksAreNumbers
  <2>2. ({Phase, Turns, PlaceRank, Tries, CallRank, ReportRank} \subseteq Nat)'
    BY RanksAreNumbers, PTL
  <2> QED
    BY <2>1, <2>2
<1> DEFINE a == Variant'
           b == Variant
<1>2. a \in Amounts /\ b \in Amounts
  BY <1>1 DEF Amounts, Variant
<1>3. /\ a[1] = Phase' /\ a[2] = Turns' /\ a[3] = PlaceRank' /\ a[4] = Tries'
      /\ a[5] = CallRank' /\ a[6] = ReportRank'
      /\ b[1] = Phase /\ b[2] = Turns /\ b[3] = PlaceRank /\ b[4] = Tries
      /\ b[5] = CallRank /\ b[6] = ReportRank
  BY DEF Variant
<1> HIDE DEF a, b
<1>4. \E j \in 1..6 : (\A i \in 1..(j - 1) : a[i] = b[i]) /\ a[j] < b[j]
  <2>1. CASE a[1] < b[1]
    BY <2>1
  <2>2. CASE a[1] = b[1] /\ a[2] < b[2]
    BY <2>2
  <2>3. CASE a[1] = b[1] /\ a[2] = b[2] /\ a[3] < b[3]
    BY <2>3
  <2>4. CASE a[1] = b[1] /\ a[2] = b[2] /\ a[3] = b[3] /\ a[4] < b[4]
    BY <2>4
  <2>5. CASE a[1] = b[1] /\ a[2] = b[2] /\ a[3] = b[3] /\ a[4] = b[4] /\ a[5] < b[5]
    BY <2>5
  <2>6. CASE /\ a[1] = b[1] /\ a[2] = b[2] /\ a[3] = b[3] /\ a[4] = b[4]
             /\ a[5] = b[5] /\ a[6] < b[6]
    BY <2>6
  <2> QED
    BY <1>3, <2>1, <2>2, <2>3, <2>4, <2>5, <2>6 DEF Lower
<1>5. \E j \in 1..6 : (\A i \in 1..(j - 1) : a[i] = b[i]) /\ <<a[j], b[j]>> \in Less
  <2>1. \A j \in 1..6 : a[j] \in Nat /\ b[j] \in Nat
    BY <1>2 DEF Amounts
  <2> QED
    BY <1>4, <2>1, LessIs
<1>6. <<a, b>> \in Below
  BY <1>2, <1>5 DEF Below, LexProductOrdering, Amounts
<1> QED
  BY <1>6 DEF a, b

(* Every step of the agent takes something of what is ahead of it, in an   *)
(* order in which that cannot go on without end, and nothing else adds to  *)
(* it: a second attempt, a 429, a call that fails and a question to the    *)
(* user bring the loop of runAgentLoop nearer to its end, for any number   *)
(* of iterations, attempts to reach the model and calls.                   *)
RunsDown == [][\/ AgentStep /\ <<Variant', Variant>> \in Below
               \/ ~AgentStep /\ UNCHANGED Variant]_vars

THEOREM AgentRunsDown == Spec => RunsDown
<1>1. IInv /\ IInv' /\ [Next]_vars
        => \/ AgentStep /\ <<Variant', Variant>> \in Below
           \/ ~AgentStep /\ UNCHANGED Variant
  BY StepRunsDown, LowerIsBelow, OthersLeave
<1> QED
  BY <1>1, Invariance, PTL DEF Spec, RunsDown

(* So the agent, if it is scheduled, ends from any point or comes to one   *)
(* with less ahead of it.  That it can take a step until it has ended is a *)
(* fact about ENABLED that TLC is asked for and the provers are given.     *)
CanStep == pc # "closed" => ENABLED <<AgentStep>>_vars

GetsOn(v) == (pc # "closed" /\ Variant = v)
               ~> (pc = "closed" \/ <<Variant, v>> \in Below)

LEMMA AgentGetsOn ==
  ASSUME NEW v
  PROVE  Spec /\ WF_vars(AgentStep) /\ []CanStep => GetsOn(v)
<1> DEFINE There == pc # "closed" /\ Variant = v
           Further == pc = "closed" \/ <<Variant, v>> \in Below
<1>1. IInv /\ IInv' /\ There /\ [Next]_vars => There' \/ Further'
  <2> SUFFICES ASSUME IInv, IInv', There, [Next]_vars PROVE There' \/ Further'
    OBVIOUS
  <2>1. CASE AgentStep
    BY <2>1, StepRunsDown, LowerIsBelow
  <2>2. CASE ~AgentStep
    BY <2>2, OthersLeave
  <2> QED
    BY <2>1, <2>2
<1>2. IInv /\ IInv' /\ There /\ <<AgentStep>>_vars => Further'
  <2> SUFFICES ASSUME IInv, IInv', There, AgentStep PROVE Further'
    OBVIOUS
  <2> QED
    BY StepRunsDown, LowerIsBelow
<1>3. There /\ CanStep => ENABLED <<AgentStep>>_vars
  BY DEF CanStep
<1>4. []IInv /\ [][Next]_vars /\ WF_vars(AgentStep) /\ []CanStep => (There ~> Further)
  BY <1>1, <1>2, <1>3, PTL
<1> QED
  BY <1>4, Invariance, PTL DEF Spec, GetsOn

THEOREM AgentKeepsRunningDown == FairSpec /\ []CanStep => \A v \in Amounts : GetsOn(v)
<1> SUFFICES ASSUME NEW v \in Amounts
             PROVE  FairSpec /\ []CanStep => GetsOn(v)
  OBVIOUS
<1> QED
  BY AgentGetsOn, PTL DEF FairSpec

==============================================================================

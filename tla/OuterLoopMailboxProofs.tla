----------------------- MODULE OuterLoopMailboxProofs -----------------------
(***************************************************************************)
(* Proofs about the mailbox of the OLP-MCP servers, for any number of        *)
(* servers and questions, any quota and any number of faults.               *)
(***************************************************************************)
EXTENDS OuterLoopMailbox, TLAPS

(* The count is twice the questions asked, so that it stops them at half of  *)
(* the quota; nothing else moves either of them but a new process.          *)
CountIsDouble ==
    /\ count \in [Servers -> Nat] /\ dispatched \in [Servers -> Nat]
    /\ \A s \in Servers : count[s] = 2 * dispatched[s] /\ count[s] <= Quota + 1

-----------------------------------------------------------------------------
(* What a server holds of the question it waits on. From the moment it has   *)
(* read the answer until it removes it, the answer is whole; what it removes *)
(* is archived, unless that very write failed; and the exchange is open      *)
(* until the caller is told.                                                *)
Serving(s) ==
    /\ pc[s] \in {"archive", "dropQuestion", "dropAnswer"} => Answered(s)
    /\ pc[s] \in {"dropQuestion", "dropAnswer", "reply"} =>
           /\ current[s] \in given
           /\ current[s] \in consumed \cup unarchived
    /\ pc[s] \in {"dropAnswer", "reply"} =>
           current[s] \notin questions \/ current[s] \in unremoved
    /\ current[s] # NoAsk => current[s] <= asked /\ outcome[current[s]] = "open"

(* No two servers wait on one question.                                     *)
Exclusive ==
    \A s, t \in Servers : s # t /\ current[s] = current[t] => current[s] = NoAsk

(* The files, the answers and the outcomes belong to questions asked.       *)
Filed ==
    \A i \in Ids :
        /\ answers[i] = "whole" => i \in given
        /\ answers[i] # "none" => i \in written
        /\ i > asked => outcome[i] = "none"

Shape == TypeOK /\ CountIsDouble /\ Filed /\ Exclusive /\ \A s \in Servers : Serving(s)

Inv == Shape /\ MailboxKept

LEMMA InitInv == Init => Inv
  BY MailboxAssumption
     DEF Init, Inv, Shape, TypeOK, ProcTypes, CountTypes, FileTypes, CountIsDouble, Filed, Exclusive,
         Serving, MailboxKept, Answered, AnswerKept, QuestionKept, PairTaken, Ids, NoAsk

(* What the proofs of the steps need of the types.                          *)
LEMMA Types ==
    ASSUME ProcTypes, FileTypes
    PROVE  /\ asked \in Nat /\ faults \in Nat
           /\ \A i \in Ids : i \in Nat /\ i # NoAsk
           /\ 1..asked \subseteq Ids /\ NoAsk \notin 1..asked
           /\ current \in [Servers -> {NoAsk} \cup Ids]
           /\ \A s \in Servers : current[s] # NoAsk => current[s] \in Ids
           /\ \A s \in Servers : pc[s] \notin {"down", "idle"} => current[s] \in Ids
           /\ \A s \in Servers : pc[s] \in {"down", "idle"} => current[s] = NoAsk
           /\ questions \subseteq written /\ written \subseteq Ids /\ given \subseteq Ids
           /\ pc \in [Servers -> {"down", "idle", "check", "read", "archive",
                                  "dropQuestion", "dropAnswer", "reply"}]
           /\ answers \in [Ids -> {"none", "partial", "whole"}]
           /\ outcome \in [Ids -> {"none", "open", "answered", "degraded", "killed"}]
  <1>1. asked \in Nat /\ faults \in Nat /\ 1..asked \subseteq Ids
    BY MailboxAssumption DEF FileTypes, Ids
  <1>2. \A i \in Ids : i \in Nat /\ i # NoAsk
    BY DEF Ids, NoAsk
  <1>3. questions \subseteq written /\ written \subseteq Ids /\ given \subseteq Ids
    BY <1>1 DEF FileTypes
  <1>4. /\ answers \in [Ids -> {"none", "partial", "whole"}]
        /\ outcome \in [Ids -> {"none", "open", "answered", "degraded", "killed"}]
    BY DEF FileTypes
  <1> QED BY <1>1, <1>2, <1>3, <1>4 DEF ProcTypes, NoAsk

LEMMA CountStep == CountIsDouble => CountTypes
  BY MailboxAssumption DEF CountIsDouble, CountTypes

LEMMA CountKept == CountIsDouble /\ [Next]_vars => CountIsDouble'
  <1> USE MailboxAssumption
  <1> SUFFICES ASSUME CountIsDouble, [Next]_vars PROVE CountIsDouble'
    OBVIOUS
  <1> USE DEF CountIsDouble
  <1>1. ASSUME NEW s \in Servers, Starts(s) PROVE CountIsDouble'
    BY <1>1 DEF Starts
  <1>2. ASSUME NEW s \in Servers, Asks(s) PROVE CountIsDouble'
    <2>1. count' = [count EXCEPT ![s] = @ + 2] /\ count[s] < Quota
      BY <1>2 DEF Asks
    <2>2. dispatched' = [dispatched EXCEPT ![s] = @ + 1]
      BY <1>2 DEF Asks
    <2> QED BY <2>1, <2>2
  <1>3. ASSUME NEW s \in Servers,
               \/ Ends(s) \/ Killed(s) \/ Refuses(s) \/ DeadlinePasses(s) \/ Waits(s)
        PROVE  UNCHANGED <<count, dispatched>>
    BY <1>3 DEF Ends, Killed, Refuses, DeadlinePasses, Waits, Checks, Reads, Archives,
                DropsQuestion, DropsAnswer, Replies, Degrades, Told
  <1>4. ASSUME NEW i \in Ids, BeginsAnswer(i) \/ FinishesAnswer(i)
        PROVE  UNCHANGED <<count, dispatched>>
    BY <1>4 DEF BeginsAnswer, FinishesAnswer, procVars
  <1>5. UNCHANGED vars => UNCHANGED <<count, dispatched>>
    BY DEF vars, procVars
  <1>6. UNCHANGED <<count, dispatched>> => CountIsDouble'
    OBVIOUS
  <1> QED BY <1>1, <1>2, <1>3, <1>4, <1>5, <1>6 DEF Next

LEMMA StepInv == Inv /\ [Next]_vars => Inv'
  <1> SUFFICES ASSUME Inv, [Next]_vars PROVE Inv'
    OBVIOUS
  <1> USE DEF Inv, Shape
  <1>c. CountIsDouble' /\ CountTypes'
    <2>1. CountIsDouble'
      BY CountKept
    <2>2. CountIsDouble' => CountTypes'
      BY CountStep, PTL
    <2> QED BY <2>1, <2>2
  <1>t. ProcTypes /\ FileTypes
    BY DEF TypeOK
  <1> USE <1>t, Types
  <1>1. ASSUME NEW s \in Servers, Starts(s) PROVE Inv'
    <2> USE <1>1 DEF Starts, fileVars, failVars, Goes
    <2>1. ProcTypes'
      BY DEF ProcTypes
    <2>2. FileTypes'
      BY DEF FileTypes, Filed, Serving, Answered
    <2>3. Filed' /\ Exclusive'
      BY DEF Filed, Exclusive, Serving
    <2>4. ASSUME NEW t \in Servers PROVE Serving(t)'
      BY <2>4 DEF Serving, Exclusive, Filed, Answered
    <2>5. QuestionKept' /\ PairTaken'
      BY DEF MailboxKept, QuestionKept, PairTaken, Serving, Filed
    <2>6. AnswerKept'
      BY DEF MailboxKept, AnswerKept, Serving
    <2> QED BY <1>c, <2>1, <2>2, <2>3, <2>4, <2>5, <2>6 DEF MailboxKept, TypeOK
  <1>2. ASSUME NEW s \in Servers, Ends(s) PROVE Inv'
    <2> USE <1>2 DEF Ends, fileVars, failVars, Goes
    <2>1. ProcTypes'
      BY DEF ProcTypes
    <2>2. FileTypes'
      BY DEF FileTypes, Filed, Serving, Answered
    <2>3. Filed' /\ Exclusive'
      BY DEF Filed, Exclusive, Serving
    <2>4. ASSUME NEW t \in Servers PROVE Serving(t)'
      BY <2>4 DEF Serving, Exclusive, Filed, Answered
    <2>5. QuestionKept' /\ PairTaken'
      BY DEF MailboxKept, QuestionKept, PairTaken, Serving, Filed
    <2>6. AnswerKept'
      BY DEF MailboxKept, AnswerKept, Serving
    <2> QED BY <1>c, <2>1, <2>2, <2>3, <2>4, <2>5, <2>6 DEF MailboxKept, TypeOK
  <1>3. ASSUME NEW s \in Servers, Killed(s) PROVE Inv'
    <2> USE <1>3 DEF Killed, Fault, fileVars, failVars, Goes
    <2>1. ProcTypes'
      BY DEF ProcTypes
    <2>2. FileTypes'
      BY MailboxAssumption DEF FileTypes, Filed, Serving, Answered
    <2>3. Filed' /\ Exclusive'
      BY DEF Filed, Exclusive, Serving
    <2>4. ASSUME NEW t \in Servers PROVE Serving(t)'
      BY <2>4 DEF Serving, Exclusive, Filed, Answered
    <2>5. QuestionKept' /\ PairTaken'
      BY DEF MailboxKept, QuestionKept, PairTaken, Serving, Filed
    <2>6. AnswerKept'
      BY DEF MailboxKept, AnswerKept, Serving
    <2> QED BY <1>c, <2>1, <2>2, <2>3, <2>4, <2>5, <2>6 DEF MailboxKept, TypeOK
  <1>4. ASSUME NEW s \in Servers, Asks(s) PROVE Inv'
    <2> USE <1>4 DEF Asks, NoFault, Fault, Goes, failVars
    <2>0. /\ asked + 1 \in Ids /\ asked + 1 # NoAsk /\ asked + 1 \notin 1..asked
          /\ \A t \in Servers : current[t] # asked + 1
          /\ asked + 1 \notin written /\ faults' >= faults /\ faults' \in 0..MaxFaults
      <3>1. asked + 1 \in Ids /\ asked + 1 # NoAsk /\ asked + 1 \notin 1..asked
        BY MailboxAssumption DEF Ids, NoAsk
      <3>2. \A t \in Servers : current[t] # asked + 1
        BY <3>1 DEF Serving
      <3>3. asked + 1 \notin written
        BY <3>1 DEF FileTypes
      <3>4. faults' >= faults /\ faults' \in 0..MaxFaults
        BY MailboxAssumption DEF FileTypes
      <3> QED BY <3>1, <3>2, <3>3, <3>4
    <2>1. ProcTypes'
      BY <2>0 DEF ProcTypes
    <2>2. FileTypes'
      <3>1. 1..asked \subseteq 1..asked' /\ asked + 1 \in 1..asked' /\ asked' \in 0..MaxAsks
        BY MailboxAssumption DEF FileTypes
      <3>2. outcome' \in [Ids -> {"none", "open", "answered", "degraded", "killed"}]
        OBVIOUS
      <3>3. /\ questions' \subseteq written' /\ written' \subseteq 1..asked'
            /\ consumed' \subseteq given' /\ given' \subseteq written'
        BY <3>1 DEF FileTypes
      <3> QED BY <2>0, <3>1, <3>2, <3>3 DEF FileTypes
    <2>3. Filed' /\ Exclusive'
      BY <2>0 DEF Filed, Exclusive, Serving
    <2>4. ASSUME NEW t \in Servers PROVE Serving(t)'
      <3>1. CASE t = s
        BY <2>0, <3>1 DEF Serving, ProcTypes
      <3>2. CASE t # s
        BY <2>0, <2>4, <3>2 DEF Serving, Answered, FileTypes
      <3> QED BY <3>1, <3>2
    <2>5. QuestionKept' /\ PairTaken'
      BY <2>0 DEF MailboxKept, QuestionKept, PairTaken
    <2>6. AnswerKept'
      <3> SUFFICES ASSUME NEW i \in given
                   PROVE  \/ answers[i] = "whole" \/ i \in consumed \/ outcome'[i] = "answered"
                          \/ \E t \in Servers : current'[t] = i /\ pc'[t] = "reply"
                          \/ i \in unarchived /\ outcome'[i] = "killed"
        BY DEF AnswerKept, failVars
      <3>1. i # asked + 1
        BY <2>0 DEF FileTypes
      <3> QED BY <3>1 DEF MailboxKept, AnswerKept
    <2> QED BY <1>c, <2>1, <2>2, <2>3, <2>4, <2>5, <2>6 DEF MailboxKept, TypeOK
  <1>5. ASSUME NEW s \in Servers, Refuses(s) PROVE Inv'
    <2> USE <1>5 DEF Refuses, fileVars, failVars, Goes
    <2>1. ProcTypes'
      BY DEF ProcTypes
    <2>2. FileTypes'
      BY DEF FileTypes, Filed, Serving, Answered
    <2>3. Filed' /\ Exclusive'
      BY DEF Filed, Exclusive, Serving
    <2>4. ASSUME NEW t \in Servers PROVE Serving(t)'
      BY <2>4 DEF Serving, Exclusive, Filed, Answered
    <2>5. QuestionKept' /\ PairTaken'
      BY DEF MailboxKept, QuestionKept, PairTaken, Serving, Filed
    <2>6. AnswerKept'
      BY DEF MailboxKept, AnswerKept, Serving
    <2> QED BY <1>c, <2>1, <2>2, <2>3, <2>4, <2>5, <2>6 DEF MailboxKept, TypeOK
  <1>6. ASSUME NEW s \in Servers, DeadlinePasses(s) PROVE Inv'
    <2> USE <1>6 DEF DeadlinePasses, fileVars, failVars, Goes
    <2>1. ProcTypes'
      BY DEF ProcTypes
    <2>2. FileTypes'
      BY DEF FileTypes, Filed, Serving, Answered
    <2>3. Filed' /\ Exclusive'
      BY DEF Filed, Exclusive, Serving
    <2>4. ASSUME NEW t \in Servers PROVE Serving(t)'
      BY <2>4 DEF Serving, Exclusive, Filed, Answered
    <2>5. QuestionKept' /\ PairTaken'
      BY DEF MailboxKept, QuestionKept, PairTaken, Serving, Filed
    <2>6. AnswerKept'
      BY DEF MailboxKept, AnswerKept, Serving
    <2> QED BY <1>c, <2>1, <2>2, <2>3, <2>4, <2>5, <2>6 DEF MailboxKept, TypeOK
  <1>7. ASSUME NEW s \in Servers, Checks(s) PROVE Inv'
    <2> USE <1>7 DEF Checks, fileVars, failVars, Goes
    <2>1. ProcTypes'
      BY DEF ProcTypes
    <2>2. FileTypes'
      BY DEF FileTypes, Filed, Serving, Answered
    <2>3. Filed' /\ Exclusive'
      BY DEF Filed, Exclusive, Serving
    <2>4. ASSUME NEW t \in Servers PROVE Serving(t)'
      BY <2>4 DEF Serving, Exclusive, Filed, Answered
    <2>5. QuestionKept' /\ PairTaken'
      BY DEF MailboxKept, QuestionKept, PairTaken, Serving, Filed
    <2>6. AnswerKept'
      BY DEF MailboxKept, AnswerKept, Serving
    <2> QED BY <1>c, <2>1, <2>2, <2>3, <2>4, <2>5, <2>6 DEF MailboxKept, TypeOK
  <1>8. ASSUME NEW s \in Servers, Reads(s) PROVE Inv'
    <2> USE <1>8 DEF Reads, fileVars, failVars, Goes
    <2>1. ProcTypes'
      BY DEF ProcTypes
    <2>2. FileTypes'
      BY DEF FileTypes, Filed, Serving, Answered
    <2>3. Filed' /\ Exclusive'
      BY DEF Filed, Exclusive, Serving
    <2>4. ASSUME NEW t \in Servers PROVE Serving(t)'
      BY <2>4 DEF Serving, Exclusive, Filed, Answered
    <2>5. QuestionKept' /\ PairTaken'
      BY DEF MailboxKept, QuestionKept, PairTaken, Serving, Filed
    <2>6. AnswerKept'
      BY DEF MailboxKept, AnswerKept, Serving
    <2> QED BY <1>c, <2>1, <2>2, <2>3, <2>4, <2>5, <2>6 DEF MailboxKept, TypeOK
  <1>9. ASSUME NEW s \in Servers, Archives(s) PROVE Inv'
    <2> USE <1>9 DEF Archives, NoFault, Fault, Goes, failVars
    <2>1. ProcTypes'
      BY DEF ProcTypes
    <2>2. FileTypes'
      <3>1. current[s] \in given /\ faults' \in 0..MaxFaults
        BY MailboxAssumption DEF Filed, Serving, Answered, FileTypes
      <3> QED BY <3>1 DEF FileTypes
    <2>3. Filed' /\ Exclusive'
      BY DEF Filed, Exclusive, Serving
    <2>4. ASSUME NEW t \in Servers PROVE Serving(t)'
      BY <2>4 DEF Serving, Exclusive, Filed, Answered
    <2>5. QuestionKept' /\ PairTaken'
      BY DEF MailboxKept, QuestionKept, PairTaken, Serving, Filed
    <2>6. AnswerKept'
      BY DEF MailboxKept, AnswerKept, Serving
    <2> QED BY <1>c, <2>1, <2>2, <2>3, <2>4, <2>5, <2>6 DEF MailboxKept, TypeOK
  <1>10. ASSUME NEW s \in Servers, DropsQuestion(s) PROVE Inv'
    <2> USE <1>10 DEF DropsQuestion, NoFault, Fault, Goes, failVars
    <2>1. ProcTypes'
      BY DEF ProcTypes
    <2>2. FileTypes'
      <3>1. current[s] \in given /\ faults' \in 0..MaxFaults
        BY MailboxAssumption DEF Filed, Serving, Answered, FileTypes
      <3> QED BY <3>1 DEF FileTypes
    <2>3. Filed' /\ Exclusive'
      BY DEF Filed, Exclusive, Serving
    <2>4. ASSUME NEW t \in Servers PROVE Serving(t)'
      BY <2>4 DEF Serving, Exclusive, Filed, Answered
    <2>5. QuestionKept' /\ PairTaken'
      BY DEF MailboxKept, QuestionKept, PairTaken, Serving, Filed
    <2>6. AnswerKept'
      BY DEF MailboxKept, AnswerKept, Serving
    <2> QED BY <1>c, <2>1, <2>2, <2>3, <2>4, <2>5, <2>6 DEF MailboxKept, TypeOK
  <1>11. ASSUME NEW s \in Servers, DropsAnswer(s) PROVE Inv'
    <2> USE <1>11 DEF DropsAnswer, NoFault, Fault, Goes, failVars
    <2>1. ProcTypes'
      BY DEF ProcTypes
    <2>2. FileTypes'
      BY MailboxAssumption DEF FileTypes, Filed, Serving, Answered
    <2>3. Filed' /\ Exclusive'
      BY DEF Filed, Exclusive, Serving
    <2>4. ASSUME NEW t \in Servers PROVE Serving(t)'
      BY <2>4 DEF Serving, Exclusive, Filed, Answered
    <2>5. QuestionKept' /\ PairTaken'
      BY DEF MailboxKept, QuestionKept, PairTaken, Serving, Filed
    <2>6. AnswerKept'
      BY DEF MailboxKept, AnswerKept, Serving
    <2> QED BY <1>c, <2>1, <2>2, <2>3, <2>4, <2>5, <2>6 DEF MailboxKept, TypeOK
  <1>12. ASSUME NEW s \in Servers, Replies(s) PROVE Inv'
    <2> USE <1>12 DEF Replies, Told, Goes, failVars
    <2>1. ProcTypes'
      BY DEF ProcTypes
    <2>2. FileTypes'
      BY DEF FileTypes, Filed, Serving, Answered
    <2>3. Filed' /\ Exclusive'
      BY DEF Filed, Exclusive, Serving
    <2>4. ASSUME NEW t \in Servers PROVE Serving(t)'
      BY <2>4 DEF Serving, Exclusive, Filed, Answered
    <2>5. QuestionKept' /\ PairTaken'
      BY DEF MailboxKept, QuestionKept, PairTaken, Serving, Filed
    <2>6. AnswerKept'
      BY DEF MailboxKept, AnswerKept, Serving
    <2> QED BY <1>c, <2>1, <2>2, <2>3, <2>4, <2>5, <2>6 DEF MailboxKept, TypeOK
  <1>13. ASSUME NEW s \in Servers, Degrades(s) PROVE Inv'
    <2> USE <1>13 DEF Degrades, Told, Goes, failVars
    <2>1. ProcTypes'
      BY DEF ProcTypes
    <2>2. FileTypes'
      BY DEF FileTypes, Filed, Serving, Answered
    <2>3. Filed' /\ Exclusive'
      BY DEF Filed, Exclusive, Serving
    <2>4. ASSUME NEW t \in Servers PROVE Serving(t)'
      BY <2>4 DEF Serving, Exclusive, Filed, Answered
    <2>5. QuestionKept' /\ PairTaken'
      BY DEF MailboxKept, QuestionKept, PairTaken, Serving, Filed
    <2>6. AnswerKept'
      BY DEF MailboxKept, AnswerKept, Serving
    <2> QED BY <1>c, <2>1, <2>2, <2>3, <2>4, <2>5, <2>6 DEF MailboxKept, TypeOK
  <1>14. ASSUME NEW i \in Ids, BeginsAnswer(i) PROVE Inv'
    <2> USE <1>14 DEF BeginsAnswer, procVars, failVars
    <2>1. ProcTypes'
      BY DEF ProcTypes
    <2>2. FileTypes'
      BY DEF FileTypes, Filed, Serving, Answered
    <2>3. Filed' /\ Exclusive'
      BY DEF Filed, Exclusive, Serving
    <2>4. ASSUME NEW t \in Servers PROVE Serving(t)'
      BY <2>4 DEF Serving, Exclusive, Filed, Answered
    <2>5. QuestionKept' /\ PairTaken'
      BY DEF MailboxKept, QuestionKept, PairTaken, Serving, Filed
    <2>6. AnswerKept'
      BY DEF MailboxKept, AnswerKept, Serving
    <2> QED BY <1>c, <2>1, <2>2, <2>3, <2>4, <2>5, <2>6 DEF MailboxKept, TypeOK
  <1>15. ASSUME NEW i \in Ids, FinishesAnswer(i) PROVE Inv'
    <2> USE <1>15 DEF FinishesAnswer, procVars, failVars
    <2>1. ProcTypes'
      BY DEF ProcTypes
    <2>2. FileTypes'
      <3>1. i \in written
        BY DEF Filed
      <3> QED BY <3>1 DEF FileTypes
    <2>3. Filed' /\ Exclusive'
      BY DEF Filed, Exclusive, Serving
    <2>4. ASSUME NEW t \in Servers PROVE Serving(t)'
      BY <2>4 DEF Serving, Exclusive, Filed, Answered
    <2>5. QuestionKept' /\ PairTaken'
      BY DEF MailboxKept, QuestionKept, PairTaken, Serving, Filed
    <2>6. AnswerKept'
      BY DEF MailboxKept, AnswerKept, Serving
    <2> QED BY <1>c, <2>1, <2>2, <2>3, <2>4, <2>5, <2>6 DEF MailboxKept, TypeOK
  <1>16. CASE UNCHANGED vars
    <2> USE <1>16 DEF vars, procVars, fileVars, failVars
    <2>1. ProcTypes' /\ FileTypes' /\ Filed' /\ Exclusive' /\ \A s \in Servers : Serving(s)'
      BY DEF ProcTypes, FileTypes, Filed, Exclusive, Serving, Answered
    <2>2. MailboxKept'
      BY DEF MailboxKept, AnswerKept, QuestionKept, PairTaken
    <2> QED BY <1>c, <2>1, <2>2 DEF TypeOK
  <1> QED BY <1>1, <1>2, <1>3, <1>4, <1>5, <1>6, <1>7, <1>8, <1>9, <1>10, <1>11, <1>12,
            <1>13, <1>14, <1>15, <1>16 DEF Next, Waits

LEMMA Invariant == Spec => []Inv
  BY InitInv, StepInv, PTL DEF Spec

(* Who waits on which question, and which files there are: no process asks   *)
(* past its quota, whatever happens to it or to its files.                  *)
THEOREM TypeCorrect == Spec => []TypeOK
  <1>1. Inv => TypeOK
    BY DEF Inv, Shape
  <1> QED BY <1>1, Invariant, PTL

(* Whatever the number of servers, questions, kills and failed writes: a     *)
(* question stays until it is answered, its file goes once its answer was    *)
(* returned unless that removal failed, and an answer is lost only when its  *)
(* own archive failed and its server was then killed.                       *)
THEOREM MailboxIsKept == Spec => []MailboxKept
  <1>1. Inv => MailboxKept
    BY DEF Inv
  <1> QED BY <1>1, Invariant, PTL

(* Every process asks at most half of the quota, rounded up: two questions   *)
(* of the three it is meant to grant.                                       *)
THEOREM QuotaIsHalved == Spec => []HalfQuota
  <1> USE MailboxAssumption
  <1>1. Init => CountIsDouble
    BY DEF Init, CountIsDouble
  <1>2. CountIsDouble => HalfQuota
    BY DEF CountIsDouble, HalfQuota
  <1> QED BY <1>1, <1>2, CountKept, PTL DEF Spec
=============================================================================

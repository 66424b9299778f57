-------------------------- MODULE OuterLoopMailbox --------------------------
(***************************************************************************)
(* ask_outer of the OLP-MCP servers (src/olp_mcp.rs): an inner loop asks the *)
(* outer loop a question through files, waits for the answer until a        *)
(* deadline, and takes the pair out of the mailbox. Every session of an      *)
(* inner loop runs a server of its own on the one mailbox of the host; the   *)
(* caller of a server may kill it at any step.                              *)
(*                                                                          *)
(* The outer loop is external: it answers the questions it finds, before or  *)
(* after the deadline, writing the answer's file in place. Left out: the     *)
(* board (report_blocked and the audit lines only append to it, through a    *)
(* script that is assumed to return), requests that answer from constants,   *)
(* and the refusals for an empty field, which change nothing.                *)
(***************************************************************************)
EXTENDS Naturals, FiniteSets

CONSTANTS
    Servers,    \* places for a server process; a new one may follow one that ended
    Quota,      \* ASK_QUOTA_PER_SLICE
    MaxAsks,    \* bound: questions asked in all
    MaxFaults   \* bound: servers killed and files that could not be written

ASSUME MailboxAssumption == Quota \in Nat /\ MaxAsks \in Nat /\ MaxFaults \in Nat

VARIABLES
    pc,         \* where a server is in serve, or in ask_outer
    count,      \* its ASK_STATE
    current,    \* the question it waits on
    late,       \* that question's deadline has passed
    questions,  \* the questions with a file in questions/
    answers,    \* the file of each question in answers/
    consumed,   \* the pairs archived in consumed/
    asked,      \* questions asked so far: they are numbered
    outcome,    \* what the caller of each question was told
    dispatched, \* questions this process asked
    refused,    \* this process has refused one for its quota
    written,    \* questions whose file was ever there
    given,      \* questions whose answer the outer loop has finished
    unarchived, \* history: questions whose archive could not be written
    unremoved,  \* history: questions whose file could not be removed
    faults

procVars == <<pc, count, current, late, dispatched, refused>>
failVars == <<unarchived, unremoved>>
fileVars == <<questions, answers, consumed, written, failVars>>
vars == <<procVars, fileVars, asked, outcome, given, faults>>

Ids == 1..MaxAsks
NoAsk == 0
Goes(s, next) == pc' = [pc EXCEPT ![s] = next]
NoFault == UNCHANGED faults
Fault == faults < MaxFaults /\ faults' = faults + 1

Init ==
    /\ pc = [s \in Servers |-> "down"] /\ count = [s \in Servers |-> 0]
    /\ current = [s \in Servers |-> NoAsk] /\ late = [s \in Servers |-> FALSE]
    /\ dispatched = [s \in Servers |-> 0] /\ refused = [s \in Servers |-> FALSE]
    /\ questions = {} /\ answers = [i \in Ids |-> "none"] /\ consumed = {}
    /\ written = {} /\ given = {} /\ asked = 0
    /\ unarchived = {} /\ unremoved = {}
    /\ outcome = [i \in Ids |-> "none"] /\ faults = 0

-----------------------------------------------------------------------------
(* A process starts with a thread-local count of zero.                      *)
Starts(s) ==
    /\ pc[s] = "down" /\ Goes(s, "idle")
    /\ count' = [count EXCEPT ![s] = 0]
    /\ dispatched' = [dispatched EXCEPT ![s] = 0]
    /\ refused' = [refused EXCEPT ![s] = FALSE]
    /\ UNCHANGED <<current, late, fileVars, asked, outcome, given, faults>>

(* serve reads the end of its input, which it does between requests only.   *)
Ends(s) ==
    /\ pc[s] = "idle" /\ Goes(s, "down")
    /\ UNCHANGED <<count, current, late, dispatched, refused, fileVars, asked,
                   outcome, given, faults>>

(* The caller, or the system, kills it.                                     *)
Killed(s) ==
    /\ pc[s] # "down" /\ Goes(s, "down") /\ Fault
    /\ current' = [current EXCEPT ![s] = NoAsk]
    /\ late' = [late EXCEPT ![s] = FALSE]
    /\ outcome' = [i \in Ids |-> IF i = current[s] THEN "killed" ELSE outcome[i]]
    /\ UNCHANGED <<count, dispatched, refused, fileVars, asked, given>>

(* Mutant: the quota is not asked for.                                      *)
AsksPastQuota(s) ==
    /\ pc[s] = "idle" /\ asked < MaxAsks
    /\ Goes(s, "check")
    /\ count' = [count EXCEPT ![s] = @ + 2]
    /\ dispatched' = [dispatched EXCEPT ![s] = @ + 1]
    /\ asked' = asked + 1
    /\ current' = [current EXCEPT ![s] = asked + 1]
    /\ outcome' = [outcome EXCEPT ![asked + 1] = "open"]
    /\ \/ /\ questions' = questions \cup {asked + 1}
          /\ written' = written \cup {asked + 1} /\ NoFault
       \/ Fault /\ UNCHANGED <<questions, written>>
    /\ UNCHANGED <<late, refused, answers, consumed, given, failVars>>

(* ask_outer up to the wait. It counts the question, and short_uuid, which  *)
(* names it, counts it again. A write that fails is ignored.                *)
Asks(s) ==
    /\ pc[s] = "idle" /\ count[s] < Quota /\ asked < MaxAsks
    /\ Goes(s, "check")
    /\ count' = [count EXCEPT ![s] = @ + 2]
    /\ dispatched' = [dispatched EXCEPT ![s] = @ + 1]
    /\ asked' = asked + 1
    /\ current' = [current EXCEPT ![s] = asked + 1]
    /\ outcome' = [outcome EXCEPT ![asked + 1] = "open"]
    /\ \/ /\ questions' = questions \cup {asked + 1}
          /\ written' = written \cup {asked + 1} /\ NoFault
       \/ Fault /\ UNCHANGED <<questions, written>>
    /\ UNCHANGED <<late, refused, answers, consumed, given, failVars>>

(* QUOTA_REFUSAL.                                                           *)
Refuses(s) ==
    /\ pc[s] = "idle" /\ count[s] >= Quota
    /\ refused' = [refused EXCEPT ![s] = TRUE]
    /\ UNCHANGED <<pc, count, current, late, dispatched, fileVars, asked, outcome,
                   given, faults>>

DeadlinePasses(s) ==
    /\ pc[s] \in {"check", "read"} /\ ~late[s]
    /\ late' = [late EXCEPT ![s] = TRUE]
    /\ UNCHANGED <<pc, count, current, dispatched, refused, fileVars, asked, outcome,
                   given, faults>>

(* The condition of the loop: the clock is read before the file is.         *)
Checks(s) ==
    /\ pc[s] = "check" /\ ~late[s] /\ Goes(s, "read")
    /\ UNCHANGED <<count, current, late, dispatched, refused, fileVars, asked,
                   outcome, given, faults>>

Answered(s) == answers[current[s]] = "whole"

(* Mutant: a file that does not parse is read again at once.                *)
ReadsUntilWhole(s) ==
    /\ pc[s] = "read"
    /\ Goes(s, IF answers[current[s]] = "none" THEN "check"
               ELSE IF Answered(s) THEN "archive" ELSE "read")
    /\ UNCHANGED <<count, current, late, dispatched, refused, fileVars, asked,
                   outcome, given, faults>>

(* No file, or one that does not parse: sleep, and look again.              *)
Reads(s) ==
    /\ pc[s] = "read"
    /\ Goes(s, IF Answered(s) THEN "archive" ELSE "check")
    /\ UNCHANGED <<count, current, late, dispatched, refused, fileVars, asked,
                   outcome, given, faults>>

(* The answer is taken: archive the pair, then remove its two files. A      *)
(* write or a removal that fails is ignored.                                *)
Archives(s) ==
    /\ pc[s] = "archive" /\ Goes(s, "dropQuestion")
    /\ \/ consumed' = consumed \cup {current[s]} /\ NoFault /\ UNCHANGED unarchived
       \/ Fault /\ unarchived' = unarchived \cup {current[s]} /\ UNCHANGED consumed
    /\ UNCHANGED <<count, current, late, dispatched, refused, questions, answers,
                   written, asked, outcome, given, unremoved>>

DropsQuestion(s) ==
    /\ pc[s] = "dropQuestion" /\ Goes(s, "dropAnswer")
    /\ \/ questions' = questions \ {current[s]} /\ NoFault /\ UNCHANGED unremoved
       \/ Fault /\ unremoved' = unremoved \cup {current[s]} /\ UNCHANGED questions
    /\ UNCHANGED <<count, current, late, dispatched, refused, answers, consumed,
                   written, asked, outcome, given, unarchived>>

DropsAnswer(s) ==
    /\ pc[s] = "dropAnswer" /\ Goes(s, "reply")
    /\ \/ answers' = [answers EXCEPT ![current[s]] = "none"] /\ NoFault
       \/ Fault /\ UNCHANGED answers
    /\ UNCHANGED <<count, current, late, dispatched, refused, questions, consumed,
                   written, asked, outcome, given, failVars>>

Told(s, what) ==
    /\ Goes(s, "idle")
    /\ outcome' = [outcome EXCEPT ![current[s]] = what]
    /\ current' = [current EXCEPT ![s] = NoAsk]
    /\ late' = [late EXCEPT ![s] = FALSE]
    /\ UNCHANGED <<count, dispatched, refused, answers, consumed, written, asked,
                   given, failVars, faults>>

Replies(s) == pc[s] = "reply" /\ Told(s, "answered") /\ UNCHANGED questions

(* Mutant: a question that timed out is taken back.                         *)
DegradesAndRetracts(s) ==
    /\ pc[s] = "check" /\ late[s] /\ Told(s, "degraded")
    /\ questions' = questions \ {current[s]}

(* DEGRADED_GUIDANCE, with the question's id; its file stays.               *)
Degrades(s) ==
    pc[s] = "check" /\ late[s] /\ Told(s, "degraded") /\ UNCHANGED questions

(* The outer loop writes the answer of a question it finds.                 *)
BeginsAnswer(i) ==
    /\ i \in questions \ given /\ answers[i] = "none"
    /\ answers' = [answers EXCEPT ![i] = "partial"]
    /\ UNCHANGED <<procVars, questions, consumed, written, failVars, asked, outcome, given,
                   faults>>

FinishesAnswer(i) ==
    /\ answers[i] = "partial"
    /\ answers' = [answers EXCEPT ![i] = "whole"]
    /\ given' = given \cup {i}
    /\ UNCHANGED <<procVars, questions, consumed, written, failVars, asked, outcome,
                   faults>>

Waits(s) ==
    \/ Checks(s) \/ Reads(s) \/ Archives(s) \/ DropsQuestion(s) \/ DropsAnswer(s)
    \/ Replies(s) \/ Degrades(s)

Next ==
    \/ \E s \in Servers :
          \/ Starts(s) \/ Ends(s) \/ Killed(s) \/ Asks(s) \/ Refuses(s)
          \/ DeadlinePasses(s) \/ Waits(s)
    \/ \E i \in Ids : BeginsAnswer(i) \/ FinishesAnswer(i)

Spec == Init /\ [][Next]_vars

(* A server that waits runs on, and so does its clock. The outer loop, the   *)
(* inner loop and the one who kills owe nothing.                            *)
FairSpec ==
    Spec /\ \A s \in Servers : WF_vars(Waits(s)) /\ WF_vars(DeadlinePasses(s))

-----------------------------------------------------------------------------
ProcTypes ==
    /\ pc \in [Servers -> {"down", "idle", "check", "read", "archive",
                           "dropQuestion", "dropAnswer", "reply"}]
    /\ current \in [Servers -> {NoAsk} \cup Ids]
    /\ \A s \in Servers : (current[s] = NoAsk) <=> (pc[s] \in {"down", "idle"})
    /\ late \in [Servers -> BOOLEAN] /\ refused \in [Servers -> BOOLEAN]

CountTypes ==
    count \in [Servers -> 0..(Quota + 1)] /\ dispatched \in [Servers -> 0..Quota]

FileTypes ==
    /\ asked \in 0..MaxAsks /\ faults \in 0..MaxFaults
    /\ answers \in [Ids -> {"none", "partial", "whole"}]
    /\ outcome \in [Ids -> {"none", "open", "answered", "degraded", "killed"}]
    /\ questions \subseteq written /\ written \subseteq 1..asked
    /\ consumed \subseteq given /\ given \subseteq written
    /\ unarchived \subseteq given /\ unremoved \subseteq given

TypeOK == ProcTypes /\ CountTypes /\ FileTypes

(* What the outer loop has answered is in answers/, in consumed/, or with   *)
(* the caller, whoever is killed and whichever file cannot be written. It is *)
(* lost only when both go wrong with one question: its archive could not be *)
(* written, and the server that had removed the pair was killed before it    *)
(* told the caller.                                                         *)
AnswerKept ==
    \A i \in given :
        \/ answers[i] = "whole" \/ i \in consumed \/ outcome[i] = "answered"
        \/ \E s \in Servers : current[s] = i /\ pc[s] = "reply"
        \/ i \in unarchived /\ outcome[i] = "killed"

(* A question the outer loop has not answered stays where it looks for it,   *)
(* also after its deadline: the guidance then promises a late answer.       *)
QuestionKept == written \ given \subseteq questions

(* "questions/ holds only unanswered asks": a question whose answer was      *)
(* returned has no file, unless the removal of that very file failed.       *)
PairTaken == \A i \in questions : outcome[i] = "answered" => i \in unremoved

(* No timeout, half-written or late answer takes a question or an answer out *)
(* of the mailbox before its exchange is over, nor does any number of kills  *)
(* and failed writes, but the pair of a failed archive and a kill.          *)
MailboxKept == AnswerKept /\ QuestionKept /\ PairTaken

(* "Never blocks the turn": every question asked comes to an end, answered,  *)
(* degraded or killed, although its answer may stay half written for ever.  *)
AskEnds == \A s \in Servers : current[s] # NoAsk ~> current[s] = NoAsk

(* "the 4th ask on one slice is refused": no question is refused for the     *)
(* quota before as many as the quota were asked.                            *)
FullQuota == \A s \in Servers : refused[s] => dispatched[s] >= Quota

(* What the code grants instead: half of the quota, rounded up.             *)
HalfQuota == \A s \in Servers : 2 * dispatched[s] <= Quota + 1
=============================================================================

------------------------------ MODULE Approvals ------------------------------
(***************************************************************************)
(* What lets a tool call of a run start (internal/agent/runner_tools.go,    *)
(* runner_policy.go, danger_reflection.go, user_question.go): the policy    *)
(* itself, a grant given for the session, the remembered verdict of the     *)
(* safety model, or the answer of a person. A call that waits for a person  *)
(* has a one-slot channel; timer, interrupt and answers race for it. A      *)
(* change of the rules raises a generation in the store and then revokes    *)
(* grants, verdicts and waiting calls, in later lock sections; so whoever   *)
(* acts on an older decision compares generations once more.                *)
(*                                                                         *)
(* One agent and one run, whose calls come one after another and are all of *)
(* one command: the same grant and the same verdict would serve each. A     *)
(* call may also be a question to the user, which shares the channel.       *)
(***************************************************************************)
EXTENDS Integers

CONSTANTS
    ToolUses,        \* number of tool calls of the run
    Answerers,       \* handlers that carry an answer: page, chat channel, peer
    MaxChanges       \* bound: changes of rules, mode, device or plugins

ASSUME ApprovalsAssumption == ToolUses \in Nat /\ MaxChanges \in Nat

VARIABLES
    rules,       \* permission and policy generation, taken together
    ruleChanges,     \* changes so far, those of plugins included
    editor,      \* the handler that changed the rules and now invalidates
    grant,       \* sessionGrants of the command: its generation, 0 for none
    verdict,     \* the reflection cache of the command
    use,         \* the goroutine of the latest tool call, and its channel
    answerer,    \* handler -> the answer it carries
    halted       \* the run's context is canceled

approvalVars == <<rules, ruleChanges, editor, grant, verdict, use, answerer, halted>>

NoVerdict == [say |-> "none", word |-> 0, basis |-> 0]

\* word is the generation a decision is bound to. History: began and seen, the
\* generation when the call began and when it took its answer; basis, the one
\* its verdict was asked under; by, what let it start; first, the first answer
\* accepted while it waited; late, that it ran into its timeout or an interrupt.
UseOf(n, at, kind) ==
    [n |-> n, at |-> at, kind |-> kind, began |-> rules, word |-> 0, held |-> NoVerdict,
     listed |-> FALSE, slot |-> "empty", taken |-> "none", seen |-> 0,
     by |-> "none", first |-> "none", late |-> FALSE]

Unasked == [at |-> "idle", n |-> 0, say |-> "none", read |-> 0]

ApprovalsInit ==
    /\ rules = 1 /\ ruleChanges = 0
    /\ editor = [at |-> "idle", list |-> {}]
    /\ grant = 0
    /\ verdict = NoVerdict
    /\ use = UseOf(0, "refused", "command")
    /\ answerer = [d \in Answerers |-> Unasked]
    /\ halted = FALSE

-----------------------------------------------------------------------------
(* The goroutine of the call *)

\* A query under the run's context fails once that is canceled.
Stands(at) == use.at = at /\ ~halted

BeginCall ==
    /\ use.at \in {"refused", "ran"} /\ use.n < ToolUses /\ ~halted
    /\ \/ use' = UseOf(use.n + 1, "resolve", "command")
       \/ use' = UseOf(use.n + 1, "ask", "question")
    /\ UNCHANGED <<rules, ruleChanges, editor, grant, verdict, answerer, halted>>

\* A matching rule, or the mode and the preferences: allow, ask or deny.
resolveToolPermission ==
    /\ Stands("resolve") \/ Stands("default")
    /\ \E at \in {"reflect", "card", "refused"} : use' = [use EXCEPT !.at = at]
    /\ UNCHANGED <<rules, ruleChanges, editor, grant, verdict, answerer, halted>>

LookUpGrant ==
    /\ Stands("resolve")
    /\ use' = [use EXCEPT !.at = IF grant = 0 THEN "default" ELSE "granted", !.word = grant]
    /\ UNCHANGED <<rules, ruleChanges, editor, grant, verdict, answerer, halted>>

hasSessionGrant ==
    /\ Stands("granted")
    /\ \/ /\ use.word = rules
          /\ use' = [use EXCEPT !.at = "start", !.by = "grant"]
          /\ UNCHANGED grant
       \/ /\ use.word # rules
          /\ use' = [use EXCEPT !.at = "default", !.word = 0]
          /\ grant' = 0
    /\ UNCHANGED <<rules, ruleChanges, editor, verdict, answerer, halted>>

\* Not for this action, or under the level now set.
reflectBeforeExecution ==
    /\ Stands("reflect")
    /\ \/ use' = [use EXCEPT !.at = "start", !.by = "policy"]
       \/ use' = [use EXCEPT !.at = "lookup", !.held.basis = rules]
    /\ UNCHANGED <<rules, ruleChanges, editor, grant, verdict, answerer, halted>>

LookUpVerdict ==
    /\ Stands("lookup")
    /\ use' = IF verdict = NoVerdict THEN [use EXCEPT !.at = "judge"]
              ELSE [use EXCEPT !.at = "recall", !.held = verdict]
    /\ UNCHANGED <<rules, ruleChanges, editor, grant, verdict, answerer, halted>>

Heeding(u) ==
    CASE u.held.say = "proceed" -> [u EXCEPT !.at = "start", !.by = "verdict"]
      [] u.held.say = "block"   -> [u EXCEPT !.at = "refused"]
      [] OTHER                  -> [u EXCEPT !.at = "card", !.held = NoVerdict]

\* The level is not read again when the remembered verdict turns out stale.
cachedReflection ==
    /\ Stands("recall")
    /\ \/ /\ use.held.word = rules
          /\ use' = Heeding(use)
          /\ UNCHANGED verdict
       \/ /\ use.held.word # rules
          /\ use' = [use EXCEPT !.at = "judge", !.held = [NoVerdict EXCEPT !.basis = rules]]
          /\ verdict' = NoVerdict
    /\ UNCHANGED <<rules, ruleChanges, editor, grant, answerer, halted>>

\* The model answers; a verdict that could not be had is not remembered.
reflectOnAction ==
    /\ Stands("judge")
    /\ \/ \E say \in {"proceed", "confirm", "block"} :
             use' = [use EXCEPT !.at = "bind", !.held.say = say]
       \/ use' = Heeding([use EXCEPT !.held.say = "unavailable"])
    /\ UNCHANGED <<rules, ruleChanges, editor, grant, verdict, answerer, halted>>

BindVerdict ==
    /\ Stands("bind")
    /\ use' = [use EXCEPT !.at = "remember", !.held.word = rules]
    /\ UNCHANGED <<rules, ruleChanges, editor, grant, verdict, answerer, halted>>

rememberReflection ==
    /\ use.at = "remember"
    /\ verdict' = use.held
    /\ use' = Heeding(use)
    /\ UNCHANGED <<rules, ruleChanges, editor, grant, answerer, halted>>

\* Nobody would answer for an unattended subagent: it is refused at once.
RefuseUnattended ==
    /\ Stands("card")
    /\ use' = [use EXCEPT !.at = "refused"]
    /\ UNCHANGED <<rules, ruleChanges, editor, grant, verdict, answerer, halted>>

ReadGenerations ==
    /\ Stands("card")
    /\ use' = [use EXCEPT !.at = "ask", !.word = rules]
    /\ UNCHANGED <<rules, ruleChanges, editor, grant, verdict, answerer, halted>>

\* addPendingApproval, or addPendingUserQuestion of AskUser.
AddPending ==
    /\ Stands("ask")
    /\ use' = [use EXCEPT !.at = "wait", !.listed = TRUE]
    /\ UNCHANGED <<rules, ruleChanges, editor, grant, verdict, answerer, halted>>

\* The select: with more than one case ready, any of them.
waitForToolApproval ==
    /\ use.at = "wait"
    /\ \/ /\ use.slot # "empty"
          /\ use' = [use EXCEPT !.at = "leave", !.taken = use.slot, !.slot = "empty",
                                !.seen = rules]
       \/ use' = [use EXCEPT !.at = "leave", !.late = TRUE]
    /\ UNCHANGED <<rules, ruleChanges, editor, grant, verdict, answerer, halted>>

\* A person's answer is a question's result; of a command it lets an allowed
\* one go on.
removePending ==
    /\ use.at = "leave"
    /\ LET u == [use EXCEPT !.listed = FALSE, !.slot = "empty"] IN
       \/ u.taken = "answer" /\ use' = [u EXCEPT !.at = "ran", !.by = "answer"]
       \/ u.taken \in {"allow_once", "allow_session"} /\ use' = [u EXCEPT !.at = "recheck"]
       \/ u.taken \in {"none", "deny", "revoked"} /\ use' = [u EXCEPT !.at = "refused"]
    /\ UNCHANGED <<rules, ruleChanges, editor, grant, verdict, answerer, halted>>

Followed ==
    [use EXCEPT !.at = IF use.taken = "allow_session" THEN "grant" ELSE "start", !.by = "answer"]

\* A slip: the answer is followed without looking at the rules again.
FollowUnchecked ==
    /\ Stands("recheck")
    /\ use' = Followed
    /\ UNCHANGED <<rules, ruleChanges, editor, grant, verdict, answerer, halted>>

approvalGenerationsCurrent ==
    /\ Stands("recheck")
    /\ use' = IF use.word = rules THEN Followed ELSE [use EXCEPT !.at = "refused"]
    /\ UNCHANGED <<rules, ruleChanges, editor, grant, verdict, answerer, halted>>

addSessionGrant ==
    /\ use.at = "grant"
    /\ grant' = use.word
    /\ use' = [use EXCEPT !.at = "start"]
    /\ UNCHANGED <<rules, ruleChanges, editor, verdict, answerer, halted>>

executeApprovedTool ==
    /\ Stands("start")
    /\ use' = [UseOf(use.n, "ran", use.kind) EXCEPT !.began = 0]
    /\ UNCHANGED <<rules, ruleChanges, editor, grant, verdict, answerer, halted>>

\* Any query of an interrupted run's call fails and ends it; a grant or a
\* verdict that could not be compared is dropped.
Fail ==
    /\ halted
    /\ use.at \in {"resolve", "default", "granted", "reflect", "lookup", "recall", "judge", "bind",
                   "card", "ask", "recheck", "start"}
    /\ use' = [use EXCEPT !.at = "refused", !.by = "none", !.late = TRUE]
    /\ grant' = IF use.at = "granted" THEN 0 ELSE grant
    /\ verdict' = IF use.at = "recall" THEN NoVerdict ELSE verdict
    /\ UNCHANGED <<rules, ruleChanges, editor, answerer, halted>>

HaltRun ==
    /\ ~halted /\ halted' = TRUE
    /\ UNCHANGED <<rules, ruleChanges, editor, grant, verdict, use, answerer>>

-----------------------------------------------------------------------------
(* Those who answer *)

Sayings(kind) ==
    IF kind = "command" THEN {"allow_once", "allow_session", "deny"} ELSE {"answer"}

\* ApproveToolCall reads the generations before it looks the approval up.
BeginAnswer(d) ==
    /\ answerer[d].at = "idle" /\ use.listed
    /\ \E say \in Sayings(use.kind) :
          answerer' = [answerer EXCEPT ![d] =
                            [at |-> "offer", n |-> use.n, say |-> say, read |-> rules]]
    /\ UNCHANGED <<rules, ruleChanges, editor, grant, verdict, use, halted>>

\* The pending call that the handler looks for is there. (A channel that was
\* found and is abandoned before the send takes the answer to no effect.)
Meets(d) == use.n = answerer[d].n /\ use.listed

\* A slip: a later answer takes the place of one not yet taken.
PutOver(say) == [use EXCEPT !.slot = say]

\* A send that does not block: the first one fills the slot.
Put(say) == IF use.slot = "empty" THEN [use EXCEPT !.slot = say] ELSE use

\* The caller is told that its answer was accepted; the call reads it only if
\* it still waits.
Accepted(say) ==
    [Put(say) EXCEPT
        !.first = IF use.slot = "empty" /\ use.first = "none" /\ use.at = "wait" THEN say ELSE @]

OfferAnswer(d) ==
    LET a == answerer[d] IN
    /\ a.at = "offer"
    /\ use' = IF ~Meets(d) THEN use
              ELSE IF use.kind = "command" /\ a.read # use.word THEN Put("revoked")
              ELSE Accepted(a.say)
    /\ answerer' = [answerer EXCEPT ![d] = Unasked]
    /\ UNCHANGED <<rules, ruleChanges, editor, grant, verdict, halted>>

-----------------------------------------------------------------------------
(* Those who change the rules *)

\* Rules, mode, workspace and preferences raise a generation and invalidate;
\* an execution device does only the first, a plugin only the second.
ChangeRules ==
    /\ editor.at = "idle" /\ ruleChanges < MaxChanges
    /\ ruleChanges' = ruleChanges + 1
    /\ \/ rules' = rules + 1 /\ editor' = [editor EXCEPT !.at = "clear"]
       \/ rules' = rules + 1 /\ UNCHANGED editor
       \/ editor' = [editor EXCEPT !.at = "clear"] /\ UNCHANGED rules
    /\ UNCHANGED <<grant, verdict, use, answerer, halted>>

ListedOf(kind) == {n \in 1..ToolUses : n = use.n /\ use.listed /\ use.kind = kind}

\* invalidateApprovals: the section under approvalMu,
invalidateApprovals ==
    /\ editor.at = "clear"
    /\ grant' = 0 /\ verdict' = NoVerdict
    /\ editor' = [at |-> "deny", list |-> ListedOf("command")]
    /\ UNCHANGED <<rules, ruleChanges, use, answerer, halted>>

Revoke == use' = IF use.n \in editor.list /\ use.listed THEN Put("revoked") ELSE use

\* then a denial to each approval it listed,
DenyPending ==
    /\ editor.at = "deny"
    /\ Revoke
    /\ editor' = [at |-> "skip", list |-> ListedOf("question")]
    /\ UNCHANGED <<rules, ruleChanges, grant, verdict, answerer, halted>>

\* and the questions skipped.
cancelPendingUserQuestions ==
    /\ editor.at = "skip"
    /\ Revoke
    /\ editor' = [at |-> "idle", list |-> {}]
    /\ UNCHANGED <<rules, ruleChanges, grant, verdict, answerer, halted>>

-----------------------------------------------------------------------------
ApprovalsNext ==
    \/ BeginCall \/ resolveToolPermission \/ LookUpGrant \/ hasSessionGrant
    \/ reflectBeforeExecution \/ LookUpVerdict \/ cachedReflection \/ reflectOnAction
    \/ BindVerdict \/ rememberReflection
    \/ RefuseUnattended \/ ReadGenerations \/ AddPending \/ waitForToolApproval \/ removePending
    \/ approvalGenerationsCurrent \/ addSessionGrant \/ executeApprovedTool \/ Fail
    \/ HaltRun
    \/ \E d \in Answerers : BeginAnswer(d) \/ OfferAnswer(d)
    \/ ChangeRules \/ invalidateApprovals \/ DenyPending \/ cancelPendingUserQuestions

ApprovalsSpec == ApprovalsInit /\ [][ApprovalsNext]_approvalVars

-----------------------------------------------------------------------------
(* A call goes ahead only on a word given under the rules it runs under: a  *)
(* session grant, or a remembered verdict, is not older than the call that  *)
(* uses it, and the rules an answer was asked for still held when the call  *)
(* took it. So an answer, a grant or a verdict that crosses a change of the *)
(* rules is void, whichever of the change, the card, the answer and the     *)
(* invalidation came first. A verdict whose judgement a change of the rules *)
(* overtook is left out: rememberReflection binds it to the rules it finds  *)
(* afterwards (danger_reflection.go:391), and it is used as if it were      *)
(* theirs.                                                                  *)
WordsCurrent ==
    /\ use.by = "grant" => use.word >= use.began
    /\ use.by = "answer" /\ use.kind = "command" => use.word = use.seen
    /\ use.by = "verdict" /\ use.held.word = use.held.basis => use.held.basis >= use.began

(* The first answer a waiting call is given is the one it follows: it goes  *)
(* ahead on an answer only if that one allowed it, and a person whose       *)
(* answer was accepted sees it followed unless the call ran into its        *)
(* timeout, an interrupt or a change of the rules.                          *)
FirstAnswerRules ==
    LET allowed == use.first \in {"allow_once", "allow_session", "answer"} IN
    /\ use.by = "answer" => allowed
    /\ use.at = "refused" /\ allowed =>
          use.late \/ (use.kind = "command" /\ rules > use.word)
=============================================================================

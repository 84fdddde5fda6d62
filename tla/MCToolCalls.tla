----------------------------- MODULE MCToolCalls -----------------------------
(***************************************************************************)
(* What a tool call goes through, for TLC.  part says what a behaviour     *)
(* looks at: one of the functions the policy and the agent decide with, or *)
(* one that reads the output of Git, on an input that grows word by word;  *)
(* the process behind a call (ToolProcess); or the plan that calls change  *)
(* (PlanUpdates).                                                          *)
(***************************************************************************)
EXTENDS HookPipelines, ToolProcess, PlanUpdates, TLC

CONSTANT MaxWords
VARIABLES part, input

MCBytes == [command |-> 2, query |-> 2]
Reports == INSTANCE GitReports WITH PathLimit <- 2, EntryLimit <- 2, LineLimit <- 1

\* Patches of three ids, and of one that is written in two ways.
PWord(w) == Written(w, FALSE)
PBlank(w) == Written(w, TRUE)
Patch(i, t, s, r) == [id |-> i, text |-> t, status |-> s, remove |-> r]
Statuses == {"none", "pending", "in_progress", "completed"}
OnePatch == {Patch(i, t, s, r) : i \in {PWord("a"), PBlank("a"), PWord("c"), PBlank("")},
               t \in {NoText, PWord("x"), PBlank("y"), PWord("")}, s \in Statuses, r \in BOOLEAN}
Pairable == {Patch(i, t, s, FALSE) : i \in {PWord("a"), PWord("c")}, t \in {NoText, PWord("y")},
                                     s \in {"none", "in_progress"}}
            \cup {Patch(PBlank("a"), NoText, "completed", FALSE), Patch(PWord("b"), NoText, "pending", FALSE)}
            \cup {Patch(PWord(i), NoText, "none", TRUE) : i \in {"a", "b"}}
PlanCall(patches, why, clear) == [patches |-> patches, explanation |-> why, clear |-> clear]
PlanCalls == {PlanCall(<<p>>, NoText, FALSE) : p \in OnePatch}
             \cup {PlanCall(<<p, q>>, NoText, FALSE) : p, q \in Pairable}
             \cup {PlanCall(l, e, c) : l \in {<<>>, <<Patch(PWord("a"), PWord("x"), "none", FALSE)>>},
                                       e \in {NoText, PWord("why"), PBlank("")}, c \in BOOLEAN}

\* Logs with one plan, and a fact that does not follow from it.
Item(i, s) == [id |-> PWord(i), text |-> PWord("x"), status |-> s]
Fact(r, items, why) == [revision |-> r, items |-> items, explanation |-> why]
FirstPlans == {Fact(1, items, why) : why \in {NoText, PWord("why"), PWord("")},
                 items \in {<<Item("a", s)>> : s \in Statuses \ {"none"}}
                           \cup {<<Item("a", s), Item("b", u)>> : s \in {"pending", "completed"},
                                                               u \in {"in_progress", "pending"}}}
Illegal == {Fact(3, <<>>, NoText), Fact(1, <<Item("a", "pending")>>, NoText),
            Fact(2, <<Item("a", "in_progress"), Item("b", "in_progress")>>, NoText)}
PlanLogs == {<<>>} \cup {<<f>> : f \in FirstPlans} \cup {<<f, g>> : f \in FirstPlans, g \in Illegal}

mcVars == <<part, input, tpVars, planVars>>

MCQuoted == "rm d" :> <<"rm", "d">> @@ "sh -c rm" :> <<"sh", "-c", "rm d">>
            @@ "d; sh" :> <<"d", ";", "env", "sh", "-c", "sh -c rm">>
            @@ "deep" :> <<"sh", "-c", "d; sh">> @@ "deeper" :> <<"sh", "-c", "deep">>
MCWord == {";", "X=1", "sudo", "-n", "rm", "d", "git", "clean", "reset", "--hard", "xargs", "find", "-exec",
           "-delete", "sh", "-c", "eval", "reg", "add"} \cup DOMAIN MCQuoted
Risk == INSTANCE CommandRisk WITH Word <- MCWord, Quoted <- MCQuoted

HookList == {[kind |-> k, args |-> <<>>] : k \in {"continue", "block", "open", "closed"}}
             \cup {[kind |-> "replace", args |-> [query |-> q]] : q \in {"x", "y"}}
PromptResult == {"continue", "text", "illegal", "block", "open", "closed"}
StopResult   == {"continue", "prevent", "open", "closed"}

Change(x, y, path, old) == [x |-> x, y |-> y, path |-> path, old |-> old]
Stat(added, deleted, path, old) ==
    [added |-> added, deleted |-> deleted, path |-> path, old |-> old]
Short == <<"s">>
Long  == <<"a", "b", "c", "d">>
Status == {Change(" ", "M", p, Reports!NoPath) : p \in {Short, Long}}
          \cup {Change(x, y, Short, Reports!NoPath) : <<x, y>> \in {<<"M", " ">>, <<"M", "M">>, <<"?", "?">>}}
          \cup {Change(x, "M", Short, p) : x \in {"R", "C"}, p \in {Short, Long}}
Numstat == {Stat("1", "2", p, Reports!NoPath) : p \in {Short, Long}}
           \cup {Stat("2", "0", Short, p) : p \in {Short, Long}}
           \cup {Stat("-", "-", Short, p) : p \in {Short, Reports!NoPath}}

\* The words a line is made of; the others only occur within quotes.
LineWord == MCWord \ {"sh -c rm", "deep"}

Element == [process |-> {}, plan |-> {}, command |-> LineWord,
            pre |-> HookList, prompt |-> PromptResult, stop |-> StopResult, status |-> Status, numstat |-> Numstat]
Bound(p) == IF p \in {"status", "numstat"} THEN 3 ELSE MaxWords

MCInit == /\ ProcessInit /\ PlanInit /\ part \in DOMAIN Element /\ input = <<>>
          /\ (part # "process" => kind = "query")

\* The next word; after a full line the next line.
Extend == \E w \in Element[part] :
    input' = IF Len(input) < Bound(part) THEN Append(input, w) ELSE <<>>

\* A process is looked at until its tool has returned.
MCNext == /\ UNCHANGED part
          /\ \/ part = "process" /\ step # "returned" /\ ProcessNext /\ UNCHANGED <<input, planVars>>
             \/ part = "process" /\ step = "returned" /\ UNCHANGED mcVars
             \/ part = "plan" /\ PlanNext /\ UNCHANGED <<input, tpVars>>
             \/ part = "plan" /\ UNCHANGED mcVars
             \/ part \notin {"process", "plan"} /\ Extend
                  /\ UNCHANGED <<tpVars, planVars>>

InProcess(A) == part = "process" /\ step # "returned" /\ A /\ UNCHANGED <<part, input, planVars>>

\* The fairness of ToolProcess.
MCSpec ==
    /\ MCInit /\ [][MCNext]_mcVars
    /\ WF_mcVars(InProcess(ToolSteps))
    /\ \A s \in Streams : WF_mcVars(InProcess(Read(s) \/ ReadEnd(s)))
    /\ WF_mcVars(InProcess(TimeIsOver))

-----------------------------------------------------------------------------
\* See CommandRisk.
RiskSound == part = "command" => Risk!AssessedSound(input)

\* The first index whose result is in S, 0 if there is none; those before it.
FirstIn(S) == LET at == {i \in DOMAIN input : input[i] \in S}
              IN IF at = {} THEN 0 ELSE CHOOSE i \in at : \A j \in at : i <= j
Before(i) == IF i = 0 THEN DOMAIN input ELSE 1..i - 1

\* The pipelines of hooks: the first hook that blocks, or fails closed, or adds
\* what is no user text, ends the pipeline and no later hook has a say; until
\* then the arguments are the last replacement, every context is kept and every
\* open failure is reported.
PipelinesSound ==
    /\ part = "pre" =>
         LET at == FirstIn({r \in HookList : r.kind \in {"block", "closed"}})
             p  == PreTool(input, <<>>)
             replaced == {i \in Before(at) : input[i].kind = "replace"}
         IN /\ p.block = (at # 0)
            /\ p.warnings = Cardinality({i \in Before(at) : input[i].kind = "open"})
            /\ IF replaced = {} THEN p.arguments = <<>>
               ELSE \E i \in replaced : p.arguments = input[i].args /\ \A j \in replaced : j <= i
    /\ part = "prompt" =>
         LET at == FirstIn({"block", "closed", "illegal"}) IN
         /\ UserPrompt(input).block = (at # 0)
         /\ UserPrompt(input).added = Cardinality({i \in Before(at) : input[i] = "text"})
    /\ part = "stop" => StopHooks(input) = FirstIn({"prevent", "closed"})

\* See GitReports.
ReportsSound ==
    /\ part = "status" => Reports!StatusSound(input)
    /\ part = "numstat" => Reports!NumstatSound(input)

\* What a command line, the answers of hooks and the output of Git are taken to
\* mean (permission/command_risk.rs, hooks, tools/git.rs).
ReadingsSound == RiskSound /\ PipelinesSound /\ ReportsSound
=============================================================================

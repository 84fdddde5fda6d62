---------------------------- MODULE CommandRisk ----------------------------
(***************************************************************************)
(* Which shell commands must be asked about (permission/command_risk.rs):  *)
(* the command is cut into words and separators, and each simple command   *)
(* is looked at, with those that wrappers, nested shells, xargs and find   *)
(* would start.  A command is a sequence of words of Word, ";" standing    *)
(* for every separator; a word that is itself a command line (the argument *)
(* of -c) is one of the names of Quoted.  Spelling, quoting, letter case   *)
(* and the description of the targets are left out.                        *)
(***************************************************************************)
EXTENDS Naturals, Sequences, FiniteSets, SequencesExt

CONSTANTS
    Word,   \* the words of a command
    Quoted  \* word |-> the words it lexes to, for words that are command lines

Separator   == ";"
Assignment  == {"X=1"}
Wrapper     == {"sudo", "doas", "command", "builtin", "nohup", "env"}
Option      == {"-n", "-c", "-r", "-exec", "-execdir", "-delete", "--hard", "-enc", "-encodedcommand"}
Dynamic     == {"$X"}
Evaluator   == {"eval", "invoke-expression", "iex"}
Shells      == {"sh", "bash", "zsh", "dash"}
Removes     == {"rm", "rmdir", "unlink", "del", "erase", "rd", "remove-item", "ri"}
Permissions == {"chmod", "chown", "chgrp", "setfacl", "icacls", "takeown", "set-acl"}
Disks       == {"mkfs", "diskpart", "clear-disk", "initialize-disk", "remove-partition",
                "format", "format.com", "dd"}
System      == {"set-executionpolicy", "bcdedit", "netsh"}
SubRisk     == [reg |-> {"add", "delete", "import"}, sc |-> {"config", "delete", "create"}]

MaxDepth == 4

\* What an inspection comes to: found says how many risks were recorded.
Unclear   == [ok |-> FALSE, found |-> 0]
Found(n)  == [ok |-> TRUE, found |-> n]
Both(a, b) == IF a.ok /\ b.ok THEN Found(a.found + b.found) ELSE Unclear

\* lex and split_segments
Lexed(word) == IF word \in DOMAIN Quoted THEN Quoted[word] ELSE <<word>>
Ends(words) == {i \in 1..Len(words) + 1 : i > Len(words) \/ words[i] = Separator}
Segments(words) ==
    LET cuts == {0} \cup Ends(words)
        After(i) == CHOOSE j \in cuts : j > i /\ \A k \in cuts : k > i => j <= k
    IN {s \in {SubSeq(words, i + 1, After(i) - 1) : i \in cuts \ {Len(words) + 1}} : s # <<>>}

FirstAt(words, P(_)) ==
    LET at == {i \in DOMAIN words : P(words[i])}
    IN IF at = {} THEN 0 ELSE CHOOSE i \in at : \A j \in at : i <= j
From(words, i) == SubSeq(words, i, Len(words))

\* Posix: assignments, then wrappers with their options and assignments.
RECURSIVE AfterWrappers(_), AfterOptions(_)
AfterOptions(words) ==
    IF words # <<>> /\ Head(words) \in Option \cup Assignment THEN AfterOptions(Tail(words)) ELSE words
AfterWrappers(words) ==
    IF words # <<>> /\ Head(words) \in Wrapper THEN AfterWrappers(AfterOptions(Tail(words))) ELSE words
RECURSIVE AfterAssignments(_)
AfterAssignments(words) ==
    IF words # <<>> /\ Head(words) \in Assignment THEN AfterAssignments(Tail(words)) ELSE words
\* Mutant: the wrapper is taken for the command.
EntryOfWrapper(words) == AfterAssignments(words)
Entry(words) == AfterWrappers(AfterAssignments(words))

\* inspect_git: the first word that is no option is the subcommand.
InspectGit(args) ==
    LET at == FirstAt(args, LAMBDA a : a \notin Option)
    IN IF at = 0 THEN Found(0)
       ELSE IF args[at] = "clean" \/ (args[at] = "reset" /\ "--hard" \in ToSet(From(args, at + 1)))
       THEN Found(1) ELSE Found(0)

\* The table at the end of inspect_segment.
InspectName(name, args) ==
    CASE name \in Removes \cup Permissions \cup Disks \cup System -> Found(1)
      [] name = "git" -> InspectGit(args)
      [] name \in DOMAIN SubRisk -> Found(IF args # <<>> /\ Head(args) \in SubRisk[name] THEN 1 ELSE 0)
      [] OTHER -> Found(0)

RECURSIVE InspectTokens(_, _), InspectSegment(_, _)
InspectTokens(words, depth) ==
    IF depth > MaxDepth THEN Unclear
    ELSE LET found == {InspectSegment(s, depth) : s \in Segments(words)}
         IN IF \E f \in found : ~f.ok THEN Unclear
            ELSE Found(Cardinality({f \in found : f.found > 0}))

\* nested_shell
InspectShell(name, args, depth) ==
    LET marker == FirstAt(args, LAMBDA a : a = "-c")
    IN CASE name \notin Shells -> Found(0)
         [] ToSet(args) \cap {"-enc", "-encodedcommand"} # {} -> Unclear
         [] marker = 0 -> Found(0)
         [] marker = Len(args) -> Unclear
         [] OTHER -> InspectTokens(Lexed(args[marker + 1]), depth + 1)

InspectXargs(args, depth) ==
    LET at == FirstAt(args, LAMBDA a : a \notin Option)
    IN IF at = 0 THEN Unclear ELSE InspectSegment(From(args, at), depth + 1)

\* find: of each marker the first; of its command only the first word.
InspectFind(args, depth) ==
    LET Marked(marker) ==
            LET at == FirstAt(args, LAMBDA a : a = marker)
            IN CASE at = 0 -> Found(0)
                 [] at = Len(args) -> Unclear
                 [] OTHER -> InspectSegment(<<args[at + 1]>>, depth + 1)
        deletes == Found(IF "-delete" \in ToSet(args) THEN 1 ELSE 0)
    IN Both(Both(Marked("-exec"), Marked("-execdir")), deletes)

InspectSegment(words, depth) ==
    LET entry == Entry(words)
        name  == Head(entry)
        args  == Tail(entry)
    IN CASE entry = <<>> -> Found(0)
         [] name \in Dynamic \cup Evaluator -> Unclear
         [] name = "xargs" -> InspectXargs(args, depth)
         [] name = "find" -> InspectFind(args, depth)
         [] OTHER -> Both(InspectShell(name, args, depth), InspectName(name, args))

\* assess: the class of a command for the policy.
Assess(words) ==
    LET r == InspectTokens(words, 0)
    IN IF ~r.ok THEN "unclear" ELSE IF r.found > 0 THEN "risky" ELSE "plain"

-----------------------------------------------------------------------------
(* A reference: the simple commands a line would start, each a name and its *)
(* arguments, whatever stands around them.  It reads the line from the left *)
(* as a shell does, and follows nested command lines as deep as they go.    *)

\* Words before the command itself: assignments, wrappers and their options.
Leading(words, i) ==
    \A j \in 1..i : \/ words[j] \in Assignment \cup Wrapper
                    \/ words[j] \in Option /\ \E k \in 1..j - 1 : words[k] \in Wrapper

RECURSIVE Started(_)
Started(words) ==
    LET Of(s) ==
            LET at   == CHOOSE i \in DOMAIN s : Leading(s, i - 1) /\ ~Leading(s, i)
                args == From(s, at + 1)
                Next(P(_)) == {j \in DOMAIN args : P(args[j]) /\ \A k \in 1..j - 1 : ~P(args[k])}
                inner == CASE s[at] \in Shells -> {Lexed(args[j + 1]) : j \in Next(LAMBDA a : a = "-c") \ {Len(args)}}
                           [] s[at] = "xargs" -> {From(args, j) : j \in Next(LAMBDA a : a \notin Option)}
                           [] s[at] = "find" -> {<<args[j + 1]>> : j \in (Next(LAMBDA a : a = "-exec")
                                                                \cup Next(LAMBDA a : a = "-execdir")) \ {Len(args)}}
                           [] OTHER -> {}
            IN {<<s[at], args>>} \cup UNION {Started(w) : w \in inner}
    IN UNION {Of(s) : s \in {t \in Segments(words) : ~Leading(t, Len(t))}}

\* Those that remove, or change what cannot be changed back.
Harms(command) ==
    LET name == command[1] args == command[2] IN
    \/ name \in Removes \cup Permissions \cup Disks \cup System
    \/ name = "git" /\ \E i \in DOMAIN args :
          /\ \A j \in 1..i - 1 : args[j] \in Option
          /\ \/ args[i] = "clean"
             \/ args[i] = "reset" /\ "--hard" \in {args[j] : j \in i..Len(args)}
    \/ name = "find" /\ "-delete" \in ToSet(args)
    \/ name \in DOMAIN SubRisk /\ args # <<>> /\ args[1] \in SubRisk[name]

\* A command line that would remove, or irrevocably change, something is never
\* plain, however it is wrapped, nested or joined with others (it is asked about
\* each time), and one is called risky only if it would.
AssessedSound(words) ==
    LET harmful == \E c \in Started(words) : Harms(c)
    IN /\ harmful => Assess(words) # "plain"
       /\ Assess(words) = "risky" => harmful
=============================================================================

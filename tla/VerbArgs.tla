------------------------------ MODULE VerbArgs ------------------------------
(***************************************************************************)
(* What `tm send`, `tm wait` and `tm compact` make of their arguments      *)
(* (shared/verb-args.ts, cli/parse.ts, cli/dispatch.ts).  The words typed  *)
(* are read once into a request; the Claude engine writes the request out  *)
(* as arguments again, and the body of the verb reads those a second time  *)
(* (claude-engine.ts, send.ts, wait.ts, compact.ts).                       *)
(*                                                                         *)
(* An argument is a word, a flag, or a flag with a word joined to it by    *)
(* "=".  A prompt may be any argument, one that looks like a flag too.     *)
(* How a flag and its value are spelled out in characters, and the wording *)
(* of the refusals, are left out.                                          *)
(***************************************************************************)
EXTENDS Naturals, Sequences

CONSTANTS
    Words,      \* words that are typed, the empty one among them
    Decimal,    \* how Number and String write those that are whole numbers
    Unset,
    MaxArgs     \* bound: arguments of a command

\* Decimal is of the numbers that Number keeps exactly.
ASSUME ArgsAssumption ==
    /\ MaxArgs \in Nat /\ "" \in Words
    /\ \A w \in DOMAIN Decimal : Decimal[w] \in DOMAIN Decimal /\ Decimal[Decimal[w]] = Decimal[w]

VARIABLES
    command,    \* the verb
    argv,       \* its arguments so far
    stage,      \* "typed", "help", "refused", "asked", "acted"
    request,    \* what the command line asks of the engine
    acted       \* what the body of the verb works on

argsVars == <<command, argv, stage, request, acted>>

Argument(flag, word) == [flag |-> flag, word |-> word]
Word(w)  == Argument(Unset, w)
Flag(f)  == Argument(f, Unset)
Rest     == Flag("")        \* `--`
EmptyArg == Word("")
Help     == Flag("help")

Flags    == {"prompt", "timeout", "pane-quiet", "fresh", "help", ""}
Typable  == [flag : {Unset}, word : Words] \cup [flag : Flags, word : {Unset}]
              \cup [flag : {"prompt", "timeout"}, word : Words]

\* What an argument list may be read as.
Times    == {Word(w) : w \in DOMAIN Decimal \cup {"1800"}}
Requests == [name : Typable, prompt : Typable \cup {Unset}, pane_quiet : BOOLEAN, fresh : BOOLEAN,
             timeout : Typable \cup Times \cup {Unset}]

ASSUME UnsetAssumption ==
    Unset \notin Words \cup Flags /\ Unset \notin Typable \cup Times /\ Unset \notin Requests

-----------------------------------------------------------------------------
(* The two readings                                                         *)

TakesValue(v) == IF v = "send" THEN {"prompt", "timeout"} ELSE {"timeout"}
Switches(v) == CASE v = "send" -> {"pane-quiet"} [] v = "wait" -> {"pane-quiet", "fresh"} [] OTHER -> {}

Refusal == Unset
NothingRead(v) == [name |-> EmptyArg, prompt |-> Unset, pane_quiet |-> FALSE, fresh |-> FALSE,
                   timeout |-> IF v = "compact" THEN Word("1800") ELSE Unset]

\* What a flag sets to a value, what a switch sets, and a word of its own.
Value(got, f, a) == IF f = "prompt" THEN [got EXCEPT !.prompt = a] ELSE [got EXCEPT !.timeout = a]
Switch(got, f) == IF f = "fresh" THEN [got EXCEPT !.fresh = TRUE] ELSE [got EXCEPT !.pane_quiet = TRUE]

\* What the arguments so far make, and what the next one is taken for: "any", the value of the
\* flag before it, the name that follows `--`; or "nothing" more is read, or one is refused.
Reached(got, next) == [got |-> got, next |-> next]

ReadAny(v, got, arg) ==
    IF arg.flag \in TakesValue(v)
    THEN IF arg.word = Unset THEN Reached(got, arg.flag)
         ELSE Reached(Value(got, arg.flag, Word(arg.word)), "any")
    ELSE IF arg.flag \in Switches(v) /\ arg.word = Unset THEN Reached(Switch(got, arg.flag), "any")
    ELSE IF arg = Rest /\ v = "send" THEN Reached([got EXCEPT !.name = EmptyArg], "name")
    ELSE IF arg.flag # Unset THEN Reached(got, "refused")
    ELSE IF got.name = EmptyArg THEN Reached([got EXCEPT !.name = arg], "any")
    ELSE IF v = "send" THEN Reached(got, "refused")
    ELSE Reached(Value(got, "timeout", arg), "any")

ReadOne(v, so, arg) ==
    CASE so.next = "any" -> ReadAny(v, so.got, arg)
      [] so.next \in {"prompt", "timeout"} -> Reached(Value(so.got, so.next, arg), "any")
      [] so.next = "name" -> Reached([so.got EXCEPT !.name = arg], "nothing")
      [] OTHER -> so

Reading(v, args) ==
    LET upTo[i \in 0..Len(args)] ==
            IF i = 0 THEN Reached(NothingRead(v), "any") ELSE ReadOne(v, upTo[i - 1], args[i])
        so == upTo[Len(args)]
    IN  IF so.next \in {"prompt", "timeout", "refused"} THEN Refusal ELSE so.got

\* The request the arguments make, unless a check refuses them: the command line's
\* and the body's are the same, but for the name of compact, which the body checks.
WholeNumber(a) == a = Unset \/ \E w \in DOMAIN Decimal : a = Word(w)
InSeconds(a) == IF a = Unset THEN Unset ELSE Word(Decimal[a.word])
Checked(v, got) ==
    IF \/ got = Refusal
       \/ got.name = EmptyArg
       \/ v = "send" /\ got.prompt = Unset
       \/ ~WholeNumber(got.timeout)
    THEN Refusal
    ELSE [got EXCEPT !.timeout = InSeconds(@)]
Request(v, args) == Checked(v, Reading(v, args))

\* The scan for a request for help ends at a prompt and at the first word.
TriggersHelp(args) ==
    \E i \in DOMAIN args : args[i] = Help /\ \A j \in 1..i - 1 : args[j].flag \notin {Unset, "prompt"}

\* The engine writes the request out: the prompt stands behind its flag.
Rebuilt(v, r) ==
    <<r.name>>
    \o (IF v = "send" THEN <<Flag("prompt"), r.prompt>> ELSE <<>>)
    \o (IF r.timeout # Unset THEN <<Flag("timeout"), r.timeout>> ELSE <<>>)
    \o (IF r.fresh THEN <<Flag("fresh")>> ELSE <<>>)
    \o (IF r.pane_quiet THEN <<Flag("pane-quiet")>> ELSE <<>>)

-----------------------------------------------------------------------------
(* A command                                                                *)

\* Variation: the prompt is written out only when there is text in it.
RelayText(v, r) ==
    Request(v, IF v = "send" /\ r.prompt = EmptyArg THEN <<r.name>> ELSE Rebuilt(v, r))

\* What the body of the verb reads from the engine's arguments.
Relayed(v, r) == Request(v, Rebuilt(v, r))

ArgsInit ==
    /\ command \in {"send", "wait", "compact"} /\ argv = <<>> /\ stage = "typed"
    /\ request = Refusal /\ acted = Refusal

Type ==
    /\ stage = "typed" /\ Len(argv) < MaxArgs
    /\ \E a \in Typable : argv' = Append(argv, a)
    /\ UNCHANGED <<command, stage, request, acted>>

\* runCli: help, then the verb.  The router sends a name it does not know to the
\* Claude engine, too.
RunCli ==
    /\ stage = "typed"
    /\ request' = IF TriggersHelp(argv) THEN Refusal ELSE Request(command, argv)
    /\ stage' = CASE TriggersHelp(argv) -> "help"
                  [] request' # Refusal -> "asked"
                  [] OTHER -> "refused"
    /\ UNCHANGED <<command, argv, acted>>

\* The verb's body has the engine's arguments.
RunBody ==
    /\ stage = "asked"
    /\ acted' = Relayed(command, request) /\ stage' = "acted"
    /\ UNCHANGED <<command, argv, request>>

ArgsNext == Type \/ RunCli \/ RunBody

ArgsSpec == ArgsInit /\ [][ArgsNext]_argsVars

-----------------------------------------------------------------------------
(* A prompt is data, whatever it looks like: it never makes `tm` show help *)
(* in place of sending it (cli/parse.ts, triggersHelp), and the engine's   *)
(* second reading comes to the very request of the first, the prompt among *)
(* it (claude-engine.ts, send, wait and compact).  A name that looks like a *)
(* flag, which `--` lets through and no teammate has, is left out.          *)
PromptIsData ==
    /\ stage = "help" => \E i \in DOMAIN argv : argv[i] = Help /\ (i = 1 \/ argv[i - 1] # Flag("prompt"))
    /\ stage = "acted" /\ request.name.flag = Unset => acted = request
=============================================================================

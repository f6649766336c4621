------------------------------ MODULE IP2UnixCli ------------------------------
(***************************************************************************)
(* The ip2unix command (src/ip2unix.cc, main and run_preload): parse the  *)
(* options with getopt_long("+hcpr:f:F:v"), check that the rules come    *)
(* from exactly one source, load them, and exec the program with the     *)
(* library preloaded and the rules and verbosity in the environment.     *)
(*                                                                         *)
(* The command line is a sequence of tokens: the options of the option    *)
(* string, one unknown option, "--", and words (file names, rule texts,   *)
(* program names).  A word in ParseOk is one the rule parser accepts (the *)
(* parser is not in the repository).  Clustered short options ("-cv") and *)
(* attached arguments ("-ffile") are not modelled; usage and version      *)
(* texts and the table print_rules writes are output only.                 *)
(***************************************************************************)
EXTENDS Integers, Sequences, FiniteSets, SequencesExt

CONSTANTS
    Words,      \* non-option tokens
    ParseOk,    \* the words parse_rules / parse_rule_arg accept
    MaxArgs,    \* bound: length of the command line after argv[0]
    Self,       \* /proc/self/exe, the ip2unix binary that is also the library
    OtherLib,   \* a library already in LD_PRELOAD
    None

ASSUME ParseOk \subseteq Words /\ MaxArgs \in Nat

ArgOpts  == {"-r", "-f", "-F"}                   \* "r:", "f:", "F:"
FlagOpts == {"-c", "-p", "-v"}
ExitOpts == {"-h", "--version"}
Options  == ArgOpts \cup FlagOpts \cup ExitOpts \cup {"-x", "--"}
Tokens   == Options \cup Words

VARIABLES
    argv,       \* the command line after argv[0]
    optind,     \* getopt's index into argv
    check_only, verbosity, rulefile, ruledata, rule_args,
    rules,      \* the loaded rules: the rule args, or the rules of the file/data
    pc,         \* "getopt", "validate", "load", "run", then "exit" or "exec"
    status,     \* exit status once pc = "exit"
    env,        \* LD_PRELOAD (a sequence of libraries, None if unset),
                \* __IP2UNIX_RULES, __IP2UNIX_VERBOSITY
    env0        \* auxiliary: the environment ip2unix was started with

vars == <<argv, optind, check_only, verbosity, rulefile, ruledata, rule_args,
          rules, pc, status, env, env0>>

Envs == [preload : {None, <<>>, <<OtherLib>>}, rules : {None}, verbosity : {None, 2}]

Init ==
    /\ argv \in UNION {[1..n -> Tokens] : n \in 0..MaxArgs}
    /\ optind = 1
    /\ check_only = FALSE /\ verbosity = 0
    /\ rulefile = None /\ ruledata = None /\ rule_args = <<>> /\ rules = <<>>
    /\ pc = "getopt" /\ status = None
    /\ env \in Envs /\ env0 = env

Exit(code) == pc' = "exit" /\ status' = code
Token == argv[optind]
Operands == SubSeq(argv, optind, Len(argv))

\* Where getopt_long goes on after an option it returned.
NextOptind(tok) == optind + (IF tok \in ArgOpts THEN 2 ELSE 1)

(***************************************************************************)
(* One turn of the getopt_long loop.  With the leading "+" getopt stops   *)
(* at the first non-option; "--" is consumed and stops it too.  A missing *)
(* argument or an unknown option makes it return '?': usage and failure.  *)
(***************************************************************************)
GetOptDone ==
    /\ pc = "getopt"
    /\ optind <= Len(argv) => Token \in Words \cup {"--"}
    /\ optind' = IF optind <= Len(argv) /\ Token = "--" THEN optind + 1 ELSE optind
    /\ pc' = "validate"
    /\ UNCHANGED <<argv, check_only, verbosity, rulefile, ruledata, rule_args, rules, status, env, env0>>

GetOptExit ==
    /\ pc = "getopt" /\ optind <= Len(argv)
    /\ \/ Token \in ExitOpts /\ Exit("success")
       \/ Token = "-x" /\ Exit("failure")
       \/ Token \in ArgOpts /\ optind = Len(argv) /\ Exit("failure")
    /\ UNCHANGED <<argv, optind, check_only, verbosity, rulefile, ruledata, rule_args, rules, env, env0>>

GetOptFlag ==
    /\ pc = "getopt" /\ optind <= Len(argv) /\ Token \in FlagOpts
    /\ check_only' = (check_only \/ Token = "-c")
    /\ verbosity' = verbosity + (IF Token = "-v" THEN 1 ELSE 0)
    /\ optind' = NextOptind(Token)
    /\ UNCHANGED <<argv, rulefile, ruledata, rule_args, rules, pc, status, env, env0>>

GetOptArg ==
    /\ pc = "getopt" /\ optind < Len(argv) /\ Token \in ArgOpts
    /\ LET optarg == argv[optind + 1] IN
       /\ rule_args' = IF Token = "-r" THEN Append(rule_args, optarg) ELSE rule_args
       /\ rulefile' = IF Token = "-f" THEN optarg ELSE rulefile
       /\ ruledata' = IF Token = "-F" THEN optarg ELSE ruledata
    /\ optind' = NextOptind(Token)
    /\ UNCHANGED <<argv, check_only, verbosity, rules, pc, status, env, env0>>

\* The two exclusivity checks after the loop.
Validate ==
    /\ pc = "validate"
    /\ IF (rule_args # <<>> /\ (rulefile # None \/ ruledata # None))
          \/ (rulefile # None /\ ruledata # None)
       THEN Exit("failure") ELSE pc' = "load" /\ UNCHANGED status
    /\ UNCHANGED <<argv, optind, check_only, verbosity, rulefile, ruledata, rule_args, rules, env, env0>>

\* Variant of Parsed that takes every rule source as valid.
ParsedNoCheck(src) == src # <<>>

\* parse_rule_arg for each -r argument, or parse_rules of the file or data:
\* a source that exists and parses.
Parsed(src) == src # <<>> /\ \A i \in DOMAIN src : src[i] \in ParseOk

\* Load the rules from the one source; -c ends here.
LoadRules ==
    /\ pc = "load"
    /\ LET src    == CASE rule_args # <<>> -> rule_args
                       [] rulefile # None  -> <<rulefile>>
                       [] ruledata # None  -> <<ruledata>>
                       [] OTHER            -> <<>>
           parsed == Parsed(src)
       IN  /\ rules' = IF parsed THEN src ELSE rules
           /\ IF ~parsed THEN Exit("failure")
              ELSE IF check_only THEN Exit("success")
              ELSE pc' = "run" /\ UNCHANGED status
    /\ UNCHANGED <<argv, optind, check_only, verbosity, rulefile, ruledata, rule_args, env, env0>>

\* Variant of RunPreload that replaces LD_PRELOAD instead of prepending.
RunPreloadOverwrite(e) == [e EXCEPT !.preload = <<Self>>, !.rules = rules]

\* run_preload's environment: Self in front of a non-empty LD_PRELOAD (or
\* alone if it is unset or empty), and the encoded rules.
RunPreload(e) ==
    [e EXCEPT !.preload = IF @ \in {None, <<>>} THEN <<Self>> ELSE <<Self>> \o @,
              !.rules = rules]

(***************************************************************************)
(* After the options: no operand is a failure; else the verbosity goes   *)
(* into the environment if non-zero, then run_preload, which fails if     *)
(* readlink fails (before touching LD_PRELOAD) or if execvpe returns.    *)
(***************************************************************************)
Run ==
    /\ pc = "run"
    /\ IF Operands = <<>>
       THEN Exit("failure") /\ UNCHANGED env
       ELSE LET e1 == IF verbosity > 0 THEN [env EXCEPT !.verbosity = verbosity] ELSE env
            IN  \E readlink_ok, exec_ok \in BOOLEAN :
                  /\ env' = IF readlink_ok THEN RunPreload(e1) ELSE e1
                  /\ IF readlink_ok /\ exec_ok
                     THEN pc' = "exec" /\ UNCHANGED status
                     ELSE Exit("failure")
    /\ UNCHANGED <<argv, optind, check_only, verbosity, rulefile, ruledata, rule_args, rules, env0>>

Next == GetOptDone \/ GetOptExit \/ GetOptFlag \/ GetOptArg \/ Validate \/ LoadRules \/ Run

\* main() from the start of the getopt loop to exit or exec.
Spec == Init /\ [][Next]_vars

-----------------------------------------------------------------------------
TypeOK ==
    /\ optind \in 1..(MaxArgs + 1) /\ verbosity \in 0..MaxArgs
    /\ pc \in {"getopt", "validate", "load", "run", "exit", "exec"}
    /\ status \in {None, "success", "failure"}
    /\ rules \in Seq(ParseOk)

(***************************************************************************)
(* Reference parse of the command line, independent of the loop: the     *)
(* positions of the options, each one followed by its argument if it     *)
(* takes one, up to the first word or "--".                              *)
(***************************************************************************)
RECURSIVE OptPositions(_, _)
OptPositions(cl, i) ==
    IF i > Len(cl) \/ cl[i] \in Words \cup {"--"} THEN {}
    ELSE {i} \cup OptPositions(cl, i + (IF cl[i] \in ArgOpts THEN 2 ELSE 1))

\* Positions of option o, in order.
At(o) == SetToSortSeq({i \in OptPositions(argv, 1) : argv[i] = o}, <)
\* The arguments the command line gives option o, in order.
ArgsOf(o) == [k \in DOMAIN At(o) |-> argv[At(o)[k] + 1]]
RequestedRules ==
    IF ArgsOf("-r") # <<>> THEN ArgsOf("-r")
    ELSE IF ArgsOf("-f") # <<>> THEN <<Last(ArgsOf("-f"))>>
    ELSE <<Last(ArgsOf("-F"))>>

\* When ip2unix execs the program (main, run_preload): the command line has
\* no -c, the rules are those its options name (all -r arguments, or the
\* last -f or -F argument), LD_PRELOAD has ip2unix first and keeps every
\* library that was there, and the verbosity is the number of -v options,
\* or the inherited one if there is none.
ExecEnvironment ==
    pc = "exec" =>
      /\ At("-c") = <<>> /\ Operands # <<>>
      /\ rules = RequestedRules /\ env.rules = rules
      /\ env.preload = <<Self>> \o (IF env0.preload = None THEN <<>> ELSE env0.preload)
      /\ env.verbosity = IF At("-v") # <<>> THEN Len(At("-v")) ELSE env0.verbosity

=============================================================================

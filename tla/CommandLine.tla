---------------------------- MODULE CommandLine -----------------------------
(***************************************************************************)
(* The command line of debitmetre: src/src/main.rs, parse_args, and        *)
(* src/src/smoke.rs, parse_smoke.  Both walk the arguments once; an option *)
(* takes the next argument as its value, and the first error ends the      *)
(* walk.  Number gives the value of an argument that is an integer;        *)
(* "--config=p" and "--config=" stand for the joined form.                 *)
(***************************************************************************)
EXTENDS Naturals, SequencesExt

CONSTANTS
    Number,     \* function from the arguments that are integers to their values
    MaxPort,    \* the largest port: 65535 in the code
    Default     \* SmokeParams::default: [count, concurrency, port]

\* The numbers are unsigned.
ASSUME NumberAssumption == \A arg \in DOMAIN Number : Number[arg] \in Nat
ASSUME DefaultAssumption == Default \in [count : Nat, concurrency : Nat, port : Nat]

\* Arguments that begin with a dash
OptionLike(arg) ==
    arg \in {"-h", "--help", "--config", "--config=p", "--config=",
             "--count", "--concurrency", "--port"}

(***************************************************************************)
(* parse_smoke.  --concurrency stands for --response-bytes too (at least   *)
(* 1); --delay-ms and --oha, which have no further rule, are left out.     *)
(***************************************************************************)
Fields == [count |-> "--count", concurrency |-> "--concurrency", port |-> "--port"]

Walk == [params |-> Default, pending |-> "none", error |-> "none"]

\* A value for the pending option: not option-like, an integer, a port within range.
GoodValue(option, arg) ==
    /\ ~OptionLike(arg)
    /\ arg \in DOMAIN Number
    /\ option = "--port" => Number[arg] <= MaxPort

SmokeArg(w, arg) ==
    CASE w.error # "none" -> w
      [] w.error = "none" /\ w.pending # "none" ->
            IF GoodValue(w.pending, arg)
            THEN [w EXCEPT !.pending = "none",
                           !.params = [f \in DOMAIN @ |-> IF Fields[f] = w.pending
                                                          THEN Number[arg] ELSE @[f]]]
            ELSE [w EXCEPT !.error = "smoke"]
      [] w.error = "none" /\ w.pending = "none" ->
            IF arg \in {"-h", "--help"} THEN [w EXCEPT !.error = "help"]
            ELSE IF \E f \in DOMAIN Fields : Fields[f] = arg THEN [w EXCEPT !.pending = arg]
            ELSE [w EXCEPT !.error = "smoke"]

\* Plausible bug: the sizes are not checked after the walk.
SizesOk_unchecked(params) == TRUE

SizesOk(params) == params.count >= 1 /\ params.concurrency >= 1

SmokeWalk(args) ==
    LET w[n \in 0..Len(args)] == IF n = 0 THEN Walk ELSE SmokeArg(w[n - 1], args[n])
    IN  w[Len(args)]

parse_smoke(args) ==
    LET w == SmokeWalk(args)
    IN  IF w.error # "none" THEN [error |-> w.error]
        ELSE IF w.pending # "none" \/ ~SizesOk(w.params) THEN [error |-> "smoke"]
        ELSE [command |-> "smoke", params |-> w.params]

(***************************************************************************)
(* parse_args                                                              *)
(***************************************************************************)
MainArg(w, arg) ==
    CASE w.error # "none" -> w
      [] w.error = "none" /\ w.pending -> [w EXCEPT !.config = arg, !.pending = FALSE]
      [] w.error = "none" /\ ~w.pending ->
            CASE arg \in {"-h", "--help"} -> [w EXCEPT !.error = "help"]
              [] arg = "summary" -> [w EXCEPT !.summary_command = TRUE]
              [] arg = "--config" -> [w EXCEPT !.pending = TRUE]
              [] arg = "--config=p" -> [w EXCEPT !.config = "p"]
              [] arg = "--config=" -> [w EXCEPT !.error = "missing_value"]
              [] OTHER -> [w EXCEPT !.error = "unknown_option"]

MainStart == [summary_command |-> FALSE, config |-> "default", pending |-> FALSE, error |-> "none"]

MainWalk(args) ==
    LET w[n \in 0..Len(args)] == IF n = 0 THEN MainStart ELSE MainArg(w[n - 1], args[n])
    IN  w[Len(args)]

\* The smoke command must come first; everything else may come in any order.
parse_args(args) ==
    LET w == MainWalk(args)
    IN  IF args # <<>> /\ args[1] = "smoke" THEN parse_smoke(Tail(args))
        ELSE IF w.error # "none" THEN [error |-> w.error]
        ELSE IF w.pending THEN [error |-> "missing_value"]
        ELSE [command |-> IF w.summary_command THEN "summary" ELSE "run", config |-> w.config]
=============================================================================

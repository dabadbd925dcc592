----------------------------- MODULE OptionScan -----------------------------
(***************************************************************************)
(* How every command of wolfssl finds its options (src/tools/clu_funcs.c). *)
(* wolfCLU_GetOpt does not walk the command line: it walks the command's   *)
(* table of options, keeps its place in the table in optind, and asks      *)
(* wolfCLU_checkForArg for each whether the command line holds it.         *)
(*                                                                         *)
(* A command line is a sequence of tokens; argv[0] of the code is element  *)
(* 1 here.  A table is a sequence of records [name, has_arg, val].         *)
(***************************************************************************)
EXTENDS ErrorCodes, Sequences, FiniteSets

CONSTANT None           \* C's NULL

(* The tokens that compare equal to "-help" over their own length.         *)
HelpPrefixes == {"-", "-h", "-he", "-hel", "-help"}

(* wolfCLU_checkForArg: where the command line holds the term, counted     *)
(* from 0, so that a term found at the program's name counts as not found. *)
CheckForArg(term, argv) ==
  LET found == {i \in DOMAIN argv : argv[i] = term}
  IN  IF term \in HelpPrefixes
      THEN IF \E i \in DOMAIN argv : argv[i] \in HelpPrefixes THEN 1 ELSE 0
      ELSE IF Cardinality(found) > 1 THEN UserInputError
      ELSE IF found = {} THEN 0
      ELSE (CHOOSE i \in found : TRUE) - 1

(* The places of the table, from optind on, that end a call.               *)
Stops(table, argv, optind) ==
  {j \in DOMAIN table : j > optind /\ CheckForArg(table[j].name, argv) # 0}

(* wolfCLU_GetOpt that forgets to step optind.                             *)
BadGetOpt(table, argv, optind) ==
  LET stops == Stops(table, argv, optind)
      j     == CHOOSE k \in stops : \A l \in stops : k <= l
  IN  IF stops = {}
      THEN [option |-> EndOfArgs, optarg |-> None, optind |-> optind]
      ELSE [option |-> table[j].val, optarg |-> None, optind |-> optind]

(* wolfCLU_GetOpt, as every command calls it (with *opt_index = 1): the    *)
(* option it returns, what optarg is then, and where optind is left.       *)
GetOpt(table, argv, optind) ==
  LET stops == Stops(table, argv, optind)
      j     == CHOOSE k \in stops : \A l \in stops : k <= l
      index == CheckForArg(table[j].name, argv)
      value == IF table[j].has_arg /\ index + 2 <= Len(argv)
               THEN argv[index + 2] ELSE None
  IN  IF stops = {}
      THEN [option |-> EndOfArgs, optarg |-> None, optind |-> Len(table)]
      ELSE IF index = UserInputError
      THEN [option |-> ArgFoundTwice, optarg |-> None, optind |-> j]
      ELSE [option |-> table[j].val, optarg |-> value, optind |-> j]
=============================================================================

----------------------------- MODULE ErrorCodes -----------------------------
(***************************************************************************)
(* What the functions of wolfssl return (wolfclu/clu_error_codes.h).       *)
(***************************************************************************)
EXTENDS Integers

Success        == "WOLFCLU_SUCCESS"
FatalError     == "WOLFCLU_FATAL_ERROR"
UserInputError == -1001
ArgFoundTwice  == "ARG_FOUND_TWICE"
EndOfArgs      == "END_OF_ARGS"
=============================================================================

--------------------------- MODULE DecimalBounded ---------------------------
(***************************************************************************)
(* wolfCLU_parseDecimalBounded (src/tools/clu_funcs.c), which reads the    *)
(* port and the number of requests of "wolfssl ocsp": digits only, within  *)
(* two bounds, and with no step that could overflow a long.                *)
(*                                                                         *)
(* A string is a sequence of digits 0 .. 9 and of Other, any character     *)
(* that is no digit.  The loop takes one step a character.                 *)
(***************************************************************************)
EXTENDS ErrorCodes, Sequences

CONSTANTS
  Strings,      \* the strings to consider
  Bounds,       \* the pairs <<minVal, maxVal>> the callers use
  LongMax       \* LONG_MAX

Digit == 0 .. 9
Other == 10     \* a character that is no digit

ASSUME DecimalAssumption ==
  /\ Strings \subseteq Seq(Digit \cup {Other})
  /\ LongMax \in Nat
  /\ Bounds \subseteq {b \in Nat \X Nat : b[2] <= LongMax}

VARIABLES
  str, minVal, maxVal,  \* the arguments
  p,                    \* characters read
  val, over,            \* the value so far, and whether it went over maxVal
  result, out,          \* the result, Unfinished while the function runs
  number                \* history: the number the digits read so far denote

decimalVars == <<str, minVal, maxVal, p, val, over, result, out, number>>

Unfinished == "unfinished"
Unset      == -1        \* *out is not written

(* The value stays in the range of a long: no multiplication overflows.    *)
DecimalTypeOK ==
  /\ str \in Strings
  /\ minVal \in Nat /\ maxVal \in 0 .. LongMax
  /\ p \in 0 .. Len(str)
  /\ val \in 0 .. LongMax
  /\ over \in BOOLEAN
  /\ result \in {Unfinished, Success, FatalError}
  /\ out \in {Unset} \cup 0 .. LongMax
  /\ number \in Nat

DecimalStart(s, b) ==
  /\ str = s /\ minVal = b[1] /\ maxVal = b[2]
  /\ p = 0 /\ val = 0 /\ over = FALSE
  /\ result = Unfinished /\ out = Unset
  /\ number = 0

DecimalInit == \E s \in Strings, b \in Bounds : DecimalStart(s, b)

(* The bound is tested before the multiplication.                          *)
TooBig(digit) == maxVal < digit \/ val > (maxVal - digit) \div 10

(* A digit that fits again after one that went over the bound.             *)
BadReadDigit ==
  /\ result = Unfinished /\ p < Len(str) /\ str[p + 1] \in Digit
  /\ p' = p + 1
  /\ number' = 10 * number + str[p + 1]
  /\ IF TooBig(str[p + 1])
     THEN over' = TRUE /\ UNCHANGED val
     ELSE over' = FALSE /\ val' = 10 * val + str[p + 1]
  /\ UNCHANGED <<str, minVal, maxVal, result, out>>

(* One digit; once over the bound the loop only looks for other characters.*)
ReadDigit ==
  /\ result = Unfinished /\ p < Len(str) /\ str[p + 1] \in Digit
  /\ p' = p + 1
  /\ number' = 10 * number + str[p + 1]
  /\ IF over \/ TooBig(str[p + 1])
     THEN over' = TRUE /\ UNCHANGED val
     ELSE val' = 10 * val + str[p + 1] /\ UNCHANGED over
  /\ UNCHANGED <<str, minVal, maxVal, result, out>>

ReadOther ==
  /\ result = Unfinished /\ p < Len(str) /\ str[p + 1] = Other
  /\ result' = FatalError
  /\ UNCHANGED <<str, minVal, maxVal, p, val, over, out, number>>

(* The end of the string: p == str is the empty one.                       *)
Finish ==
  /\ result = Unfinished /\ p = Len(str)
  /\ IF over \/ p = 0 \/ val < minVal \/ val > maxVal
     THEN result' = FatalError /\ UNCHANGED out
     ELSE result' = Success /\ out' = val
  /\ UNCHANGED <<str, minVal, maxVal, p, val, over, number>>

DecimalEnded == result # Unfinished /\ UNCHANGED decimalVars

DecimalNext == ReadDigit \/ ReadOther \/ Finish \/ DecimalEnded

DecimalSpec == DecimalInit /\ [][DecimalNext]_decimalVars

-----------------------------------------------------------------------------
(* Whatever the string and the bounds, the function accepts exactly the    *)
(* digit strings whose number lies within the bounds, and gives back that  *)
(* very number.                                                            *)
DecimalCorrect ==
  LET good == /\ str # << >>
              /\ \A i \in 1 .. Len(str) : str[i] \in Digit
              /\ number \in minVal .. maxVal
  IN  /\ result = Success => good /\ out = number
      /\ result = FatalError => out = Unset /\ (p = Len(str) => ~good)
      /\ result = FatalError /\ p < Len(str) => str[p + 1] \notin Digit
=============================================================================

------------------------------ MODULE Commands ------------------------------
(***************************************************************************)
(* One process of wolfssl (src/clu_main.c): main() finds the mode on the   *)
(* command line and calls one command.  The commands that share nothing    *)
(* with processes of another command are composed here:                    *)
(*                                                                         *)
(*   rand    RandCommand                                                   *)
(*   ocsp    OcspCommand, with the responder or client it talks to         *)
(*   number  DecimalBounded, the numbers among the options of ocsp         *)
(*   enc     CryptCommand, with the process of enc -d that follows         *)
(*   genkey  KeyCommands, with the processes that sign and verify          *)
(*   dhparam DhDer, once it has parameters and a key to write              *)
(***************************************************************************)
EXTENDS RandCommand, DecimalBounded, OcspCommand, CryptCommand, KeyCommands, DhDer

(* There is something to run each command on.                              *)
ASSUME CommandsAssumption ==
  /\ Lines # {} /\ Strings # {} /\ Bounds # {} /\ OcspSessions # {} /\ Givens # {}
  /\ Texts # {} /\ Uses # {} /\ DerNumbers # {}

VARIABLE flag       \* the mode main() found

commandsVars == <<flag, randVars, decimalVars, ocspVars, cryptVars, keyVars, derVars>>

(* What a command's variables are while main() has not called it: of no    *)
(* account, but the same in every process.                                 *)
SomeLine == CHOOSE line \in Lines : TRUE
SomeString == CHOOSE s \in Strings : TRUE
SomeBounds == CHOOSE b \in Bounds : TRUE
SomeSession == CHOOSE lines \in OcspSessions : TRUE
SomeGivens == CHOOSE g \in Givens : TRUE
SomeText == CHOOSE text \in Texts : TRUE
SomeUse == CHOOSE u \in Uses : TRUE
SomeNumber == CHOOSE n \in DerNumbers : TRUE

NoRand == RandStart(SomeLine)
NoDecimal == DecimalStart(SomeString, SomeBounds)
NoOcsp == OcspStart(SomeSession)
NoCrypt == CryptStart(SomeGivens, TRUE, SomeText)
NoKeys == KeyStart(SomeUse)
NoDer == DerStart(SomeNumber, SomeNumber, SomeNumber)

CommandsInit ==
  \/ flag = "rand"    /\ RandInit /\ NoDecimal   /\ NoOcsp   /\ NoCrypt   /\ NoKeys  /\ NoDer
  \/ flag = "number"  /\ NoRand   /\ DecimalInit /\ NoOcsp   /\ NoCrypt   /\ NoKeys  /\ NoDer
  \/ flag = "ocsp"    /\ NoRand   /\ NoDecimal   /\ OcspInit /\ NoCrypt   /\ NoKeys  /\ NoDer
  \/ flag = "enc"     /\ NoRand   /\ NoDecimal   /\ NoOcsp   /\ CryptInit /\ NoKeys  /\ NoDer
  \/ flag = "genkey"  /\ NoRand   /\ NoDecimal   /\ NoOcsp   /\ NoCrypt   /\ KeyInit /\ NoDer
  \/ flag = "dhparam" /\ NoRand   /\ NoDecimal   /\ NoOcsp   /\ NoCrypt   /\ NoKeys  /\ DerInit

Rand == flag = "rand" /\ RandNext /\ UNCHANGED <<flag, decimalVars, ocspVars, cryptVars, keyVars, derVars>>
Number == flag = "number" /\ DecimalNext /\ UNCHANGED <<flag, randVars, ocspVars, cryptVars, keyVars, derVars>>
Ocsp == flag = "ocsp" /\ OcspNext /\ UNCHANGED <<flag, randVars, decimalVars, cryptVars, keyVars, derVars>>
Enc == flag = "enc" /\ CryptNext /\ UNCHANGED <<flag, randVars, decimalVars, ocspVars, keyVars, derVars>>
Keys == flag = "genkey" /\ KeyNext /\ UNCHANGED <<flag, randVars, decimalVars, ocspVars, cryptVars, derVars>>
Dh == flag = "dhparam" /\ DerNext /\ UNCHANGED <<flag, randVars, decimalVars, ocspVars, cryptVars, keyVars>>

CommandsNext == Rand \/ Number \/ Ocsp \/ Enc \/ Keys \/ Dh

CommandsSpec == CommandsInit /\ [][CommandsNext]_commandsVars /\ WF_commandsVars(CommandsNext)

-----------------------------------------------------------------------------
Returned ==
  CASE flag = "rand" -> randPc = "done"
    [] flag = "number" -> result # Unfinished
    [] flag = "ocsp" -> \A i \in OcspProcs : ocspPc[i] \in {"serve", "over"}
    [] flag = "enc"  -> cryptPc = "over"
    [] flag = "genkey" -> keyPc = "over"
    [] flag = "dhparam" -> derPc \in {"done", "refused"}

(* Every variable of every command keeps its type.                         *)
CommandsTypeOK == RandTypeOK /\ DecimalTypeOK /\ OcspTypeOK /\ CryptTypeOK /\ KeyTypeOK /\ DerTypeOK

(* rand accepts exactly the lines its usage allows, puts out as many bytes *)
(* as it was asked for in the one place that was named, and nothing on the *)
(* standard output beside a file; only what is lost as the stream is closed*)
(* goes unnoticed.                                                         *)
RandIsExact == NoLeak /\ Decides /\ WholeOutput

(* What enc wrote, enc -d gives back, with the same options and the same   *)
(* password, whatever the length and the last bytes of the text; and what  *)
(* it gives back with success is what was encrypted.                       *)
DecryptsWhatItEncrypted == RoundTrip /\ Decrypts

(* A signature made with the key of a pair verifies with its public half,  *)
(* and what verifies was signed so.                                        *)
VerifiesWhatItSigned == VerifiedIsSigned /\ SignedVerifies

(* A command that refuses its line, or finds a signature bad, leaves its   *)
(* output file as it was: rand's, the signature of -sign, the message of    *)
(* -verify.                                                                *)
OutputsKept == NotTruncated /\ NothingWritten

(* Whatever the command line, the strings and the files, no loop of the    *)
(* command turns for ever: not the one over the table of options, nor the  *)
(* rescan, nor those that fill, encipher and decipher chunk by chunk, nor  *)
(* the steps that write a key pair, sign and verify with it.               *)
CommandReturns == <>Returned
=============================================================================

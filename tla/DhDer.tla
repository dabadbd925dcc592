-------------------------------- MODULE DhDer --------------------------------
(***************************************************************************)
(* How "wolfssl dhparam" writes parameters and a key in DER                *)
(* (src/dh/clu_dh.c).  Each is written in two passes: the first only adds  *)
(* up lengths, for the size of the buffer and for the lengths that stand   *)
(* before what they measure; the second writes, and does not look at the   *)
(* buffer again.  The parameters get a buffer of their size; the key one   *)
(* of twice that size and eight bytes, which may be too small.             *)
(* What is written is modelled by where it is written.                     *)
(***************************************************************************)
EXTENDS Integers

CONSTANT DerNumbers   \* the numbers p, g and x may be

(* A number by its length in bytes and whether its first bit is set.       *)
ASSUME DerNumbersAssumption == DerNumbers \subseteq [len : Nat, lead : BOOLEAN]

VARIABLES
  prime, generator, secret,  \* the prime, the generator, the private key
  derPc,       \* what is written next
  derCap,      \* the size of the buffer
  derIdx,      \* where in it the next byte goes
  derEnds      \* where what has been opened is to end, as its length says

derVars == <<prime, generator, secret, derPc, derCap, derIdx, derEnds>>

(* SetLengthCopy: a byte, or the count of bytes and two or three of them.  *)
SetLength(n) == IF n < 128 THEN 1 ELSE IF n < 256 THEN 2 ELSE IF n < 65536 THEN 3 ELSE 4

SetSequence(n) == SetLength(n) + 1
SetOctetString(n) == SetLength(n) + 1

(* SetASNIntCopy: a zero goes before a number that would look negative.    *)
SetASNInt(n) == LET zero == IF n.lead THEN 1 ELSE 0 IN 1 + SetLength(n.len + zero) + zero
SetASNIntMP(n) == SetASNInt(n) + n.len

OidSize == 9
SetObjectId == 1 + SetLength(OidSize)
VersionSize == 3

(* The first pass of wc_DhParamsToDer and of wc_DhPrivKeyToDer.            *)
ParamsBody == SetASNIntMP(generator) + SetASNIntMP(prime)
ParamsSize == ParamsBody + SetSequence(ParamsBody)
PrivSize == SetASNIntMP(secret)
KeySize == 1 + SetLength(PrivSize) + PrivSize
InfoBody == ParamsSize + SetObjectId + OidSize
BadKeyBody == \* the version is forgotten
  KeySize + InfoBody + SetSequence(InfoBody)
KeyBody == KeySize + InfoBody + SetSequence(InfoBody) + VersionSize
KeyTotal == KeyBody + SetSequence(KeyBody)

-----------------------------------------------------------------------------
NoEnds == [outer |-> 0, info |-> 0, params |-> 0, octets |-> 0]

DerStart(p, g, x) ==
  /\ prime = p /\ generator = g /\ secret = x
  /\ derPc = "size" /\ derCap = 0 /\ derIdx = 0 /\ derEnds = NoEnds

DerInit == \E p, g, x \in DerNumbers : DerStart(p, g, x)

DerStep(here, there) == derPc = here /\ derPc' = there

DerWrite(here, there, n) ==
  /\ DerStep(here, there)
  /\ derIdx' = derIdx + n
  /\ UNCHANGED <<prime, generator, secret, derCap, derEnds>>

\* A header, after which n bytes of its content come.
DerBegin(here, there, what, header, n) ==
  /\ DerStep(here, there)
  /\ derIdx' = derIdx + header
  /\ derEnds' = [derEnds EXCEPT ![what] = derIdx + header + n]
  /\ UNCHANGED <<prime, generator, secret, derCap>>

(* wolfCLU_DhParamSetup: the parameters alone.                             *)
ParamsBuffer ==
  /\ DerStep("size", "params")
  /\ derCap' = ParamsSize /\ derIdx' = 0 /\ derEnds' = NoEnds
  /\ UNCHANGED <<prime, generator, secret>>

ParamsSequence == DerBegin("params", "p", "params", SetSequence(ParamsBody), ParamsBody)
ParamsP == DerWrite("p", "g", SetASNIntMP(prime))
ParamsG == DerWrite("g", "made", SetASNIntMP(generator))

(* The key: the buffer for it, and the check that it is large enough.      *)

BadKeyBuffer == \* room for p and g, and none for x
  /\ derPc = "made"
  /\ derCap' = ParamsSize + 8 /\ derIdx' = 0 /\ derEnds' = NoEnds
  /\ derPc' = IF KeyTotal > derCap' THEN "refused" ELSE "outer"
  /\ UNCHANGED <<prime, generator, secret>>

KeyBuffer ==
  /\ derPc = "made"
  /\ derCap' = ParamsSize + ParamsSize + 8 /\ derIdx' = 0 /\ derEnds' = NoEnds
  /\ derPc' = IF KeyTotal > derCap' THEN "refused" ELSE "outer"
  /\ UNCHANGED <<prime, generator, secret>>

KeySequence == DerBegin("outer", "version", "outer", SetSequence(KeyBody), KeyBody)
KeyVersion == DerWrite("version", "info", VersionSize)
KeyInfo == DerBegin("info", "oid", "info", SetSequence(InfoBody), InfoBody)
KeyOid == DerWrite("oid", "kparams", SetObjectId + OidSize)

(* wc_DhParamsToDer again, in what is left of the buffer.                  *)
KeyParams ==
  /\ derPc = "kparams"
  /\ IF ParamsSize > derCap - derIdx
     THEN derPc' = "refused" /\ UNCHANGED <<prime, generator, secret, derCap, derIdx, derEnds>>
     ELSE DerBegin("kparams", "kp", "params", SetSequence(ParamsBody), ParamsBody)
KeyP == DerWrite("kp", "kg", SetASNIntMP(prime))
KeyG == DerWrite("kg", "octets", SetASNIntMP(generator))
KeyOctets == DerBegin("octets", "x", "octets", SetOctetString(PrivSize), PrivSize)
KeyX == DerWrite("x", "done", SetASNIntMP(secret))

DerEnded == derPc \in {"done", "refused"} /\ UNCHANGED derVars

DerNext ==
  \/ ParamsBuffer \/ ParamsSequence \/ ParamsP \/ ParamsG
  \/ KeyBuffer \/ KeySequence \/ KeyVersion \/ KeyInfo \/ KeyOid \/ KeyParams
  \/ KeyP \/ KeyG \/ KeyOctets \/ KeyX \/ DerEnded

DerSpec == DerInit /\ [][DerNext]_derVars

-----------------------------------------------------------------------------
DerPcs == {"size", "params", "p", "g", "made", "outer", "version", "info", "oid", "kparams",
        "kp", "kg", "octets", "x", "done", "refused"}

DerTypeOK ==
  /\ prime \in DerNumbers /\ generator \in DerNumbers /\ secret \in DerNumbers
  /\ derPc \in DerPcs /\ derCap \in Nat /\ derIdx \in Nat
  /\ derEnds \in [outer : Nat, info : Nat, params : Nat, octets : Nat]

(* The second pass, which trusts the lengths of the first, writes no byte  *)
(* past its buffer; and a key is refused for the size of its buffer only   *)
(* when x is about as long as p: an x that is 24 bytes shorter always fits.*)
BuffersSuffice ==
  /\ derIdx <= derCap
  /\ derPc = "refused" => secret.len + 24 > prime.len

(* Every length the first pass worked out is where its content does end:   *)
(* the parameters after g and with them what names the algorithm, the      *)
(* octets after x and with them the whole.                                 *)
LengthsAreTrue ==
  /\ derPc = "made" => derIdx = derEnds.params /\ derIdx = derCap
  /\ derPc = "octets" => derIdx = derEnds.params /\ derIdx = derEnds.info
  /\ derPc = "done" => derIdx = derEnds.octets /\ derIdx = derEnds.outer

(* What the first pass measures is what the second one writes, and it fits.*)
WritesWhatItMeasured == BuffersSuffice /\ LengthsAreTrue
=============================================================================

----------------------------- MODULE ParamTools -----------------------------
(***************************************************************************)
(* "wolfssl ecparam", "dhparam" and "dsaparam": parameters are read, or    *)
(* made, and written, with a new key after them if one is asked for        *)
(* (src/ecparam/clu_ecparam.c, src/dh/clu_dh.c, src/dsa/clu_dsa.c).  The   *)
(* output is opened only when the input has been read, so that a file can  *)
(* be read and written by the same run.                                    *)
(***************************************************************************)
EXTENDS ToolFiles

Params(alg, group) == [alg |-> alg, group |-> group]
NewKey(params) == [alg |-> params.alg, group |-> params.group, id |-> "new"]

(* The curves by the names ecparam is given, and the library's names.      *)
CurveNames == [secp256r1 |-> "prime256v1", secp384r1 |-> "secp384r1",
               brainpoolp256r1 |-> "brainpoolP256r1"]

(* wolfCLU_GenKeyECC: P-256 when no curve is named.                        *)
GenKeyECC(name) ==
  IF name = None THEN NewKey(Params("ec", "prime256v1"))
  ELSE IF name \in DOMAIN CurveNames THEN NewKey(Params("ec", CurveNames[name]))
  ELSE None

ecparam_options == <<"-in", "-out", "-inform", "-outform", "-genkey", "-name", "-text">>

(* A form that is none is an error here.                                   *)
EcparamScan(c, disk) ==
  IF \/ c.twice # None
     \/ c.in # None /\ disk[c.in] = Absent
     \/ InputError \in {FormOf(c.outform, "PEM"), FormOf(c.inform, "PEM")}
  THEN FatalError ELSE Success

(* The key of -in, or a new one, which takes its place.                    *)
EcparamLoad(c, disk) ==
  LET read == IF c.in = None THEN None ELSE ReadPrivate(disk[c.in], InForm(c), None)
      key  == IF Has(c, "-genkey") THEN GenKeyECC(c.name) ELSE read
  IN  IF (c.in # None /\ read = None) \/ key = None \/ key.alg # "ec"
      THEN Loaded(FatalError, None) ELSE Loaded(Success, key)

(* The name of the curve, its parameters, and the key if it is a new one.  *)
EcparamMake(c, key) ==
  LET form   == IF OutForm(c) = "PEM" THEN "PEM" ELSE "DER"
      text   == IF Has(c, "-text") THEN <<Block("text", key.group, "text")>> ELSE << >>
      params == <<Block("params", Params("ec", key.group), form)>>
      made   == IF Has(c, "-genkey") THEN <<Block("private", key, form)>> ELSE << >>
  IN  Made(Success, text \o params \o made)

-----------------------------------------------------------------------------
(* dhparam and dsaparam read PEM only.  An input of no bytes is not        *)
(* decoded, and is no error: the parameters are then all zero.             *)
Zero == "zero"

ParamLoad(alg, c, disk) ==
  LET content == disk[c.in]
      b       == FirstPem(content, "params")
  IN  IF c.in = None THEN Loaded(Success, None)
      ELSE IF content = << >> THEN Loaded(Success, Params(alg, Zero))
      ELSE IF b # None /\ b.of.alg = alg THEN Loaded(Success, b.of)
      ELSE Loaded(FatalError, None)

(* Made only when there is no input, of the size that was asked for.       *)
ParamsFor(alg, sized, read) ==
  IF read # None THEN read
  ELSE IF sized THEN Params(alg, "new")
  ELSE None

KeyOf(c, params) == IF Has(c, "-genkey") THEN <<Block("private", NewKey(params), "PEM")>> ELSE << >>
ParamsOf(c, params) == IF Has(c, "-noout") THEN << >> ELSE <<Block("params", params, "PEM")>>

dh_options == <<"-in", "-out", "-genkey", "-check", "-noout", "-help">>

(* The first word that is no option and not the value of one must be a     *)
(* number, also when there is an input.                                    *)
DhScan(c, disk) ==
  IF c.twice # None \/ (c.in # None /\ disk[c.in] = Absent) \/ c.bits = "bad"
  THEN FatalError ELSE Success

DhLoad(c, disk) == ParamLoad("dh", c, disk)

(* wolfCLU_DhParamSetup from the parameters on.  They are in the stream    *)
(* before they are checked and the key is made from them; zeros are then   *)
(* refused by the library.                                                 *)
DhMake(c, read) ==
  LET params == ParamsFor("dh", c.bits # None, read)
      used   == Has(c, "-check") \/ Has(c, "-genkey")
  IN  IF params = None THEN Refused
      ELSE IF params.group = Zero /\ used THEN Made(FatalError, ParamsOf(c, params))
      ELSE Made(Success, ParamsOf(c, params) \o KeyOf(c, params))

dsa_options == <<"-in", "-out", "-genkey", "-noout", "-help">>

DsaScan(c, disk) ==
  IF c.twice # None \/ (c.in # None /\ disk[c.in] = Absent) THEN FatalError ELSE Success

DsaLoad(c, disk) == ParamLoad("dsa", c, disk)

(* wolfCLU_DsaParamSetup from the parameters on; the size counts only when *)
(* it is the last word.                                                    *)
DsaMake(c, read) ==
  LET params == ParamsFor("dsa", c.bits = "last", read)
  IN  IF params = None THEN Refused
      ELSE IF params.group = Zero /\ Has(c, "-genkey") THEN Made(FatalError, ParamsOf(c, params))
      ELSE Made(Success, ParamsOf(c, params) \o KeyOf(c, params))

=============================================================================

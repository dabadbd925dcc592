---------------------------- MODULE KeyCommands ----------------------------
(***************************************************************************)
(* A key pair from its making to its use, in three processes one after the *)
(* other: "wolfssl -genkey" writes the two halves into files               *)
(* (src/genkey/clu_genkey_setup.c, clu_genkey.c), "wolfssl -<alg> -sign"   *)
(* reads one and writes a signature, "wolfssl -<alg> -verify" reads the    *)
(* other (src/sign-verify/).  What a stream was given reaches its file     *)
(* when it is closed; a process may be killed or fail before that.  How a  *)
(* stateful key is written is the matter of XmssKeyStore.                  *)
(***************************************************************************)
EXTENDS OptionScan

CONSTANT Uses       \* what the user does: [alg, had, make, sign, verify]

Stateful == {"xmss", "xmssmt"}
Halves == {"priv", "pub"}
Pairs == {"old", "new"}
NotYet == "not yet"

(* The first of these that is a word of the command line, wherever it is,  *)
(* is the algorithm.                                                       *)
Precedence == <<"rsa", "ed25519", "ecc", "dilithium", "ml-dsa", "xmss", "xmssmt">>
Forms == {"PEM", "DER", "RAW", "bad"}

(* A parameter set of a stateful algorithm; a file name may spell one.     *)
Param(h, l) == [height |-> h, layer |-> l]
NoParam == Param(0, 0)

(* A key file: the half of a pair, in a form; "broken" is empty or cut off.*)
KeyContent(pair, form, param) == [pair |-> pair, form |-> form, param |-> param]
NoKeyFile == KeyContent("absent", "none", NoParam)
Signature(by, msg) == [by |-> by, msg |-> msg]
NoSignature == Signature("absent", "none")
BrokenSignature == Signature("broken", "none")

(* A line that gives no file, form or directive has NULL for it.           *)
ASSUME KeyAssumption ==
  /\ None \notin Forms \cup Pairs \cup Halves
            \cup {"m", "n", "gone", "empty", "absent", "broken", "garbage"}
  /\ \A u \in Uses :
       /\ u.alg \in {Precedence[k] : k \in DOMAIN Precedence}
       /\ u.make.outform \in Forms \cup {None}
       /\ \A o \in {u.sign, u.verify} :
            o.in \in {None, "m", "n", "gone", "empty"} /\ o.inform \in Forms \cup {None}

VARIABLES
  use,        \* what the user does, from Uses
  keyPc,      \* which of the three commands runs
  stage,      \* "setup", or "going" once it has touched a file
  todo,       \* what genkey has still to do to its files
  held,       \* halves that are in an open stream
  product,    \* the signature made, or of which the message was recovered
  keyFile,    \* the two key files
  sigFile,    \* the signature file
  messageFile,\* what an RSA verification wrote out
  rets,       \* what the three commands return
  mishaps     \* history: commands that failed or were killed, and what was lost

keyVars == <<use, keyPc, stage, todo, held, product, keyFile, sigFile, messageFile,
             rets, mishaps>>

KeyReturn(r) ==
  /\ rets' = [rets EXCEPT ![keyPc] = r]
  /\ keyPc' = CASE keyPc = "make" -> "sign" [] keyPc = "sign" -> "verify"
                [] keyPc = "verify" -> "over"
  /\ stage' = "setup" /\ todo' = << >> /\ held' = {} /\ product' = NoSignature
KeyGoesOn == UNCHANGED <<keyPc, rets, product>> /\ stage' = "going"

-----------------------------------------------------------------------------
(* wolfCLU_genKeySetup.                                                    *)

(* Does the number begin with these digits?  (XSTRNCMP over their length.) *)
StartsWith(n, digits) == \E k \in 0 .. 2 : n \div 10^k = digits

(* The choice the argument begins with, or the default.                    *)
Selected(arg, choices, default) ==
  IF arg # None /\ \E d \in choices : StartsWith(arg, d)
  THEN CHOOSE d \in choices : StartsWith(arg, d) ELSE default

XmssParam(height) == Param(Selected(height, {10, 16, 20}, 10), 1)

Layers == [h \in {20, 40, 60} |-> CASE h = 20 -> {2, 4} [] h = 40 -> {2, 4, 8}
                                    [] h = 60 -> {3, 6, 12}]

(* A height that begins like a good one is taken whole: 400 is none, and   *)
(* gets what 20 gets.                                                      *)
XmssmtParam(height, layer) ==
  LET h == IF Selected(height, DOMAIN Layers, 0) = 0 THEN 20 ELSE height
  IN  IF h \notin DOMAIN Layers THEN Param(20, 2)
      ELSE Param(h, Selected(layer, Layers[h], IF h = 60 THEN 3 ELSE 2))

MadeParam(alg, o) ==
  CASE alg = "xmss"   -> XmssParam(o.height)
    [] alg = "xmssmt" -> XmssmtParam(o.height, o.layer)
    [] OTHER          -> NoParam

(* wolfCLU_genKeyDirective; a stateful private key is written in any case. *)
Directive(alg, o) ==
  CASE o.output = "pub"  -> IF alg \in Stateful THEN Halves ELSE {"pub"}
    [] o.output = "priv" -> {"priv"}
    [] OTHER             -> Halves

(* Only Ed25519 keys, and stateful ones, are ever raw.                     *)
MadeForm(alg, outform) ==
  IF alg \in Stateful THEN "RAW"
  ELSE IF outform \in {None, "DER"} THEN "DER"
  ELSE IF outform = "RAW" /\ alg # "ed25519" THEN "DER"
  ELSE outform

(* A level, size or curve that does not exist is refused by the library.   *)
MakeRefused(alg, o) ==
  \/ o.twice
  \/ ~o.help /\ (o.out = None \/ o.outform = "bad" \/ o.strength = "bad")

(* The streams are closed public key first.                                *)
BadFileSteps(alg, halves) ==
  IF halves = {"pub"} THEN << <<"open", "pub">>, <<"write", "pub">>, <<"close", "pub">> >>
  ELSE IF alg \in Stateful
  THEN IF halves = {"priv"} THEN << <<"update", "priv">> >>
       ELSE << <<"update", "priv">>, <<"open", "pub">>, <<"write", "pub">>, <<"close", "pub">> >>
  ELSE IF halves = {"priv"} THEN << <<"open", "priv">>, <<"write", "priv">>, <<"close", "priv">> >>
  ELSE IF alg = "ecc"
  THEN << <<"open", "priv">>, <<"write", "priv">>, <<"open", "pub">>, <<"write", "pub">>,
          <<"close", "pub">>, <<"close", "priv">> >>
  ELSE << <<"open", "priv">>, <<"write", "priv">>, <<"close", "priv">>,
          <<"open", "pub">>, <<"write", "pub">>, <<"close", "pub">> >>

(* What is done to the files of these halves, in order.  ECC's two streams *)
(* are closed at the end; a stateful private key is written in place.      *)
FileSteps(alg, halves) ==
  IF halves = {"pub"} THEN << <<"open", "pub">>, <<"write", "pub">>, <<"close", "pub">> >>
  ELSE IF alg \in Stateful
  THEN IF halves = {"priv"} THEN << <<"update", "priv">> >>
       ELSE << <<"update", "priv">>, <<"open", "pub">>, <<"write", "pub">>, <<"close", "pub">> >>
  ELSE IF halves = {"priv"} THEN << <<"open", "priv">>, <<"write", "priv">>, <<"close", "priv">> >>
  ELSE IF alg = "ecc"
  THEN << <<"open", "priv">>, <<"write", "priv">>, <<"open", "pub">>, <<"write", "pub">>,
          <<"close", "priv">>, <<"close", "pub">> >>
  ELSE << <<"open", "priv">>, <<"write", "priv">>, <<"close", "priv">>,
          <<"open", "pub">>, <<"write", "pub">>, <<"close", "pub">> >>

Made == KeyContent("new", MadeForm(use.alg, use.make.outform), MadeParam(use.alg, use.make))
BrokenKey == KeyContent("broken", "none", NoParam)

KeyStart(u) ==
  /\ use = u
  /\ keyPc = "make" /\ stage = "setup" /\ todo = << >> /\ held = {} /\ product = NoSignature
  /\ keyFile = [half \in Halves |->
                  IF u.had THEN [Made EXCEPT !.pair = "old"] ELSE NoKeyFile]
  /\ sigFile = IF u.had THEN Signature("old", "m") ELSE NoSignature
  /\ messageFile = "absent"
  /\ rets = [make |-> NotYet, sign |-> NotYet, verify |-> NotYet]
  /\ mishaps = {}

KeyInit == \E u \in Uses : KeyStart(u)

GenRefuses ==
  /\ keyPc = "make" /\ stage = "setup"
  /\ MakeRefused(use.alg, use.make) \/ use.make.help
  /\ KeyReturn(IF MakeRefused(use.alg, use.make) THEN FatalError ELSE Success)
  /\ UNCHANGED <<use, keyFile, sigFile, messageFile, mishaps>>

(* The key is made.                                                        *)
GenMakes ==
  /\ keyPc = "make" /\ stage = "setup"
  /\ ~MakeRefused(use.alg, use.make) /\ ~use.make.help
  /\ todo' = FileSteps(use.alg, Directive(use.alg, use.make))
  /\ KeyGoesOn
  /\ UNCHANGED <<use, held, keyFile, sigFile, messageFile, mishaps>>

-----------------------------------------------------------------------------
(* wolfCLU_genKey_ED25519, _RSA, _Dilithium, _ML_DSA, _XMSS and            *)
(* wolfCLU_GenAndOutput_ECC: from step to step.                            *)

Step(op) == keyPc = "make" /\ todo # << >> /\ todo[1][1] = op /\ todo' = Tail(todo) /\ KeyGoesOn
Half == todo[1][2]
SetKeyFile(content) == keyFile' = [keyFile EXCEPT ![Half] = content]
KeepUse == UNCHANGED <<use, sigFile, messageFile>>

KeyOpens  == Step("open") /\ SetKeyFile(BrokenKey) /\ KeepUse /\ UNCHANGED <<held, mishaps>>
KeyWrites == Step("write") /\ held' = held \cup {Half} /\ KeepUse /\ UNCHANGED <<keyFile, mishaps>>
KeyCloses == /\ Step("close")
             /\ held' = held \ {Half}
             /\ keyFile' = IF Half \in held THEN [keyFile EXCEPT ![Half] = Made] ELSE keyFile
             /\ KeepUse /\ UNCHANGED mishaps
KeyUpdates == Step("update") /\ SetKeyFile(Made) /\ KeepUse /\ UNCHANGED <<held, mishaps>>

(* wolfCLU_KeyDerToPem has no memory and returns 0, which two callers do   *)
(* not take for a failure: they write nothing, and go on.                  *)
PemIsEmpty ==
  /\ Step("write")
  /\ use.alg \in {"ed25519", "rsa"} /\ Made.form = "PEM"
  /\ mishaps' = mishaps \cup {"no pem"}
  /\ KeepUse /\ UNCHANGED <<held, keyFile>>

(* Closing loses what was written, and nobody looks.                       *)
KeyIsLost ==
  /\ Step("close")
  /\ held' = held \ {Half}
  /\ mishaps' = mishaps \cup {"lost"}
  /\ KeepUse /\ UNCHANGED keyFile

(* A call fails: the streams are closed, the error is reported.            *)
KeyFails ==
  /\ keyPc = "make" /\ todo # << >> /\ todo[1][1] # "close"
  /\ \E written \in SUBSET held :
       keyFile' = [half \in Halves |->
                     IF half \in written THEN Made
                     ELSE IF half = Half /\ todo[1][1] = "update" THEN BrokenKey
                     ELSE keyFile[half]]
  /\ mishaps' = mishaps \cup {"make"}
  /\ KeyReturn(FatalError)
  /\ KeepUse

KeyIsMade ==
  /\ keyPc = "make" /\ stage = "going" /\ todo = << >>
  /\ KeyReturn(Success)
  /\ UNCHANGED <<use, keyFile, sigFile, messageFile, mishaps>>

-----------------------------------------------------------------------------
(* wolfCLU_sign_verify_setup.                                              *)

Order == use[keyPc]

Scheme(alg) == IF alg = "ml-dsa" THEN "dilithium" ELSE alg
Algorithm(o) ==
  LET i == CHOOSE i \in DOMAIN Precedence :
             /\ Precedence[i] \in o.words
             /\ \A j \in 1 .. i - 1 : Precedence[j] \notin o.words
  IN  Scheme(Precedence[i])

Exists(o) ==
  /\ o.inkey = None \/ keyFile[o.inkey].pair # "absent"
  /\ o.in # "gone"
  /\ o.sigfile = None \/ sigFile.by # "absent"

SetupRefused(o) ==
  \/ ~Exists(o) \/ o.inform = "bad" \/ o.twice
  \/ /\ ~o.help
     /\ \/ o.inkey = None
        \/ o.verify /\ o.sigfile = None
        \/ ~o.out /\ (Algorithm(o) = "rsa" \/ (~o.verify /\ Algorithm(o) # "ed25519"))
        \/ o.in = None /\ ~(Algorithm(o) = "rsa" /\ o.verify)

(* With neither -sign nor -verify nothing is done, and all is well.        *)
Idle(o) == o.help \/ ~(o.sign \/ o.verify)

SetupEnds ==
  /\ keyPc \in {"sign", "verify"} /\ stage = "setup"
  /\ SetupRefused(Order) \/ Idle(Order)
  /\ KeyReturn(IF SetupRefused(Order) THEN FatalError ELSE Success)
  /\ UNCHANGED <<use, keyFile, sigFile, messageFile, mishaps>>

Called(o) == keyPc \in {"sign", "verify"} /\ stage = "setup" /\ ~SetupRefused(o) /\ ~Idle(o)

-----------------------------------------------------------------------------
(* The keys that are read: the pair's, or None if it cannot be decoded, or *)
(* "garbage", when bytes are taken for a raw key that are none.            *)

Decoded(o, half) ==
  LET c == keyFile[o.inkey] IN
  IF Algorithm(o) = "ed25519" /\ o.inform = "RAW"
  THEN IF o.inkey = half /\ c.form = "RAW" THEN {c.pair} ELSE {None, "garbage"}
  ELSE IF o.inkey = half /\ (c.form = "DER" \/ (c.form = "PEM" /\ o.inform = "PEM"))
  THEN {c.pair} ELSE {None}

(* A stateful algorithm's private key file is named for its parameters.    *)
SigningKeys(o) ==
  LET c == keyFile[o.inkey] IN
  IF Algorithm(o) # Scheme(use.alg) THEN {None}
  ELSE IF use.alg \notin Stateful THEN Decoded(o, "priv")
  ELSE IF o.inkey # "priv" \/ c.pair = "broken" \/ use.make.out = NoParam THEN {None}
  ELSE IF use.make.out = c.param THEN {c.pair} ELSE {None, "garbage"}

(* Dilithium and the stateful ones take the public key with or without     *)
(* -pubin.                                                                 *)
VerifyingKeys(o) ==
  LET c == keyFile[o.inkey] IN
  IF Algorithm(o) # Scheme(use.alg) THEN {None}
  ELSE IF use.alg \in Stateful
  THEN IF o.inkey = "pub" /\ c.pair # "broken" THEN {c.pair} ELSE {None}
  ELSE Decoded(o, IF o.pubin \/ Algorithm(o) = "dilithium" THEN "pub" ELSE "priv")

-----------------------------------------------------------------------------
(* wolfCLU_sign_data and the wolfCLU_sign_data_* it calls: the output is   *)
(* opened when the signature is made.                                      *)
Signs ==
  /\ Called(Order) /\ Order.sign
  /\ \E key \in SigningKeys(Order) :
       IF key = None \/ Order.in \in {None, "empty"} \/ ~Order.out
       THEN KeyReturn(FatalError) /\ UNCHANGED sigFile
       ELSE /\ product' = Signature(key, Order.in)
            /\ sigFile' = BrokenSignature
            /\ stage' = "going" /\ UNCHANGED <<keyPc, todo, held, rets>>
  /\ UNCHANGED <<use, keyFile, messageFile, mishaps>>

(* Does the library find the signature good?  RSA does not look at -in.    *)
Matches(key, o) == sigFile.by = key /\ (Algorithm(o) = "rsa" \/ sigFile.msg = o.in)

(* The library's verdict is logged and forgotten: F-5362.                  *)

(* The output is opened before the signature is looked at.                 *)
BadRecovers ==
  /\ Called(Order) /\ Order.verify /\ ~Order.sign
  /\ \E key \in VerifyingKeys(Order) :
       IF Algorithm(Order) # "rsa"
       THEN KeyReturn(IF key \in Pairs /\ Matches(key, Order) THEN Success ELSE FatalError)
            /\ UNCHANGED messageFile
       ELSE IF key \notin Pairs \/ ~Matches(key, Order)
       THEN KeyReturn(FatalError) /\ messageFile' = "broken"
       ELSE /\ product' = sigFile
            /\ messageFile' = "broken"
            /\ stage' = "going" /\ UNCHANGED <<keyPc, todo, held, rets>>
  /\ UNCHANGED <<use, keyFile, sigFile, mishaps>>

(* wolfCLU_verify_signature and the wolfCLU_verify_signature_* it calls:   *)
(* RSA's writes the message that the signature holds.                      *)
Verifies ==
  /\ Called(Order) /\ Order.verify /\ ~Order.sign
  /\ \E key \in VerifyingKeys(Order) :
       IF key \notin Pairs \/ ~Matches(key, Order)
       THEN KeyReturn(FatalError) /\ UNCHANGED messageFile
       ELSE IF Algorithm(Order) # "rsa" THEN KeyReturn(Success) /\ UNCHANGED messageFile
       ELSE /\ product' = sigFile
            /\ messageFile' = "broken"
            /\ stage' = "going" /\ UNCHANGED <<keyPc, todo, held, rets>>
  /\ UNCHANGED <<use, keyFile, sigFile, mishaps>>

(* The signature or the message is written and the file closed.            *)
OutputEnds ==
  /\ keyPc \in {"sign", "verify"} /\ stage = "going"
  /\ IF Order.sign THEN sigFile' = product /\ UNCHANGED messageFile
                   ELSE messageFile' = product.msg /\ UNCHANGED sigFile
  /\ KeyReturn(Success)
  /\ UNCHANGED <<use, keyFile, mishaps>>

(* Some of it is written, or closing loses it: that is taken for success.  *)
OutputIsLost ==
  /\ keyPc \in {"sign", "verify"} /\ stage = "going"
  /\ mishaps' = mishaps \cup {"lost"}
  /\ KeyReturn(Success)
  /\ UNCHANGED <<use, keyFile, sigFile, messageFile>>

(* The process is killed, or a call fails that leaves the files alone.     *)
KeyCommandDies ==
  /\ keyPc # "over"
  /\ mishaps' = mishaps \cup {keyPc}
  /\ KeyReturn(FatalError)
  /\ UNCHANGED <<use, keyFile, sigFile, messageFile>>

KeyEnded == keyPc = "over" /\ UNCHANGED keyVars

KeyNext ==
  \/ GenRefuses \/ GenMakes
  \/ KeyOpens \/ KeyWrites \/ KeyCloses \/ KeyUpdates
  \/ PemIsEmpty \/ KeyIsLost \/ KeyFails \/ KeyIsMade
  \/ SetupEnds \/ Signs \/ Verifies \/ OutputEnds \/ OutputIsLost
  \/ KeyCommandDies \/ KeyEnded

KeySpec == KeyInit /\ [][KeyNext]_keyVars

-----------------------------------------------------------------------------
InformFits(alg, inform) ==
  \/ alg \in Stateful /\ inform # "bad"
  \/ inform = Made.form
  \/ Made.form = "DER" /\ inform \in {None, "PEM"}

ProperUse(o, half) ==
  /\ o.words = {use.alg} /\ o.inkey = half /\ InformFits(use.alg, o.inform)
  /\ o.in \in {"m", "n"} /\ o.out /\ ~o.help /\ ~o.twice
ProperSign(o) ==
  /\ ProperUse(o, "priv") /\ o.sign /\ ~o.verify /\ o.sigfile = None
  /\ use.alg \in Stateful => use.make.out = Made.param
ProperVerify(o) == ProperUse(o, "pub") /\ ~o.sign /\ o.verify /\ o.pubin /\ o.sigfile # None

OnlyVerifies(o) == o.verify /\ ~o.sign /\ ~o.help

(* Every variable keeps its type.                                          *)
KeyTypeOK ==
  /\ keyPc \in {"make", "sign", "verify", "over"} /\ stage \in {"setup", "going"}
  /\ held \subseteq Halves
  /\ \A half \in Halves : keyFile[half].pair \in Pairs \cup {"absent", "broken"}
  /\ {sigFile.by, product.by} \subseteq Pairs \cup {"absent", "broken", "garbage"}
  /\ messageFile \in {"absent", "broken", "m", "n"}
  /\ \A c \in DOMAIN rets : rets[c] \in {NotYet, Success, FatalError}
  /\ mishaps \subseteq {"make", "sign", "verify", "lost", "no pem"}

(* A verification that reports success has read a whole signature, by the  *)
(* pair whose half it was given, over the message it was given or, with    *)
(* RSA, over the message it wrote out.                                     *)
VerifiedIsSigned ==
  OnlyVerifies(use.verify) /\ rets.verify = Success =>
    /\ sigFile.by \in Pairs /\ sigFile.by = keyFile[use.verify.inkey].pair
    /\ IF Algorithm(use.verify) = "rsa" THEN messageFile = sigFile.msg \/ "lost" \in mishaps
       ELSE sigFile.msg = use.verify.in

(* Wherever genkey was killed or failed: if it left a new public key, or   *)
(* reported that it wrote a pair, then what is properly signed with the    *)
(* private key file is properly verified with the public one.              *)
SignedVerifies ==
  /\ keyPc = "over" /\ ProperSign(use.sign) /\ ProperVerify(use.verify)
  /\ use.sign.in = use.verify.in
  /\ mishaps \cap {"sign", "verify", "lost", "no pem"} = {}
  /\ "priv" \in Directive(use.alg, use.make)
  /\ \/ keyFile["pub"].pair = "new"
     \/ rets.make = Success /\ ~use.make.help /\ "pub" \in Directive(use.alg, use.make)
  => rets.verify = Success

(* A command that refuses or finds a signature bad leaves its output file  *)
(* as it was: "output file must not be created on bad verify".             *)
NothingWritten ==
  /\ keyPc = "verify" /\ stage = "setup" /\ rets.sign = FatalError /\ "sign" \notin mishaps =>
       sigFile = IF use.had THEN Signature("old", "m") ELSE NoSignature
  /\ rets.verify = FatalError /\ "verify" \notin mishaps /\ use.sign.sign =>
       messageFile = "absent"

(* "return WOLFCLU_SUCCESS on success": the files asked for hold the key.  *)
KeyFilesAreWhole ==
  rets.make = Success /\ ~use.make.help /\ "lost" \notin mishaps =>
    \A half \in Directive(use.alg, use.make) : keyFile[half] = Made
=============================================================================

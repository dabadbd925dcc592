----------------------------- MODULE OcspCommand -----------------------------
(***************************************************************************)
(* "wolfssl ocsp" (wolfCLU_OcspSetup and ocspClient in                     *)
(* src/ocsp/clu_ocsp.c): processes over the same files, each a client or a *)
(* responder as its options say, and what a client is told of the          *)
(* certificate it asks about.                                              *)
(*                                                                         *)
(* How an index becomes statuses is the subject of OcspIndex, how a        *)
(* responder serves that of OcspResponder, and how it reads the numbers    *)
(* among its options that of DecimalBounded: here an index is a function   *)
(* from serial numbers to statuses, a responder's answer one step, and a   *)
(* number that does not parse no number.                                   *)
(***************************************************************************)
EXTENDS OptionScan

CONSTANTS
  OcspProcs,     \* processes of wolfssl ocsp
  OcspSessions,  \* the command lines to run: functions from OcspProcs
  OcspDisk,      \* what is in the files
  Revised,       \* the index as its keeper may rewrite it
  PortMax        \* 65535

(* A line says which arguments the options have, None when there is none   *)
(* left on the line, and which options are there twice.                    *)

Implemented == {"-help", "-url", "-cert", "-CAfile", "-no_nonce", "-port", "-CA", "-nrequest",
               "-index", "-rsigner", "-rkey", "-scgi", "-issuer"}

(* The options that name a file of certificates or of a key.               *)
FileOptions == {"-cert", "-issuer", "-CAfile", "-CA", "-rsigner", "-rkey"}

(* NULL is no process, file or status; and the index is in no line where a *)
(* certificate or a key belongs.                                           *)
ASSUME OcspAssumption ==
  /\ PortMax \in Nat
  /\ None \notin OcspProcs \cup DOMAIN OcspDisk \cup {Success, FatalError, "good", "revoked"}
  /\ OcspDisk["index"] # None /\ Revised # None /\ << >> # None
  /\ \A name \in DOMAIN OcspDisk \ {"index"} :
       OcspDisk[name] # None /\ [kind |-> OcspDisk[name].kind, of |-> OcspDisk[name].of] # None
  /\ \A lines \in OcspSessions, i \in OcspProcs : \A option \in FileOptions \cap DOMAIN lines[i].args :
       lines[i].args[option] # "index"

VARIABLES
  ocspLine,     \* the command line of each process
  ocspPc,       \* where it is
  ocspRet,      \* what it returns
  indexFile,    \* what is in the index file
  memory,       \* what a process has read
  answered,     \* successful responses of a responder
  verdict,      \* what a client reports
  asked,        \* history: the responder that answered it
  ocspTrouble   \* history: the processes for which a call of the library failed

ocspVars == <<ocspLine, ocspPc, ocspRet, indexFile, memory, answered, verdict, asked,
              ocspTrouble>>

NoMemory == [here \in {"cert", "issuer", "CAfile", "ca", "rsigner", "rkey", "index"} |-> None]

OcspStart(lines) ==
  /\ ocspLine = lines
  /\ ocspPc = [i \in OcspProcs |-> "options"]
  /\ ocspRet = [i \in OcspProcs |-> None]
  /\ indexFile = OcspDisk["index"]
  /\ memory = [i \in OcspProcs |-> NoMemory]
  /\ answered = [i \in OcspProcs |-> 0]
  /\ verdict = [i \in OcspProcs |-> None]
  /\ asked = [i \in OcspProcs |-> None]
  /\ ocspTrouble = {}

OcspInit == \E lines \in OcspSessions : OcspStart(lines)

HasArg(i, option) == option \in DOMAIN ocspLine[i].args
Arg(i, option) == IF HasArg(i, option) THEN ocspLine[i].args[option] ELSE None

OcspAt(i, here) == ocspPc[i] = here
OcspGo(i, there) == ocspPc' = [ocspPc EXCEPT ![i] = there] /\ UNCHANGED ocspRet
Exit(i, r) ==
  /\ ocspPc' = [ocspPc EXCEPT ![i] = "over"]
  /\ ocspRet' = [ocspRet EXCEPT ![i] = r]

-----------------------------------------------------------------------------
(* wolfCLU_OcspSetup.                                                      *)

OcspRefuses(i) ==
  \/ ocspLine[i].twice # {}
  \/ ~(DOMAIN ocspLine[i].args \subseteq Implemented)
  \/ HasArg(i, "-port") /\ Arg(i, "-port") \notin 1 .. PortMax
  \/ HasArg(i, "-nrequest") /\ Arg(i, "-nrequest") \notin Nat

IsClient(i) == \E option \in {"-url", "-cert", "-issuer"} : HasArg(i, option)
IsResponder(i) == HasArg(i, "-port")

(* -help is the first option of the table.                                 *)
OcspHelp(i) == HasArg(i, "-help") /\ "-help" \notin ocspLine[i].twice

(* One side, and only one, has to be asked for.                            *)
OcspSetup(i) ==
  /\ OcspAt(i, "options")
  /\ CASE OcspHelp(i) -> Exit(i, Success)
       [] ~OcspHelp(i) /\ (OcspRefuses(i) \/ IsClient(i) = IsResponder(i)) -> Exit(i, FatalError)
       [] OTHER -> OcspGo(i, IF IsClient(i) THEN "cert" ELSE "ca")
  /\ UNCHANGED <<ocspLine, indexFile, memory, answered, verdict, asked, ocspTrouble>>

-----------------------------------------------------------------------------
(* Reading files.  A file is a block [kind, form, of].  loadFileToDer      *)
(* looks for a block of the kind it is for in PEM, and takes anything else *)
(* for DER; wolfSSL_CertManagerLoadCA wants the certificate of a CA in PEM.*)
Content(name) == IF name \in DOMAIN OcspDisk THEN OcspDisk[name] ELSE None

Der(name, kind) ==
  LET b == Content(name)
  IN  IF b # None /\ (b.form = "PEM" => b.kind = kind) THEN [kind |-> b.kind, of |-> b.of] ELSE None

IsCert(der) == der # None /\ der.kind = "cert"

LoadCA(name) ==
  LET b == Content(name) IN IF IsCert(b) /\ b.form = "PEM" /\ b.of.ca THEN {b.of} ELSE None

(* The order in which ocspClient and ocspResponder read theirs.            *)
After == [cert |-> "issuer", issuer |-> "CAfile", CAfile |-> "check",
          ca |-> "rsigner", rsigner |-> "rkey", rkey |-> "index", index |-> "addSigner"]

(* What a step reads, None if it ends the command.  The options a side     *)
(* requires are looked at first, and the CA's certificate is parsed before *)
(* the index is read; an index that is not there is only a warning.        *)
Reading(i, here) ==
  CASE here = "cert"    -> IF Arg(i, "-issuer") = None THEN None ELSE Der(Arg(i, "-cert"), "cert")
    [] here = "issuer"  -> LoadCA(Arg(i, "-issuer"))
    [] here = "CAfile"  -> IF Arg(i, "-CAfile") = None THEN {} ELSE LoadCA(Arg(i, "-CAfile"))
    [] here = "ca"      -> IF Arg(i, "-rsigner") = None \/ Arg(i, "-rkey") = None THEN None
                           ELSE Der(Arg(i, "-CA"), "cert")
    [] here = "rsigner" -> Der(Arg(i, "-rsigner"), "cert")
    [] here = "rkey"    -> Der(Arg(i, "-rkey"), "key")
    [] here = "index"   -> IF ~IsCert(memory[i].ca) THEN None
                           ELSE IF Arg(i, "-index") = "index" THEN indexFile
                           ELSE << >>

ReadFile(i) ==
  \E here \in DOMAIN After :
    /\ OcspAt(i, here)
    /\ memory' = [memory EXCEPT ![i][here] = Reading(i, here)]
    /\ IF Reading(i, here) = None THEN Exit(i, FatalError) ELSE OcspGo(i, After[here])
    /\ UNCHANGED <<ocspLine, indexFile, answered, verdict, asked, ocspTrouble>>

(* An allocation or another call of the library fails.                     *)
CallFails(i) ==
  /\ ocspPc[i] \notin {"options", "serve", "over"}
  /\ Exit(i, FatalError)
  /\ ocspTrouble' = ocspTrouble \cup {i}
  /\ UNCHANGED <<ocspLine, indexFile, memory, answered, verdict, asked>>

-----------------------------------------------------------------------------
(* The responder.                                                          *)

Issues(x, y) == y.issuer = x.subject /\ y.by = x.key

BadIssuerDer(signer, ca) == ca \* also when the CA signs itself

(* A signer that is the CA itself is added without an issuer.              *)
IssuerDer(signer, ca) == IF signer = ca THEN None ELSE ca

(* wc_OcspResponder_AddSigner (the library): the key is the certificate's, *)
(* and a signer with an issuer is one that may sign for it.                *)
CanSign(signer, key, issuer) ==
  /\ IsCert(signer) /\ key.kind = "key" /\ signer.of.key = key.of
  /\ issuer # None => Issues(issuer.of, signer.of) /\ signer.of.ocsp

AddSigner(i) ==
  /\ OcspAt(i, "addSigner")
  /\ IF CanSign(memory[i].rsigner, memory[i].rkey, IssuerDer(memory[i].rsigner, memory[i].ca))
     THEN OcspGo(i, "listen") ELSE Exit(i, FatalError)
  /\ UNCHANGED <<ocspLine, indexFile, memory, answered, verdict, asked, ocspTrouble>>

(* tcp_listen (the library): one process listens at a port.                *)
Taken(port) == \E j \in OcspProcs : OcspAt(j, "serve") /\ Arg(j, "-port") = port

Listen(i) ==
  /\ OcspAt(i, "listen")
  /\ IF Taken(Arg(i, "-port")) THEN Exit(i, FatalError) ELSE OcspGo(i, "serve")
  /\ UNCHANGED <<ocspLine, indexFile, memory, answered, verdict, asked, ocspTrouble>>

(* A signal ends the loop.                                                 *)
Stop(i) ==
  /\ OcspAt(i, "serve")
  /\ Exit(i, Success)
  /\ UNCHANGED <<ocspLine, indexFile, memory, answered, verdict, asked, ocspTrouble>>

(* What it answers about a certificate: a status, if the certificate is of *)
(* its CA and in its index.                                                *)
Answer(i, x) ==
  IF Issues(memory[i].ca.of, x) /\ x.serial \in DOMAIN memory[i].index
  THEN memory[i].index[x.serial] ELSE "unauthorized"

OutOfRequests(i) == Arg(i, "-nrequest") \notin {None, 0} /\ answered'[i] >= Arg(i, "-nrequest")

-----------------------------------------------------------------------------
(* The client: wolfSSL_CertManagerCheckOCSP (the library) verifies the     *)
(* certificate, asks at the URL, and verifies what it gets.                *)

Trusted(i) == memory[i].issuer \cup memory[i].CAfile

CanAsk(i) == IsCert(memory[i].cert) /\ \E x \in Trusted(i) : Issues(x, memory[i].cert.of)

Url(i) == IF Arg(i, "-url") # None THEN Arg(i, "-url") ELSE memory[i].cert.of.aia

Reaches(i, j) == OcspAt(j, "serve") /\ Arg(j, "-port") = Url(i) /\ ~HasArg(j, "-scgi")

Believes(i, signer) ==
  \E x \in Trusted(i) :
    Issues(x, memory[i].cert.of) /\ (signer = x \/ (Issues(x, signer) /\ signer.ocsp))

BadTold(status) == IF status = "good" THEN status ELSE "failed"

(* What ocspClient makes of the result: revoked is a result, too.          *)
Told(status) == IF status \in {"good", "revoked"} THEN status ELSE "failed"
RetOf(told) == IF told = "failed" THEN FatalError ELSE Success

AskResponder(i, j) ==
  LET status == Answer(j, memory[i].cert.of)
      told   == IF Believes(i, memory[j].rsigner.of) THEN Told(status) ELSE "failed"
  IN  /\ OcspAt(i, "check") /\ CanAsk(i) /\ Reaches(i, j)
      /\ verdict' = [verdict EXCEPT ![i] = told]
      /\ asked' = [asked EXCEPT ![i] = j]
      /\ answered' = [answered EXCEPT ![j] = IF status = "unauthorized" THEN @ ELSE @ + 1]
      /\ ocspPc' = [ocspPc EXCEPT ![i] = "over", ![j] = IF OutOfRequests(j) THEN "over" ELSE @]
      /\ ocspRet' = [ocspRet EXCEPT ![i] = RetOf(told), ![j] = IF OutOfRequests(j) THEN Success ELSE @]
      /\ UNCHANGED <<ocspLine, indexFile, memory, ocspTrouble>>

(* Nobody is asked: the certificate does not verify, or nobody answers.    *)
(* What the library says of a certificate without any URL is not known.    *)
AskNobody(i) ==
  /\ OcspAt(i, "check")
  /\ CanAsk(i) => ~\E j \in OcspProcs : Reaches(i, j)
  /\ \E told \in IF CanAsk(i) /\ Url(i) = None THEN {"good", "failed"} ELSE {"failed"} :
       verdict' = [verdict EXCEPT ![i] = told] /\ Exit(i, RetOf(told))
  /\ UNCHANGED <<ocspLine, indexFile, memory, answered, asked, ocspTrouble>>

-----------------------------------------------------------------------------
(* The keeper of the index rewrites it.                                    *)
Revise ==
  /\ indexFile # Revised
  /\ indexFile' = Revised
  /\ UNCHANGED <<ocspLine, ocspPc, ocspRet, memory, answered, verdict, asked, ocspTrouble>>

OcspEnded == (\A i \in OcspProcs : OcspAt(i, "over")) /\ UNCHANGED ocspVars

OcspNext ==
  \/ \E i \in OcspProcs :
       \/ OcspSetup(i) \/ ReadFile(i) \/ CallFails(i)
       \/ AddSigner(i) \/ Listen(i) \/ Stop(i)
       \/ AskNobody(i) \/ \E j \in OcspProcs : AskResponder(i, j)
  \/ Revise \/ OcspEnded

OcspSpec == OcspInit /\ [][OcspNext]_ocspVars

-----------------------------------------------------------------------------
OcspTypeOK ==
  /\ ocspPc \in [OcspProcs -> DOMAIN After \cup
                 {"options", "check", "addSigner", "listen", "serve", "over"}]
  /\ ocspRet \in [OcspProcs -> {None, Success, FatalError}]
  /\ indexFile \in {OcspDisk["index"], Revised}
  /\ \A i \in OcspProcs : DOMAIN memory[i] = DOMAIN After
  /\ answered \in [OcspProcs -> Nat]
  /\ verdict \in [OcspProcs -> {None, "good", "revoked", "failed"}]
  /\ asked \in [OcspProcs -> OcspProcs \cup {None}] /\ ocspTrouble \subseteq OcspProcs

(* What is in the file an option names.                                    *)
Named(i, option) == Content(Arg(i, option)).of

TrustsCA(i, j) ==
  \E option \in {"-issuer", "-CAfile"} :
    Content(Arg(i, option)) # None /\ Named(i, option) = Named(j, "-CA")

(* The responder a client has asked has vouched for it: the CA it serves   *)
(* has the name and the key of one the client trusts, and issued the       *)
(* certificate, and its index, as it is or was, says so.                   *)
Vouched(i) ==
  LET j == asked[i]
      x == Named(i, "-cert") IN
  /\ \E option \in {"-issuer", "-CAfile"} :
       /\ Content(Arg(i, option)) # None
       /\ Named(i, option).subject = Named(j, "-CA").subject
       /\ Named(i, option).key = Named(j, "-CA").key
  /\ Issues(Named(j, "-CA"), x)
  /\ \E index \in {OcspDisk["index"], indexFile} :
       x.serial \in DOMAIN index /\ verdict[i] = index[x.serial]
  /\ Arg(j, "-index") = "index"

(* The files of a responder belong together: its CA signs, or one that may *)
(* sign for it does.                                                       *)
FilesFit(i) ==
  /\ \A option \in {"-CA", "-rsigner"} : IsCert(Content(Arg(i, option)))
  /\ Der(Arg(i, "-rkey"), "key") # None /\ Content(Arg(i, "-rkey")).kind = "key"
  /\ Named(i, "-rkey") = Named(i, "-rsigner").key
  /\ \/ Named(i, "-rsigner") = Named(i, "-CA")
     \/ Issues(Named(i, "-CA"), Named(i, "-rsigner")) /\ Named(i, "-rsigner").ocsp

(* A client that reports a status and had whom to ask has it from a        *)
(* responder that vouches for it, and it succeeds just when it reports     *)
(* one; one that asks a responder of a CA it trusts reports what is in the *)
(* responder's index, revoked or good; and a responder whose files fit     *)
(* starts, unless a call fails or its port is taken.                       *)
OcspTellsTheStatus ==
  \A i \in OcspProcs :
    /\ verdict[i] \in {"good", "revoked"} /\ Url(i) # None => asked[i] # None /\ Vouched(i)
    /\ (ocspRet[i] = Success /\ IsClient(i) /\ ~OcspHelp(i)) <=> verdict[i] \in {"good", "revoked"}
    /\ asked[i] # None /\ TrustsCA(i, asked[i]) =>
         verdict[i] = LET s == Answer(asked[i], Named(i, "-cert"))
                      IN  IF s \in {"good", "revoked"} THEN s ELSE "failed"
    /\ ocspRet[i] = FatalError /\ IsResponder(i) /\ i \notin ocspTrouble =>
         \/ OcspRefuses(i) \/ IsClient(i) \/ ~FilesFit(i)
         \/ \E j \in OcspProcs \ {i} : Arg(j, "-port") = Arg(i, "-port")
=============================================================================

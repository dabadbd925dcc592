---------------------------- MODULE OcspResponder ----------------------------
(***************************************************************************)
(* The OCSP responder of "wolfssl ocsp -port ...": one process that loads  *)
(* its files, listens, and then serves one connection at a time until the  *)
(* request limit or a signal stops it (src/src/ocsp/clu_ocsp.c).           *)
(*                                                                         *)
(* The module also holds what the responder meets: clients that connect,   *)
(* send whole, partial or unusable requests, stall and hang up; and SIGINT *)
(* or SIGTERM at any moment.  How bytes become a request is the subject of *)
(* HttpTransport and ScgiTransport, how the index file becomes certStatus  *)
(* that of OcspIndex.                                                      *)
(***************************************************************************)
EXTENDS Integers, Sequences, FiniteSets

CONSTANTS
  Conns,           \* the TCP connections clients may open, each at most once
  Serials,         \* serial numbers a status may be asked for
  Statuses,        \* the statuses the index may give a serial
  Kinds,           \* the kinds of request clients send, see RequestKinds
  Transports,      \* the transports to run with: "HTTP", "SCGI" or both
  Limits,          \* the values of -nrequest to run with; 0 is no limit
  MaxAcceptErrors, \* bound on accept() failures that no signal caused
  MaxSignals,      \* bound on signals delivered to the process
  Invalid          \* INVALID_SOCKET

\* "status" asks for the status of a serial under our CA; "malformed" does
\* not parse as an OCSP request; "foreign" is about another CA; the others
\* are stopped by the transport.
RequestKinds == {"status", "malformed", "foreign", "notPost", "noBody", "garbled"}

ASSUME KindsAssumption == Kinds \subseteq RequestKinds
ASSUME StatusesAssumption == Statuses \subseteq {"good", "revoked", "unknown"}
ASSUME TransportsAssumption == Transports \subseteq {"HTTP", "SCGI"}
ASSUME LimitsAssumption == Limits \subseteq Nat
ASSUME BoundsAssumption == MaxAcceptErrors \in Nat /\ MaxSignals \in Nat
ASSUME InvalidAssumption == Invalid \notin Conns

NoSerial == "no serial"

Requests ==
  {r \in [kind : Kinds, serial : Serials \cup {NoSerial}] :
     r.kind = "status" <=> r.serial # NoSerial}

WellFormed == {r \in Requests : r.kind \in {"status", "malformed", "foreign"}}

\* What a client has put on its connection short of a whole request.
Nothing == [kind |-> "nothing", serial |-> NoSerial]
Part == [kind |-> "part", serial |-> NoSerial]

CertStatuses == Statuses \cup {"absent"}

\* Everything the responder ever writes to a connection: OCSP responses, the
\* errors of the transport, and Cut, an answer whose sending failed after some
\* of it was on the wire.
Response(status, serial, cert) == [status |-> status, serial |-> serial, cert |-> cert]
Bare(status) == Response(status, NoSerial, "absent")

ErrorStatuses == {"malformedRequest", "internalError", "unauthorized"}
OcspAnswers ==
  [status : {"successful"}, serial : Serials, cert : Statuses]
    \cup {Bare(e) : e \in ErrorStatuses}
TransportErrors == {Bare("400"), Bare("405"), Bare("500")}
Cut == Bare("cut")
Answers == OcspAnswers \cup TransportErrors \cup {Cut}

NoResponse == Bare("none")

\* What ocspResponder acquires before it serves, in the order it does.
StartupOrder ==
  << "caCertDer", "signerCertDer", "signerKeyDer", "caCert", "caSubject",
     "indexEntries", "responder", "sockfd" >>
Resources == {StartupOrder[i] : i \in DOMAIN StartupOrder}

VARIABLES
  \* the responder process
  pc, held, clientfd, body, ocspStatus, respBuffer, requestsProcessed,
  certStatus, shutdownRequested, exitCode,
  \* its configuration
  transport, nrequest,
  \* the connections
  conn, sent, hung, replies,
  \* bounds, and the history of accepts after a signal
  acceptErrors, signals, lateAccepts

procVars == <<held, clientfd, body, ocspStatus, respBuffer, requestsProcessed,
              certStatus, exitCode>>
configVars == <<transport, nrequest>>
netVars == <<conn, sent, hung, replies>>
boundVars == <<acceptErrors, signals, lateAccepts>>
vars == <<pc, procVars, shutdownRequested, configVars, netVars, boundVars>>

-----------------------------------------------------------------------------
Init ==
  /\ pc = "startup"
  /\ held = {}
  /\ clientfd = Invalid
  /\ body = Nothing
  /\ ocspStatus = "successful"
  /\ respBuffer = NoResponse
  /\ requestsProcessed = 0
  /\ certStatus = [s \in Serials |-> "absent"]
  /\ shutdownRequested = FALSE
  /\ exitCode = "none"
  /\ transport \in Transports
  /\ nrequest \in Limits
  /\ conn = [c \in Conns |-> "idle"]
  /\ sent = [c \in Conns |-> Nothing]
  /\ hung = [c \in Conns |-> FALSE]
  /\ replies = [c \in Conns |-> << >>]
  /\ acceptErrors = 0
  /\ signals = 0
  /\ lateAccepts = 0

\* Faulty variants of the actions and operators below, named Bad..., show that
\* the properties can fail: each stands for a plausible slip in the code.
BadLimitReached(n) == nrequest > 0 /\ n > nrequest

LimitReached(n) == nrequest > 0 /\ n >= nrequest

-----------------------------------------------------------------------------
(***************************************************************************)
(* Startup.                                                                *)
(***************************************************************************)

\* A required option is missing: return before anything is acquired.
RejectOptions ==
  /\ pc = "startup" /\ held = {}
  /\ pc' = "exited"
  /\ exitCode' = "fatal"
  /\ UNCHANGED <<held, clientfd, body, ocspStatus, respBuffer, requestsProcessed,
                 certStatus, shutdownRequested, configVars, netVars, boundVars>>

\* Position i of StartupOrder is the next to be acquired.
IsNext(i) == \A j \in DOMAIN StartupOrder : j < i <=> StartupOrder[j] \in held

\* The next resource is loaded, parsed or created.  The index may be missing
\* or unreadable, which is only a warning.  Creating the responder includes
\* AddSigner and filling in the statuses of the index.
Acquire ==
  /\ pc = "startup"
  /\ \E i \in DOMAIN StartupOrder :
       /\ IsNext(i)
       /\ held' = held \cup {StartupOrder[i]}
       /\ IF StartupOrder[i] = "responder"
            THEN certStatus' \in [Serials -> CertStatuses]
            ELSE certStatus' = certStatus
       /\ pc' = IF StartupOrder[i] = "sockfd" THEN "listening" ELSE "startup"
  /\ UNCHANGED <<clientfd, body, ocspStatus, respBuffer, requestsProcessed,
                 shutdownRequested, exitCode, configVars, netVars, boundVars>>

\* A load, a parse, an allocation, AddSigner or listen fails: goto cleanup.
StartupFails ==
  /\ pc = "startup"
  /\ \E i \in DOMAIN StartupOrder : IsNext(i) /\ StartupOrder[i] # "indexEntries"
  /\ pc' = "cleanup"
  /\ exitCode' = "fatal"
  /\ UNCHANGED <<held, clientfd, body, ocspStatus, respBuffer, requestsProcessed,
                 certStatus, shutdownRequested, configVars, netVars, boundVars>>

\* The socket already listens when the handlers are installed.
SetupSignalHandlers ==
  /\ pc = "listening"
  /\ pc' = "test"
  /\ UNCHANGED <<procVars, shutdownRequested, configVars, netVars, boundVars>>

-----------------------------------------------------------------------------
(***************************************************************************)
(* The main loop.  "calling" is the window between the test of the loop    *)
(* condition and the moment accept() sleeps: a signal that lands there     *)
(* sets the flag but interrupts nothing.                                   *)
(***************************************************************************)
BadLoopTest == \* the flag is not looked at
  /\ pc = "test"
  /\ IF LimitReached(requestsProcessed)
       THEN pc' = "cleanup" /\ exitCode' = "success" /\ UNCHANGED ocspStatus
       ELSE pc' = "calling" /\ ocspStatus' = "successful" /\ UNCHANGED exitCode
  /\ UNCHANGED <<held, clientfd, body, respBuffer, requestsProcessed, certStatus,
                 shutdownRequested, configVars, netVars, boundVars>>

LoopTest ==
  /\ pc = "test"
  /\ IF shutdownRequested \/ LimitReached(requestsProcessed)
       THEN pc' = "cleanup" /\ exitCode' = "success" /\ UNCHANGED ocspStatus
       ELSE pc' = "calling" /\ ocspStatus' = "successful" /\ UNCHANGED exitCode
  /\ UNCHANGED <<held, clientfd, body, respBuffer, requestsProcessed, certStatus,
                 shutdownRequested, configVars, netVars, boundVars>>

CallAccept ==
  /\ pc = "calling"
  /\ pc' = "accept"
  /\ UNCHANGED <<procVars, shutdownRequested, configVars, netVars, boundVars>>

Accept(c) ==
  /\ pc = "accept"
  /\ conn[c] = "queued"
  /\ clientfd' = c
  /\ conn' = [conn EXCEPT ![c] = "open"]
  /\ lateAccepts' = lateAccepts + (IF shutdownRequested THEN 1 ELSE 0)
  /\ pc' = "read"
  /\ UNCHANGED <<held, body, ocspStatus, respBuffer, requestsProcessed, certStatus,
                 shutdownRequested, exitCode, configVars, sent, hung, replies,
                 acceptErrors, signals>>

\* accept() fails for a reason other than a signal.
AcceptFails ==
  /\ pc = "accept"
  /\ acceptErrors < MaxAcceptErrors
  /\ acceptErrors' = acceptErrors + 1
  /\ clientfd' = Invalid
  /\ pc' = "continue"
  /\ UNCHANGED <<held, body, ocspStatus, respBuffer, requestsProcessed, certStatus,
                 shutdownRequested, exitCode, configVars, netVars, signals, lateAccepts>>

\* What writing answer a to connection c may leave there.  Once the client is
\* gone send() fails, at once or midway, or still fills the socket buffer.
Written(c, a) ==
  {Append(replies[c], a)}
    \cup IF hung[c] THEN {replies[c], Append(replies[c], Cut)} ELSE {}

SendError(a) == \E w \in Written(clientfd, a) : replies' = [replies EXCEPT ![clientfd] = w]

\* The transport's own answer to what it read, or NoResponse when it drops
\* the connection in silence.
Refusal(s) ==
  IF transport = "HTTP"
    THEN IF s = Nothing THEN NoResponse ELSE Bare("400")
    ELSE CASE s.kind = "notPost" -> Bare("405")
           [] s.kind = "noBody"  -> Bare("400")
           [] OTHER              -> NoResponse

\* recv() returns only with data or the client's hangup, and is called again
\* when a signal interrupts it.
ReadRequest ==
  /\ pc = "read"
  /\ sent[clientfd] \in WellFormed
  /\ body' = sent[clientfd]
  /\ pc' = "respond"
  /\ UNCHANGED <<held, clientfd, ocspStatus, respBuffer, requestsProcessed, certStatus,
                 shutdownRequested, exitCode, configVars, netVars, boundVars>>

BadRefuseRequest == \* recv() returning 0 is taken for an interrupted call
  /\ pc = "read"
  /\ sent[clientfd] \in Requests \ WellFormed
  /\ IF Refusal(sent[clientfd]) = NoResponse
       THEN UNCHANGED replies
       ELSE SendError(Refusal(sent[clientfd]))
  /\ pc' = "continue"
  /\ UNCHANGED <<procVars, shutdownRequested, configVars, conn, sent, hung, boundVars>>

RefuseRequest ==
  /\ pc = "read"
  /\ sent[clientfd] \notin WellFormed
  /\ sent[clientfd] \in Requests \/ hung[clientfd]
  /\ IF Refusal(sent[clientfd]) = NoResponse
       THEN UNCHANGED replies
       ELSE SendError(Refusal(sent[clientfd]))
  /\ pc' = "continue"
  /\ UNCHANGED <<procVars, shutdownRequested, configVars, conn, sent, hung, boundVars>>

BadWriteResponse(r) == \* a serial that is not in the index is answered all the same
  CASE r.kind = "malformed" -> {"ASN_PARSE_E"}
    [] r.kind = "foreign"   -> {"ASN_NO_SIGNER_E"}
    [] OTHER -> {"0", "ASN_SIG_HASH_E", "MEMORY_E"}

\* wc_OcspResponder_WriteResponse of wolfSSL, from how its result is used.
WriteResponse(r) ==
  CASE r.kind = "malformed" -> {"ASN_PARSE_E"}
    [] r.kind = "foreign"   -> {"ASN_NO_SIGNER_E"}
    [] OTHER -> IF certStatus[r.serial] = "absent"
                  THEN {"OCSP_CERT_UNKNOWN"}
                  ELSE {"0", "ASN_SIG_HASH_E", "MEMORY_E"}

OcspStatusOf(err) ==
  CASE err = "ASN_PARSE_E" -> "malformedRequest"
    [] err = "ASN_NO_SIGNER_E" \/ err = "OCSP_CERT_UNKNOWN" -> "unauthorized"
    [] OTHER -> "internalError"

BadRespond == \* the response in the static buffer is taken for the one to send
  /\ pc = "respond"
  /\ "0" \in WriteResponse(body)
  /\ respBuffer' = IF respBuffer # NoResponse THEN respBuffer
                   ELSE Response("successful", body.serial, certStatus[body.serial])
  /\ pc' = "send"
  /\ UNCHANGED <<held, clientfd, body, ocspStatus, requestsProcessed, certStatus,
                 shutdownRequested, exitCode, configVars, netVars, boundVars>>

Respond ==
  /\ pc = "respond"
  /\ "0" \in WriteResponse(body)
  /\ respBuffer' = Response("successful", body.serial, certStatus[body.serial])
  /\ pc' = "send"
  /\ UNCHANGED <<held, clientfd, body, ocspStatus, requestsProcessed, certStatus,
                 shutdownRequested, exitCode, configVars, netVars, boundVars>>

BadRespondError == \* no error response is put into the buffer
  /\ pc = "respond"
  /\ \E err \in WriteResponse(body) \ {"0"} : ocspStatus' = OcspStatusOf(err)
  /\ pc' = "send"
  /\ UNCHANGED <<held, clientfd, body, respBuffer, requestsProcessed, certStatus,
                 shutdownRequested, exitCode, configVars, netVars, boundVars>>

\* No response could be made: an OCSP error response instead, and when not
\* even that can be encoded, the transport's 500.
RespondError ==
  /\ pc = "respond"
  /\ \E err \in WriteResponse(body) \ {"0"} :
       /\ ocspStatus' = OcspStatusOf(err)
       /\ \/ /\ respBuffer' = Bare(OcspStatusOf(err))
             /\ pc' = "send"
             /\ UNCHANGED replies
          \/ /\ SendError(Bare("500"))
             /\ pc' = "continue"
             /\ UNCHANGED respBuffer
  /\ UNCHANGED <<held, clientfd, body, requestsProcessed, certStatus,
                 shutdownRequested, exitCode, configVars, conn, sent, hung, boundVars>>

BadSendResponse == \* every response counts toward the limit
  /\ pc = "send"
  /\ replies' = [replies EXCEPT ![clientfd] = Append(@, respBuffer)]
  /\ requestsProcessed' = requestsProcessed + 1
  /\ IF LimitReached(requestsProcessed')
       THEN pc' = "cleanup" /\ exitCode' = "success"
       ELSE pc' = "continue" /\ UNCHANGED exitCode
  /\ UNCHANGED <<held, clientfd, body, ocspStatus, respBuffer, certStatus,
                 shutdownRequested, configVars, conn, sent, hung, boundVars>>

\* Leaving the loop from here, clientfd is still open and cleanup closes it.
SendResponse ==
  /\ pc = "send"
  /\ replies' = [replies EXCEPT ![clientfd] = Append(@, respBuffer)]
  /\ requestsProcessed' =
       requestsProcessed + (IF ocspStatus = "successful" THEN 1 ELSE 0)
  /\ IF LimitReached(requestsProcessed')
       THEN pc' = "cleanup" /\ exitCode' = "success"
       ELSE pc' = "continue" /\ UNCHANGED exitCode
  /\ UNCHANGED <<held, clientfd, body, ocspStatus, respBuffer, certStatus,
                 shutdownRequested, configVars, conn, sent, hung, boundVars>>

BadSendFails == \* a response cut short is followed by an error
  /\ pc = "send"
  /\ hung[clientfd]
  /\ replies' = [replies EXCEPT ![clientfd] = @ \o <<Cut, Bare("500")>>]
  /\ pc' = "continue"
  /\ UNCHANGED <<procVars, shutdownRequested, configVars, conn, sent, hung, boundVars>>

SendFails ==
  /\ pc = "send"
  /\ hung[clientfd]
  /\ \E w \in {replies[clientfd], Append(replies[clientfd], Cut)} :
       replies' = [replies EXCEPT ![clientfd] = w]
  /\ pc' = "continue"
  /\ UNCHANGED <<procVars, shutdownRequested, configVars, conn, sent, hung, boundVars>>

BadContinueLoop == \* the descriptor is forgotten, not closed
  /\ pc = "continue"
  /\ body' = Nothing
  /\ clientfd' = Invalid
  /\ pc' = "test"
  /\ UNCHANGED <<held, ocspStatus, respBuffer, requestsProcessed, certStatus,
                 shutdownRequested, exitCode, configVars, netVars, boundVars>>

\* The end of an iteration: its locals go out of scope.
ContinueLoop ==
  /\ pc = "continue"
  /\ body' = Nothing
  /\ conn' = [c \in Conns |-> IF c = clientfd THEN "closed" ELSE conn[c]]
  /\ clientfd' = Invalid
  /\ pc' = "test"
  /\ UNCHANGED <<held, ocspStatus, respBuffer, requestsProcessed, certStatus,
                 shutdownRequested, exitCode, configVars, sent, hung, replies, boundVars>>

\* Closing the listening socket resets the connections still queued on it.
Cleanup ==
  /\ pc = "cleanup"
  /\ conn' = [c \in Conns |->
               IF c = clientfd THEN "closed"
               ELSE IF conn[c] = "queued" THEN "reset" ELSE conn[c]]
  /\ held' = held \ Resources
  /\ pc' = "exited"
  /\ UNCHANGED <<clientfd, body, ocspStatus, respBuffer, requestsProcessed, certStatus,
                 shutdownRequested, exitCode, configVars, sent, hung, replies, boundVars>>

-----------------------------------------------------------------------------
(***************************************************************************)
(* The environment.                                                        *)
(***************************************************************************)

\* SIGINT or SIGTERM.  Until the handlers are installed it kills the process.
\* Afterwards it sets the flag, and makes a sleeping accept() return EINTR.
Signal ==
  /\ pc \notin {"exited", "killed"}
  /\ signals < MaxSignals
  /\ signals' = signals + 1
  /\ IF pc \in {"startup", "listening"} \/ (pc = "cleanup" /\ "sockfd" \notin held)
       THEN /\ pc' = "killed"
            /\ conn' = [c \in Conns |-> IF conn[c] = "queued" THEN "reset" ELSE conn[c]]
            /\ UNCHANGED shutdownRequested
       ELSE /\ pc' = IF pc = "accept" THEN "continue" ELSE pc
            /\ shutdownRequested' = TRUE
            /\ UNCHANGED conn
  /\ UNCHANGED <<procVars, configVars, sent, hung, replies, acceptErrors, lateAccepts>>

\* The kernel completes a connection as soon as the socket listens.
Connect(c) ==
  /\ "sockfd" \in held /\ pc # "killed"
  /\ conn[c] = "idle"
  /\ conn' = [conn EXCEPT ![c] = "queued"]
  /\ UNCHANGED <<pc, procVars, shutdownRequested, configVars, sent, hung, replies, boundVars>>

Connected(c) == conn[c] \in {"queued", "open"}

ClientSends(c) ==
  /\ Connected(c) /\ ~hung[c]
  /\ \/ sent[c] = Nothing /\ sent' = [sent EXCEPT ![c] = Part]
     \/ /\ sent[c] \in {Nothing, Part}
        /\ \E r \in Requests : sent' = [sent EXCEPT ![c] = r]
  /\ UNCHANGED <<pc, procVars, shutdownRequested, configVars, conn, hung, replies, boundVars>>

Hangup(c) ==
  /\ Connected(c) /\ ~hung[c]
  /\ hung' = [hung EXCEPT ![c] = TRUE]
  /\ UNCHANGED <<pc, procVars, shutdownRequested, configVars, conn, sent, replies, boundVars>>

-----------------------------------------------------------------------------
Responder ==
  \/ Acquire
  \/ SetupSignalHandlers
  \/ LoopTest
  \/ CallAccept
  \/ \E c \in Conns : Accept(c)
  \/ ReadRequest
  \/ RefuseRequest
  \/ Respond
  \/ RespondError
  \/ SendResponse
  \/ SendFails
  \/ ContinueLoop
  \/ Cleanup

Environment ==
  \/ RejectOptions
  \/ StartupFails
  \/ AcceptFails
  \/ Signal
  \/ \E c \in Conns : Connect(c) \/ ClientSends(c) \/ Hangup(c)

Next == Responder \/ Environment

Spec == Init /\ [][Next]_vars

\* The process is scheduled, and no client keeps its connection for ever.
FairSpec == Spec /\ WF_vars(Responder) /\ \A c \in Conns : WF_vars(Hangup(c))

-----------------------------------------------------------------------------
(***************************************************************************)
(* Properties.                                                             *)
(***************************************************************************)

\* Every variable stays in its type.
TypeOK ==
  /\ pc \in {"startup", "listening", "test", "calling", "accept", "read", "respond",
             "send", "continue", "cleanup", "exited", "killed"}
  /\ held \subseteq Resources
  /\ clientfd \in Conns \cup {Invalid}
  /\ body \in WellFormed \cup {Nothing}
  /\ ocspStatus \in {"successful"} \cup ErrorStatuses
  /\ respBuffer \in OcspAnswers \cup {NoResponse}
  /\ requestsProcessed \in Nat
  /\ certStatus \in [Serials -> CertStatuses]
  /\ shutdownRequested \in BOOLEAN
  /\ exitCode \in {"none", "fatal", "success"}
  /\ transport \in Transports
  /\ nrequest \in Limits
  /\ conn \in [Conns -> {"idle", "queued", "open", "closed", "reset"}]
  /\ sent \in [Conns -> Requests \cup {Nothing, Part}]
  /\ hung \in [Conns -> BOOLEAN]
  /\ replies \in [Conns -> Seq(Answers)]
  /\ acceptErrors \in Nat
  /\ signals \in Nat
  /\ lateAccepts \in Nat

\* What may be written in answer to request r.
RightOcspAnswer(r, a) ==
  /\ r \in WellFormed
  /\ r.kind = "malformed" => a.status = "malformedRequest"
  /\ r.kind = "foreign" => a.status = "unauthorized"
  /\ r.kind = "status" =>
       IF certStatus[r.serial] = "absent"
         THEN a.status = "unauthorized"
         ELSE \/ a.status = "internalError"
              \/ a = Response("successful", r.serial, certStatus[r.serial])

RightAnswer(s, a) ==
  /\ a \in OcspAnswers => RightOcspAnswer(s, a)
  /\ a = Bare("500") => s \in WellFormed
  /\ a \in {Bare("400"), Bare("405")} => s \notin WellFormed

\* The static respBuffer and the per-request ocspStatus are reused for every
\* client, yet a connection only ever carries the answer to its own request:
\* the status of the serial it asked about as the index gave it at startup,
\* or the error its request deserves.
AnswersAreRight ==
  \A c \in Conns : \A i \in DOMAIN replies[c] : RightAnswer(sent[c], replies[c][i])

\* No connection is answered twice, whichever send failed on the way (a
\* response cut short is not followed by an error), and a client that sent a
\* well-formed request and stayed is not dropped without an answer.
OneAnswer ==
  \A c \in Conns :
    /\ Len(replies[c]) <= 1
    /\ (conn[c] = "closed" /\ sent[c] \in WellFormed /\ ~hung[c]) => Len(replies[c]) = 1

Served == {c \in Conns : \E i \in DOMAIN replies[c] : replies[c][i].status = "successful"}

\* Exactly the complete successful responses count toward -nrequest, and the
\* count never passes the limit: failed reads, refused requests, OCSP errors
\* and failed sends do not use up the budget.
BudgetIsExact ==
  /\ requestsProcessed = Cardinality(Served)
  /\ nrequest > 0 => requestsProcessed <= nrequest

\* At most one client descriptor is open, it is the one in clientfd, and
\* leaving by any path, the break at the limit included, leaves no descriptor
\* open, no client waiting and nothing allocated.
DescriptorDiscipline ==
  /\ {c \in Conns : conn[c] = "open"} =
       IF clientfd = Invalid \/ pc = "exited" THEN {} ELSE {clientfd}
  /\ pc = "exited" => held = {} /\ \A c \in Conns : conn[c] # "queued"

\* After a signal has been handled at most one more connection is accepted:
\* the loop looks at the flag before each accept.
AtMostOneLateAccept == lateAccepts <= 1

\* Every connection the kernel has completed is eventually closed or reset,
\* whatever signals, errors and limits intervene, provided clients do not stay
\* for ever: no client starves the others.
EveryConnectionEnds ==
  \A c \in Conns : conn[c] = "queued" ~> conn[c] \in {"closed", "reset"}

\* A signal that is handled while a request is being read, answered or closed
\* ends the process.
ShutdownEndsLoop ==
  (shutdownRequested /\ pc \notin {"calling", "accept"}) ~> (pc = "exited")

\* What the comments at the handlers and at the loop promise of any signal
\* handled after startup.
ShutdownCompletes == shutdownRequested ~> (pc = "exited")

-----------------------------------------------------------------------------
(***************************************************************************)
(* The responder implements the service OcspService describes.             *)
(***************************************************************************)
Phase ==
  IF pc \in {"startup", "listening"} THEN "starting"
  ELSE IF pc \in {"cleanup", "exited", "killed"} THEN "stopped" ELSE "serving"

Asked == [c \in Conns |-> IF sent[c] \in Requests THEN sent[c] ELSE Nothing]

Service == INSTANCE OcspService WITH
  phase <- Phase, table <- certStatus, limit <- nrequest,
  asked <- Asked, answers <- replies, served <- requestsProcessed

\* Every step of the responder is a step of the service or leaves it alone.
ServiceSpec == Service!Spec

=============================================================================

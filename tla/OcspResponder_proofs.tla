------------------------ MODULE OcspResponder_proofs -------------------------
(***************************************************************************)
(* The safety properties of OcspResponder for any number of connections,   *)
(* serials, requests and signals, and the proof that it implements         *)
(* OcspService.                                                            *)
(***************************************************************************)
EXTENDS OcspResponder, FiniteSetTheorems, TLAPS

\* Where the responder stands with the connection in clientfd.
Handling == {"read", "respond", "send"}

OpenInv ==
  /\ \A c \in Conns : conn[c] = "open" <=> (c = clientfd /\ pc # "exited")
  /\ pc \in Handling => clientfd \in Conns
  /\ pc \in {"startup", "listening", "test", "calling", "accept", "killed"}
       => clientfd = Invalid
  /\ pc \in {"listening", "test", "calling", "accept", "continue"} \cup Handling
       => "sockfd" \in held
  /\ pc = "cleanup" /\ clientfd \in Conns => "sockfd" \in held
  /\ pc = "startup" => "sockfd" \notin held /\ \A c \in Conns : conn[c] = "idle"
  /\ pc = "listening" => \A c \in Conns : conn[c] \in {"idle", "queued"}
  /\ pc = "exited" => held = {} /\ \A c \in Conns : conn[c] # "queued"

\* A connection has no answer before it is handled, and one that was answered
\* or given up on has a request that no longer changes.
AnswerInv ==
  /\ \A c \in Conns : conn[c] \in {"idle", "queued", "reset"} => replies[c] = << >>
  /\ \A c \in Conns : Len(replies[c]) <= 1
  /\ pc \in Handling => replies[clientfd] = << >>
  /\ \A c \in Conns :
       (conn[c] = "closed" \/ (c = clientfd /\ pc \notin Handling)) =>
         \/ hung[c]
         \/ /\ sent[c] \in Requests
            /\ sent[c] \in WellFormed => replies[c] # << >>

\* What is in the buffers belongs to the request being handled.
BufferInv ==
  /\ pc \in {"respond", "send"} => sent[clientfd] \in WellFormed
  /\ pc = "respond" => body = sent[clientfd]
  /\ pc \in {"calling", "accept", "read", "respond"} => ocspStatus = "successful"
  /\ pc = "send" => /\ respBuffer \in OcspAnswers
                    /\ respBuffer.status = ocspStatus
                    /\ RightOcspAnswer(sent[clientfd], respBuffer)

\* The budget is not used up while a request is being handled.
BudgetInv ==
  /\ nrequest > 0 => requestsProcessed <= nrequest
  /\ pc \in {"calling", "accept"} \cup Handling => ~LimitReached(requestsProcessed)

\* After a late accept the next look at the flag ends the loop.
LateInv ==
  /\ lateAccepts <= 1
  /\ lateAccepts > 0 => shutdownRequested /\ pc \notin {"calling", "accept"}

IInv == TypeOK /\ OpenInv /\ AnswerInv /\ BufferInv /\ AnswersAreRight /\ BudgetInv /\ LateInv

-----------------------------------------------------------------------------
(***************************************************************************)
(* Facts about the data.                                                   *)
(***************************************************************************)

\* A connection that has sent less than a request is told from one that has
\* sent one, and only whole requests are well formed.
LEMMA RequestFacts ==
  /\ Nothing \notin Requests
  /\ Part \notin Requests
  /\ WellFormed \subseteq Requests
BY KindsAssumption DEF Nothing, Part, Requests, WellFormed, RequestKinds

\* A request for a status names a serial.
LEMMA StatusRequest ==
  ASSUME NEW r \in WellFormed, r.kind = "status"
  PROVE  r.serial \in Serials
BY DEF WellFormed, Requests

\* A well-formed request that wolfSSL can answer asks for a status.
LEMMA AnswerableRequest ==
  ASSUME NEW r \in WellFormed, "0" \in WriteResponse(r)
  PROVE  /\ r.kind = "status"
         /\ certStatus[r.serial] # "absent"
BY DEF WriteResponse, WellFormed

\* What Respond and RespondError put into the buffer are OCSP responses.
LEMMA AnswerFacts ==
  /\ \A s \in Serials, t \in Statuses : Response("successful", s, t) \in OcspAnswers
  /\ \A e \in ErrorStatuses : Bare(e) \in OcspAnswers
  /\ OcspAnswers \subseteq Answers
  /\ TransportErrors \subseteq Answers
  /\ Cut \in Answers
BY DEF OcspAnswers, Answers, Response, Bare

\* Every error of wolfSSL is mapped to an OCSP error status.
LEMMA ErrorFacts ==
  ASSUME NEW err
  PROVE  OcspStatusOf(err) \in ErrorStatuses /\ OcspStatusOf(err) # "successful"
BY DEF OcspStatusOf, ErrorStatuses

\* The transport refuses with one of its errors, or not at all.
LEMMA RefusalFacts ==
  ASSUME NEW s, Refusal(s) # NoResponse
  PROVE  Refusal(s) \in TransportErrors
BY DEF Refusal, TransportErrors

\* One more answer after a sequence of them.
LEMMA AppendAnswer ==
  ASSUME NEW s \in Seq(Answers), NEW a \in Answers
  PROVE  Append(s, a) \in Seq(Answers)
OBVIOUS

\* A sequence of no answers.
LEMMA NoAnswer ==
  ASSUME NEW s \in Seq(Answers), Len(s) = 0
  PROVE  s = << >>
OBVIOUS

\* Writing to a connection leaves a sequence of answers there.
LEMMA WrittenFacts ==
  ASSUME NEW c \in Conns, NEW a \in Answers, NEW w \in Written(c, a),
         replies[c] \in Seq(Answers)
  PROVE  w \in Seq(Answers)
BY AnswerFacts DEF Written

-----------------------------------------------------------------------------
(***************************************************************************)
(* Type correctness.                                                       *)
(***************************************************************************)

LEMMA TypeInit == Init => TypeOK
<1> SUFFICES ASSUME Init PROVE TypeOK
  OBVIOUS
<1>2. certStatus \in [Serials -> CertStatuses]
  BY DEF CertStatuses, Init
<1>3. replies \in [Conns -> Seq(Answers)]
  BY DEF Init
<1>4. sent \in [Conns -> Requests \cup {Nothing, Part}]
  BY DEF Init
<1>5. conn \in [Conns -> {"idle", "queued", "open", "closed", "reset"}]
  BY DEF Init
<1>6. hung \in [Conns -> BOOLEAN]
  BY DEF Init
<1>7. body \in WellFormed \cup {Nothing} /\ respBuffer \in OcspAnswers \cup {NoResponse}
  BY DEF Init
<1> QED
  BY <1>2, <1>3, <1>4, <1>5, <1>6, <1>7 DEF Init, TypeOK

LEMMA TypeStep == IInv /\ [Next]_vars => TypeOK'
<1> SUFFICES ASSUME TypeOK, OpenInv, BufferInv, [Next]_vars PROVE TypeOK'
  BY DEF IInv
<1> USE DEF TypeOK, configVars, netVars, boundVars, procVars
<1>1. CASE RejectOptions
  BY <1>1 DEF RejectOptions
<1>2. CASE Acquire
  BY <1>2 DEF Acquire, Resources
<1>3. CASE StartupFails
  BY <1>3 DEF StartupFails
<1>4. CASE SetupSignalHandlers
  BY <1>4 DEF SetupSignalHandlers
<1>5. CASE LoopTest
  BY <1>5 DEF LoopTest
<1>6. CASE CallAccept
  BY <1>6 DEF CallAccept
<1>7. ASSUME NEW c \in Conns, Accept(c) PROVE TypeOK'
  BY <1>7 DEF Accept
<1>8. CASE AcceptFails
  BY <1>8 DEF AcceptFails
<1>9. CASE ReadRequest
  BY <1>9 DEF ReadRequest
<1>10. CASE RefuseRequest
  <2>1. replies' \in [Conns -> Seq(Answers)]
    <3>1. clientfd \in Conns
      BY <1>10 DEF RefuseRequest, OpenInv, Handling
    <3>2. CASE Refusal(sent[clientfd]) = NoResponse
      BY <1>10, <3>2 DEF RefuseRequest
    <3>3. CASE Refusal(sent[clientfd]) # NoResponse
      <4>1. PICK w \in Written(clientfd, Refusal(sent[clientfd])) :
              replies' = [replies EXCEPT ![clientfd] = w]
        BY <1>10, <3>3 DEF RefuseRequest, SendError
      <4>2. w \in Seq(Answers)
        BY <3>1, <3>3, <4>1, RefusalFacts, AnswerFacts, WrittenFacts
      <4> QED
        BY <3>1, <4>1, <4>2
    <3> QED
      BY <3>2, <3>3
  <2> QED
    BY <1>10, <2>1 DEF RefuseRequest
<1>11. CASE Respond
  <2>1. body \in WellFormed /\ body.kind = "status" /\ certStatus[body.serial] # "absent"
    BY <1>11, AnswerableRequest DEF Respond, BufferInv
  <2>2. body.serial \in Serials /\ certStatus[body.serial] \in Statuses
    BY <2>1, StatusRequest DEF CertStatuses
  <2>3. respBuffer' \in OcspAnswers
    BY <1>11, <2>2, AnswerFacts DEF Respond
  <2> QED
    BY <1>11, <2>3 DEF Respond
<1>12. CASE RespondError
  <2>1. clientfd \in Conns
    BY <1>12 DEF RespondError, OpenInv, Handling
  <2>2. PICK err \in WriteResponse(body) \ {"0"} :
          /\ ocspStatus' = OcspStatusOf(err)
          /\ \/ /\ respBuffer' = Bare(OcspStatusOf(err))
                /\ pc' = "send"
                /\ UNCHANGED replies
             \/ /\ SendError(Bare("500"))
                /\ pc' = "continue"
                /\ UNCHANGED respBuffer
    BY <1>12 DEF RespondError
  <2>3. ocspStatus' \in ErrorStatuses
    BY <2>2, ErrorFacts
  <2>4. respBuffer' \in OcspAnswers \cup {NoResponse}
    BY <2>2, ErrorFacts, AnswerFacts
  <2>5. replies' \in [Conns -> Seq(Answers)]
    <3>1. CASE SendError(Bare("500"))
      <4>1. PICK w \in Written(clientfd, Bare("500")) :
              replies' = [replies EXCEPT ![clientfd] = w]
        BY <3>1 DEF SendError
      <4>2. w \in Seq(Answers)
        BY <2>1, <4>1, AnswerFacts, WrittenFacts DEF TransportErrors
      <4> QED
        BY <2>1, <4>1, <4>2
    <3> QED
      BY <2>2, <3>1
  <2> QED
    BY <1>12, <2>2, <2>3, <2>4, <2>5 DEF RespondError
<1>13. CASE SendResponse
  <2>1. clientfd \in Conns /\ respBuffer \in Answers
    BY <1>13, AnswerFacts DEF SendResponse, OpenInv, BufferInv, Handling
  <2>2. replies' \in [Conns -> Seq(Answers)]
    BY <1>13, <2>1 DEF SendResponse
  <2> QED
    BY <1>13, <2>2 DEF SendResponse
<1>14. CASE SendFails
  <2>1. clientfd \in Conns
    BY <1>14 DEF SendFails, OpenInv, Handling
  <2>2. PICK w \in {replies[clientfd], Append(replies[clientfd], Cut)} :
          replies' = [replies EXCEPT ![clientfd] = w]
    BY <1>14 DEF SendFails
  <2>3. w \in Seq(Answers)
    <3>1. replies[clientfd] \in Seq(Answers) /\ Cut \in Answers
      BY <2>1, AnswerFacts
    <3>2. Append(replies[clientfd], Cut) \in Seq(Answers)
      BY <3>1, AppendAnswer
    <3> QED
      BY <2>2, <3>1, <3>2, Zenon
  <2> QED
    BY <1>14, <2>1, <2>2, <2>3 DEF SendFails
<1>15. CASE ContinueLoop
  BY <1>15 DEF ContinueLoop
<1>16. CASE Cleanup
  BY <1>16 DEF Cleanup
<1>17. CASE Signal
  <2>1. conn' \in [Conns -> {"idle", "queued", "open", "closed", "reset"}]
    BY <1>17 DEF Signal
  <2>2. shutdownRequested' \in BOOLEAN
    BY <1>17, Zenon DEF Signal
  <2>4. pc' \in {pc, "killed", "continue"} /\ signals' \in Nat
    BY <1>17 DEF Signal
  <2>3. UNCHANGED <<procVars, configVars, sent, hung, replies, acceptErrors, lateAccepts>>
    BY <1>17 DEF Signal
  <2> QED
    BY <2>1, <2>2, <2>3, <2>4
<1>18. ASSUME NEW c \in Conns, Connect(c) PROVE TypeOK'
  BY <1>18 DEF Connect
<1>19. ASSUME NEW c \in Conns, ClientSends(c) PROVE TypeOK'
  BY <1>19 DEF ClientSends
<1>20. ASSUME NEW c \in Conns, Hangup(c) PROVE TypeOK'
  BY <1>20 DEF Hangup
<1>21. CASE UNCHANGED vars
  BY <1>21 DEF vars
<1> QED
  BY <1>1, <1>2, <1>3, <1>4, <1>5, <1>6, <1>7, <1>8, <1>9, <1>10, <1>11, <1>12, <1>13,
     <1>14, <1>15, <1>16, <1>17, <1>18, <1>19, <1>20, <1>21
     DEF Next, Responder, Environment

-----------------------------------------------------------------------------
(***************************************************************************)
(* The descriptor in clientfd is the only one open.                        *)
(***************************************************************************)
LEMMA OpenStep == IInv /\ [Next]_vars => OpenInv'
<1> SUFFICES ASSUME TypeOK, OpenInv, [Next]_vars PROVE OpenInv'
  BY DEF IInv
<1> USE InvalidAssumption DEF TypeOK, OpenInv, Handling, configVars, netVars, boundVars, procVars
<1>1. CASE RejectOptions
  BY <1>1 DEF RejectOptions
<1>2. CASE Acquire
  <2>1. PICK i \in DOMAIN StartupOrder :
          /\ held' = held \cup {StartupOrder[i]}
          /\ pc' = IF StartupOrder[i] = "sockfd" THEN "listening" ELSE "startup"
    BY <1>2 DEF Acquire
  <2>2. pc = "startup" /\ UNCHANGED <<clientfd, conn>>
    BY <1>2 DEF Acquire
  <2>3. CASE StartupOrder[i] = "sockfd"
    BY <2>1, <2>2, <2>3
  <2>4. CASE StartupOrder[i] # "sockfd"
    BY <2>1, <2>2, <2>4
  <2> QED
    BY <2>3, <2>4
<1>3. CASE StartupFails
  <2>1. pc = "startup" /\ pc' = "cleanup" /\ UNCHANGED <<held, clientfd, conn>>
    BY <1>3 DEF StartupFails
  <2> QED
    BY <2>1
<1>4. CASE SetupSignalHandlers
  BY <1>4 DEF SetupSignalHandlers
<1>5. CASE LoopTest
  BY <1>5 DEF LoopTest
<1>6. CASE CallAccept
  BY <1>6 DEF CallAccept
<1>7. ASSUME NEW c \in Conns, Accept(c) PROVE OpenInv'
  BY <1>7 DEF Accept
<1>8. CASE AcceptFails
  BY <1>8 DEF AcceptFails
<1>9. CASE ReadRequest
  BY <1>9 DEF ReadRequest
<1>10. CASE RefuseRequest
  BY <1>10 DEF RefuseRequest
<1>11. CASE Respond
  BY <1>11 DEF Respond
<1>12. CASE RespondError
  BY <1>12 DEF RespondError
<1>13. CASE SendResponse
  BY <1>13 DEF SendResponse
<1>14. CASE SendFails
  BY <1>14 DEF SendFails
<1>15. CASE ContinueLoop
  BY <1>15 DEF ContinueLoop
<1>16. CASE Cleanup
  BY <1>16 DEF Cleanup
<1>17. CASE Signal
  <2> DEFINE kills == pc \in {"startup", "listening"} \/ (pc = "cleanup" /\ "sockfd" \notin held)
  <2>1. UNCHANGED <<held, clientfd>>
    BY <1>17 DEF Signal
  <2>2. CASE kills
    <3>1. /\ pc' = "killed"
          /\ conn' = [c \in Conns |-> IF conn[c] = "queued" THEN "reset" ELSE conn[c]]
      BY <1>17, <2>2 DEF Signal
    <3>2. \A c \in Conns : conn'[c] = "open" <=> conn[c] = "open"
      BY <3>1
    <3> QED
      BY <1>17, <2>1, <2>2, <3>1, <3>2 DEF Signal
  <2>3. CASE ~kills
    BY <1>17, <2>1, <2>3 DEF Signal
  <2> QED
    BY <2>2, <2>3
<1>18. ASSUME NEW c \in Conns, Connect(c) PROVE OpenInv'
  BY <1>18 DEF Connect
<1>19. ASSUME NEW c \in Conns, ClientSends(c) PROVE OpenInv'
  BY <1>19 DEF ClientSends
<1>20. ASSUME NEW c \in Conns, Hangup(c) PROVE OpenInv'
  BY <1>20 DEF Hangup
<1>21. CASE UNCHANGED vars
  BY <1>21 DEF vars
<1> QED
  BY <1>1, <1>2, <1>3, <1>4, <1>5, <1>6, <1>7, <1>8, <1>9, <1>10, <1>11, <1>12, <1>13,
     <1>14, <1>15, <1>16, <1>17, <1>18, <1>19, <1>20, <1>21
     DEF Next, Responder, Environment

LEMMA BudgetStep == IInv /\ [Next]_vars => (BudgetInv /\ LateInv)'
<1> SUFFICES ASSUME TypeOK, BudgetInv, LateInv, [Next]_vars PROVE (BudgetInv /\ LateInv)'
  BY DEF IInv
<1> USE LimitsAssumption
    DEF TypeOK, BudgetInv, LateInv, LimitReached, Handling,
        configVars, netVars, boundVars, procVars
<1>1. CASE RejectOptions
  BY <1>1 DEF RejectOptions
<1>2. CASE Acquire
  BY <1>2 DEF Acquire
<1>3. CASE StartupFails
  BY <1>3 DEF StartupFails
<1>4. CASE SetupSignalHandlers
  BY <1>4 DEF SetupSignalHandlers
<1>5. CASE LoopTest
  BY <1>5 DEF LoopTest
<1>6. CASE CallAccept
  BY <1>6 DEF CallAccept
<1>7. ASSUME NEW c \in Conns, Accept(c) PROVE (BudgetInv /\ LateInv)'
  BY <1>7 DEF Accept
<1>8. CASE AcceptFails
  BY <1>8 DEF AcceptFails
<1>9. CASE ReadRequest
  BY <1>9 DEF ReadRequest
<1>10. CASE RefuseRequest
  BY <1>10 DEF RefuseRequest
<1>11. CASE Respond
  BY <1>11 DEF Respond
<1>12. CASE RespondError
  BY <1>12 DEF RespondError
<1>13. CASE SendResponse
  BY <1>13 DEF SendResponse
<1>14. CASE SendFails
  BY <1>14 DEF SendFails
<1>15. CASE ContinueLoop
  BY <1>15 DEF ContinueLoop
<1>16. CASE Cleanup
  BY <1>16 DEF Cleanup
<1>17. CASE Signal
  BY <1>17 DEF Signal
<1>18. ASSUME NEW c \in Conns, Connect(c) PROVE (BudgetInv /\ LateInv)'
  BY <1>18 DEF Connect
<1>19. ASSUME NEW c \in Conns, ClientSends(c) PROVE (BudgetInv /\ LateInv)'
  BY <1>19 DEF ClientSends
<1>20. ASSUME NEW c \in Conns, Hangup(c) PROVE (BudgetInv /\ LateInv)'
  BY <1>20 DEF Hangup
<1>21. CASE UNCHANGED vars
  BY <1>21 DEF vars
<1> QED
  BY <1>1, <1>2, <1>3, <1>4, <1>5, <1>6, <1>7, <1>8, <1>9, <1>10, <1>11, <1>12, <1>13,
     <1>14, <1>15, <1>16, <1>17, <1>18, <1>19, <1>20, <1>21
     DEF Next, Responder, Environment

-----------------------------------------------------------------------------
(***************************************************************************)
(* Answers: at most one, to the request that was made.                     *)
(***************************************************************************)

\* The first answer on a connection.
LEMMA FirstAnswer ==
  ASSUME NEW a
  PROVE  /\ Append(<< >>, a) = <<a>>
         /\ Len(<<a>>) <= 1 /\ Len(<< >>) <= 1
         /\ <<a>> # << >>
         /\ DOMAIN <<a>> = {1} /\ <<a>>[1] = a
<1>1. << >> \in Seq({a}) /\ a \in {a}
  OBVIOUS
<1>2. Append(<< >>, a) = <<a>>
  BY <1>1
<1> QED
  BY <1>2

\* A write to a connection without an answer leaves at most one there, and
\* none only when the client has hung up.
LEMMA WriteOnce ==
  ASSUME NEW c \in Conns, replies[c] = << >>, NEW a, NEW w \in Written(c, a)
  PROVE  /\ Len(w) <= 1
         /\ \/ w = <<a>> /\ w # << >>
            \/ hung[c] /\ (w = << >> \/ w = <<Cut>>)
<1>1. w = <<a>> \/ (hung[c] /\ (w = << >> \/ w = <<Cut>>))
  BY FirstAnswer, Zenon DEF Written
<1> QED
  BY <1>1, FirstAnswer, Zenon

LEMMA CutOnce ==
  ASSUME NEW s, s = << >>, NEW w \in {s, Append(s, Cut)}
  PROVE  Len(w) <= 1 /\ (w = << >> \/ w = <<Cut>>)
<1>1. w = << >> \/ w = <<Cut>>
  BY FirstAnswer, Zenon
<1> QED
  BY <1>1, FirstAnswer, Zenon

LEMMA AnswerStep == IInv /\ [Next]_vars => AnswerInv'
<1> SUFFICES ASSUME TypeOK, OpenInv, AnswerInv, BufferInv, [Next]_vars PROVE AnswerInv'
  BY DEF IInv
<1> USE InvalidAssumption, RequestFacts
    DEF TypeOK, AnswerInv, OpenInv, Handling, configVars, netVars, boundVars, procVars
<1>1. CASE RejectOptions
  BY <1>1 DEF RejectOptions
<1>2. CASE Acquire
  BY <1>2 DEF Acquire
<1>3. CASE StartupFails
  BY <1>3 DEF StartupFails
<1>4. CASE SetupSignalHandlers
  BY <1>4 DEF SetupSignalHandlers
<1>5. CASE LoopTest
  BY <1>5 DEF LoopTest
<1>6. CASE CallAccept
  BY <1>6 DEF CallAccept
<1>7. ASSUME NEW c \in Conns, Accept(c) PROVE AnswerInv'
  BY <1>7 DEF Accept
<1>8. CASE AcceptFails
  BY <1>8 DEF AcceptFails
<1>9. CASE ReadRequest
  BY <1>9 DEF ReadRequest
<1>10. CASE RefuseRequest
  <2>1. clientfd \in Conns /\ replies[clientfd] = << >>
    BY <1>10 DEF RefuseRequest
  <2>2. PICK w : /\ replies' = [replies EXCEPT ![clientfd] = w]
                 /\ Len(w) <= 1
    <3>1. CASE Refusal(sent[clientfd]) = NoResponse
      <4>1. replies' = [replies EXCEPT ![clientfd] = << >>]
        BY <1>10, <2>1, <3>1 DEF RefuseRequest
      <4>2. Len(<< >>) <= 1
        OBVIOUS
      <4> QED
        BY <4>1, <4>2, Zenon
    <3>2. CASE Refusal(sent[clientfd]) # NoResponse
      <4>1. PICK w \in Written(clientfd, Refusal(sent[clientfd])) :
              replies' = [replies EXCEPT ![clientfd] = w]
        BY <1>10, <3>2 DEF RefuseRequest, SendError
      <4>2. Len(w) <= 1
        BY <2>1, <4>1, WriteOnce
      <4> QED
        BY <4>1, <4>2
    <3> QED
      BY <3>1, <3>2
  <2>3. /\ pc = "read" /\ pc' = "continue"
        /\ sent[clientfd] \notin WellFormed
        /\ sent[clientfd] \in Requests \/ hung[clientfd]
        /\ UNCHANGED <<clientfd, conn, sent, hung>>
    BY <1>10 DEF RefuseRequest
  <2> QED
    BY <2>1, <2>2, <2>3
<1>11. CASE Respond
  BY <1>11 DEF Respond
<1>12. CASE RespondError
  <2>1. clientfd \in Conns /\ replies[clientfd] = << >> /\ sent[clientfd] \in WellFormed
    BY <1>12 DEF RespondError, BufferInv
  <2>2. pc = "respond" /\ UNCHANGED <<clientfd, conn, sent, hung>>
    BY <1>12 DEF RespondError
  <2>3. CASE pc' = "send" /\ UNCHANGED replies
    BY <2>1, <2>2, <2>3
  <2>4. CASE SendError(Bare("500")) /\ pc' = "continue"
    <3>1. PICK w \in Written(clientfd, Bare("500")) :
            replies' = [replies EXCEPT ![clientfd] = w]
      BY <2>4 DEF SendError
    <3>2. /\ Len(w) <= 1
          /\ w # << >> \/ hung[clientfd]
      BY <2>1, <3>1, WriteOnce
    <3> QED
      BY <2>1, <2>2, <2>4, <3>1, <3>2
  <2> QED
    BY <1>12, <2>3, <2>4 DEF RespondError
<1>13. CASE SendResponse
  <2>1. clientfd \in Conns /\ replies[clientfd] = << >> /\ sent[clientfd] \in WellFormed
    BY <1>13 DEF SendResponse, BufferInv
  <2>2. replies' = [replies EXCEPT ![clientfd] = <<respBuffer>>]
    BY <1>13, <2>1 DEF SendResponse
  <2>3. /\ pc = "send" /\ pc' \in {"cleanup", "continue"}
        /\ UNCHANGED <<clientfd, conn, sent, hung>>
    BY <1>13 DEF SendResponse
  <2> QED
    BY <2>1, <2>2, <2>3
<1>14. CASE SendFails
  <2>1. clientfd \in Conns /\ replies[clientfd] = << >>
    BY <1>14 DEF SendFails
  <2>2. PICK w : /\ replies' = [replies EXCEPT ![clientfd] = w]
                 /\ Len(w) <= 1
    <3>1. PICK w \in {replies[clientfd], Append(replies[clientfd], Cut)} :
            replies' = [replies EXCEPT ![clientfd] = w]
      BY <1>14 DEF SendFails
    <3>2. Len(w) <= 1
      BY <2>1, <3>1, CutOnce
    <3> QED
      BY <3>1, <3>2
  <2>3. /\ pc = "send" /\ pc' = "continue" /\ hung[clientfd]
        /\ UNCHANGED <<clientfd, conn, sent, hung>>
    BY <1>14 DEF SendFails
  <2> QED
    BY <2>1, <2>2, <2>3
<1>15. CASE ContinueLoop
  BY <1>15 DEF ContinueLoop
<1>16. CASE Cleanup
  BY <1>16 DEF Cleanup
<1>17. CASE Signal
  BY <1>17 DEF Signal
<1>18. ASSUME NEW c \in Conns, Connect(c) PROVE AnswerInv'
  BY <1>18 DEF Connect
<1>19. ASSUME NEW c \in Conns, ClientSends(c) PROVE AnswerInv'
  BY <1>19 DEF ClientSends
<1>20. ASSUME NEW c \in Conns, Hangup(c) PROVE AnswerInv'
  BY <1>20 DEF Hangup
<1>21. CASE UNCHANGED vars
  BY <1>21 DEF vars
<1> QED
  BY <1>1, <1>2, <1>3, <1>4, <1>5, <1>6, <1>7, <1>8, <1>9, <1>10, <1>11, <1>12, <1>13,
     <1>14, <1>15, <1>16, <1>17, <1>18, <1>19, <1>20, <1>21
     DEF Next, Responder, Environment

LEMMA BufferStep == IInv /\ [Next]_vars => BufferInv'
<1> SUFFICES ASSUME TypeOK, OpenInv, BufferInv, [Next]_vars PROVE BufferInv'
  BY DEF IInv
<1> USE RequestFacts
    DEF TypeOK, BufferInv, OpenInv, Handling, configVars, netVars, boundVars, procVars
<1>1. CASE RejectOptions
  BY <1>1 DEF RejectOptions
<1>2. CASE Acquire
  BY <1>2 DEF Acquire
<1>3. CASE StartupFails
  BY <1>3 DEF StartupFails
<1>4. CASE SetupSignalHandlers
  BY <1>4 DEF SetupSignalHandlers
<1>5. CASE LoopTest
  BY <1>5 DEF LoopTest
<1>6. CASE CallAccept
  BY <1>6 DEF CallAccept
<1>7. ASSUME NEW c \in Conns, Accept(c) PROVE BufferInv'
  BY <1>7 DEF Accept
<1>8. CASE AcceptFails
  BY <1>8 DEF AcceptFails
<1>9. CASE ReadRequest
  BY <1>9 DEF ReadRequest
<1>10. CASE RefuseRequest
  BY <1>10 DEF RefuseRequest
<1>11. CASE Respond
  <2>1. /\ pc = "respond" /\ pc' = "send"
        /\ body = sent[clientfd] /\ body \in WellFormed
        /\ body.kind = "status" /\ certStatus[body.serial] # "absent"
    BY <1>11, AnswerableRequest DEF Respond
  <2>2. body.serial \in Serials /\ certStatus[body.serial] \in Statuses
    BY <2>1, StatusRequest DEF CertStatuses
  <2>3. respBuffer' \in OcspAnswers
    BY <1>11, <2>2, AnswerFacts DEF Respond
  <2>4. /\ respBuffer' = Response("successful", body.serial, certStatus[body.serial])
        /\ UNCHANGED <<certStatus, clientfd, sent, ocspStatus>>
    BY <1>11 DEF Respond
  <2>5. respBuffer'.status = ocspStatus'
    BY <2>1, <2>4 DEF Response
  <2>6. RightOcspAnswer(sent[clientfd], respBuffer)'
    BY <2>1, <2>4 DEF RightOcspAnswer
  <2> QED
    BY <2>1, <2>3, <2>4, <2>5, <2>6
<1>12. CASE RespondError
  <2>1. /\ pc = "respond" /\ body = sent[clientfd] /\ body \in WellFormed
        /\ UNCHANGED <<certStatus, clientfd, sent>>
    BY <1>12 DEF RespondError
  <2>2. PICK err \in WriteResponse(body) \ {"0"} :
          /\ ocspStatus' = OcspStatusOf(err)
          /\ \/ respBuffer' = Bare(OcspStatusOf(err)) /\ pc' = "send"
             \/ pc' = "continue"
    BY <1>12 DEF RespondError
  <2>3. CASE pc' = "continue"
    BY <2>1, <2>3
  <2>4. CASE respBuffer' = Bare(OcspStatusOf(err)) /\ pc' = "send"
    <3>1. respBuffer' \in OcspAnswers
      BY <2>4, ErrorFacts, AnswerFacts
    <3>2. respBuffer'.status = ocspStatus'
      BY <2>2, <2>4 DEF Bare, Response
    <3>3. RightOcspAnswer(body, respBuffer')
      <4>1. respBuffer'.status = OcspStatusOf(err)
        BY <2>4 DEF Bare, Response
      <4>2. CASE body.kind = "malformed"
        BY <2>1, <2>2, <4>1, <4>2 DEF RightOcspAnswer, WriteResponse, OcspStatusOf
      <4>3. CASE body.kind = "foreign"
        BY <2>1, <2>2, <4>1, <4>3 DEF RightOcspAnswer, WriteResponse, OcspStatusOf
      <4>4. CASE body.kind = "status"
        BY <2>1, <2>2, <4>1, <4>4 DEF RightOcspAnswer, WriteResponse, OcspStatusOf
      <4> QED
        BY <2>1, <4>2, <4>3, <4>4 DEF WellFormed
    <3>4. RightOcspAnswer(sent[clientfd], respBuffer)'
      BY <2>1, <3>3 DEF RightOcspAnswer
    <3> QED
      BY <2>1, <2>4, <3>1, <3>2, <3>4
  <2> QED
    BY <2>2, <2>3, <2>4
<1>13. CASE SendResponse
  BY <1>13 DEF SendResponse
<1>14. CASE SendFails
  BY <1>14 DEF SendFails
<1>15. CASE ContinueLoop
  BY <1>15 DEF ContinueLoop
<1>16. CASE Cleanup
  BY <1>16 DEF Cleanup
<1>17. CASE Signal
  BY <1>17 DEF Signal, RightOcspAnswer
<1>18. ASSUME NEW c \in Conns, Connect(c) PROVE BufferInv'
  BY <1>18 DEF Connect, RightOcspAnswer
<1>19. ASSUME NEW c \in Conns, ClientSends(c) PROVE BufferInv'
  BY <1>19 DEF ClientSends, RightOcspAnswer
<1>20. ASSUME NEW c \in Conns, Hangup(c) PROVE BufferInv'
  BY <1>20 DEF Hangup, RightOcspAnswer
<1>21. CASE UNCHANGED vars
  BY <1>21 DEF vars, RightOcspAnswer
<1> QED
  BY <1>1, <1>2, <1>3, <1>4, <1>5, <1>6, <1>7, <1>8, <1>9, <1>10, <1>11, <1>12, <1>13,
     <1>14, <1>15, <1>16, <1>17, <1>18, <1>19, <1>20, <1>21
     DEF Next, Responder, Environment

\* The answers of the transport are not OCSP responses.
LEMMA TransportFacts ==
  /\ \A a \in TransportErrors \cup {Cut} : a \notin OcspAnswers /\ a.status # "successful"
  /\ Cut \notin {Bare("400"), Bare("405"), Bare("500")}
  /\ Bare("500") \notin {Bare("400"), Bare("405")}
  /\ \A a \in OcspAnswers : a \notin {Bare("400"), Bare("405"), Bare("500")}
BY DEF TransportErrors, Cut, OcspAnswers, Bare, Response, ErrorStatuses

\* A refusal is right for a request that is not well formed, 500 for one that
\* is, and an answer cut short for any.
LEMMA RightTransportAnswer ==
  /\ \A s : RightAnswer(s, Cut)
  /\ \A s \in WellFormed : RightAnswer(s, Bare("500"))
  /\ \A s : (s \notin WellFormed /\ Refusal(s) # NoResponse) => RightAnswer(s, Refusal(s))
<1>1. \A s : Refusal(s) \in {NoResponse, Bare("400"), Bare("405")}
  BY DEF Refusal
<1> QED
  BY <1>1, TransportFacts DEF RightAnswer, TransportErrors

\* Replacing the empty sequence of answers of the connection being handled by
\* at most one right answer keeps all answers right.
LEMMA RightWrite ==
  ASSUME TypeOK, AnswersAreRight, clientfd \in Conns,
         UNCHANGED <<sent, certStatus>>,
         NEW w, replies' = [replies EXCEPT ![clientfd] = w],
         \/ w = << >>
         \/ \E a : w = <<a>> /\ RightAnswer(sent[clientfd], a)
  PROVE  AnswersAreRight'
<1> SUFFICES ASSUME NEW c \in Conns, NEW i \in DOMAIN replies'[c]
             PROVE  RightAnswer(sent[c], replies'[c][i])
  BY DEF AnswersAreRight, RightAnswer, RightOcspAnswer
<1>1. CASE c # clientfd
  BY <1>1 DEF AnswersAreRight, TypeOK
<1>2. CASE c = clientfd
  <2>1. replies'[c] = w
    BY <1>2 DEF TypeOK
  <2>2. w # << >>
    BY <2>1
  <2>3. PICK a : w = <<a>> /\ RightAnswer(sent[clientfd], a)
    BY <2>2
  <2>4. replies'[c][i] = a
    BY <2>1, <2>3, FirstAnswer
  <2> QED
    BY <1>2, <2>3, <2>4
<1> QED
  BY <1>1, <1>2

\* The actions that neither answer, nor ask, nor load the index.
Quiet ==
  \/ RejectOptions \/ StartupFails \/ SetupSignalHandlers \/ LoopTest \/ CallAccept
  \/ (\E c \in Conns : Accept(c) \/ Connect(c) \/ Hangup(c))
  \/ AcceptFails \/ ReadRequest \/ Respond \/ ContinueLoop \/ Cleanup \/ Signal
  \/ UNCHANGED vars

LEMMA QuietFacts == Quiet => UNCHANGED <<sent, certStatus, replies, requestsProcessed, nrequest>>
BY DEF Quiet, RejectOptions, StartupFails, SetupSignalHandlers, LoopTest, CallAccept, Accept,
       Connect, Hangup, AcceptFails, ReadRequest, Respond, ContinueLoop, Cleanup, Signal,
       configVars, netVars, boundVars, procVars, vars

LEMMA RightStep == IInv /\ [Next]_vars => AnswersAreRight'
<1> SUFFICES ASSUME TypeOK, OpenInv, AnswerInv, BufferInv, AnswersAreRight, [Next]_vars
             PROVE  AnswersAreRight'
  BY DEF IInv
<1> USE DEF configVars, netVars, boundVars, procVars
<1>1. CASE Quiet
  <2>1. UNCHANGED <<sent, certStatus, replies>>
    BY <1>1, QuietFacts
  <2> QED
    BY <2>1 DEF AnswersAreRight, RightAnswer, RightOcspAnswer
<1>2. CASE Acquire
  <2>1. \A c \in Conns : replies[c] = << >>
    BY <1>2 DEF Acquire, OpenInv, AnswerInv
  <2>2. UNCHANGED replies
    BY <1>2 DEF Acquire
  <2>3. \A c \in Conns : DOMAIN replies'[c] = {}
    BY <2>1, <2>2
  <2> QED
    BY <2>3 DEF AnswersAreRight
<1>3. CASE RefuseRequest
  <2>1. /\ clientfd \in Conns /\ replies[clientfd] = << >>
        /\ sent[clientfd] \notin WellFormed
        /\ UNCHANGED <<sent, certStatus>>
    BY <1>3 DEF RefuseRequest, OpenInv, AnswerInv, Handling
  <2>2. CASE Refusal(sent[clientfd]) = NoResponse
    <3>1. UNCHANGED replies
      BY <1>3, <2>2 DEF RefuseRequest
    <3> QED
      BY <2>1, <3>1 DEF AnswersAreRight, RightAnswer, RightOcspAnswer
  <2>3. CASE Refusal(sent[clientfd]) # NoResponse
    <3>1. PICK w \in Written(clientfd, Refusal(sent[clientfd])) :
            replies' = [replies EXCEPT ![clientfd] = w]
      BY <1>3, <2>3 DEF RefuseRequest, SendError
    <3>2. w = << >> \/ w = <<Cut>> \/ w = <<Refusal(sent[clientfd])>>
      BY <2>1, <3>1, WriteOnce
    <3> QED
      BY <2>1, <2>3, <3>1, <3>2, RightTransportAnswer, RightWrite
  <2> QED
    BY <2>2, <2>3
<1>4. CASE RespondError
  <2>1. /\ clientfd \in Conns /\ replies[clientfd] = << >>
        /\ sent[clientfd] \in WellFormed
        /\ UNCHANGED <<sent, certStatus>>
    BY <1>4 DEF RespondError, OpenInv, AnswerInv, BufferInv, Handling
  <2>2. CASE UNCHANGED replies
    BY <2>1, <2>2 DEF AnswersAreRight, RightAnswer, RightOcspAnswer
  <2>3. CASE SendError(Bare("500"))
    <3>1. PICK w \in Written(clientfd, Bare("500")) :
            replies' = [replies EXCEPT ![clientfd] = w]
      BY <2>3 DEF SendError
    <3>2. w = << >> \/ w = <<Cut>> \/ w = <<Bare("500")>>
      BY <2>1, <3>1, WriteOnce
    <3> QED
      BY <2>1, <3>1, <3>2, RightTransportAnswer, RightWrite
  <2> QED
    BY <1>4, <2>2, <2>3 DEF RespondError
<1>5. CASE SendResponse
  <2>1. /\ clientfd \in Conns /\ replies[clientfd] = << >>
        /\ respBuffer \in OcspAnswers
        /\ RightOcspAnswer(sent[clientfd], respBuffer)
        /\ UNCHANGED <<sent, certStatus>>
    BY <1>5 DEF SendResponse, OpenInv, AnswerInv, BufferInv, Handling
  <2>2. replies' = [replies EXCEPT ![clientfd] = <<respBuffer>>]
    BY <1>5, <2>1, FirstAnswer DEF SendResponse
  <2>3. RightAnswer(sent[clientfd], respBuffer)
    BY <2>1, TransportFacts DEF RightAnswer
  <2> QED
    BY <2>1, <2>2, <2>3, RightWrite
<1>6. CASE SendFails
  <2>1. /\ clientfd \in Conns /\ replies[clientfd] = << >>
        /\ UNCHANGED <<sent, certStatus>>
    BY <1>6 DEF SendFails, OpenInv, AnswerInv, Handling
  <2>2. PICK w \in {replies[clientfd], Append(replies[clientfd], Cut)} :
          replies' = [replies EXCEPT ![clientfd] = w]
    BY <1>6 DEF SendFails
  <2>3. w = << >> \/ w = <<Cut>>
    BY <2>1, <2>2, CutOnce
  <2> QED
    BY <2>1, <2>2, <2>3, RightTransportAnswer, RightWrite
<1>7. ASSUME NEW c \in Conns, ClientSends(c) PROVE AnswersAreRight'
  <2>1. replies[c] = << >>
    BY <1>7, RequestFacts DEF ClientSends, Connected, OpenInv, AnswerInv, Handling, TypeOK
  <2>2. /\ UNCHANGED <<certStatus, replies>>
        /\ \A d \in Conns : d # c => sent'[d] = sent[d]
    BY <1>7 DEF ClientSends, TypeOK
  <2>3. DOMAIN replies'[c] = {}
    BY <2>1, <2>2
  <2> QED
    BY <2>2, <2>3 DEF AnswersAreRight, RightAnswer, RightOcspAnswer
<1> QED
  BY <1>1, <1>2, <1>3, <1>4, <1>5, <1>6, <1>7 DEF Quiet, Next, Responder, Environment

-----------------------------------------------------------------------------
(***************************************************************************)
(* The theorems.                                                           *)
(***************************************************************************)
LEMMA InitIInv == Init => IInv
<1> SUFFICES ASSUME Init PROVE IInv
  OBVIOUS
<1>1. TypeOK
  BY TypeInit
<1>2. OpenInv
  BY InvalidAssumption DEF Init, OpenInv, Handling
<1>3. AnswerInv
  <2>1. \A c \in Conns : replies[c] = << >> /\ Len(replies[c]) <= 1
    BY FirstAnswer DEF Init
  <2> QED
    BY <2>1, InvalidAssumption DEF Init, AnswerInv, Handling
<1>4. BufferInv
  BY DEF Init, BufferInv
<1>5. AnswersAreRight
  <2>1. \A c \in Conns : DOMAIN replies[c] = {}
    BY DEF Init
  <2> QED
    BY <2>1 DEF AnswersAreRight
<1>6. BudgetInv /\ LateInv
  BY LimitsAssumption DEF Init, BudgetInv, LateInv, Handling
<1> QED
  BY <1>1, <1>2, <1>3, <1>4, <1>5, <1>6 DEF IInv

\* The inductive invariant.
THEOREM Invariance == Spec => []IInv
<1>1. IInv /\ [Next]_vars => IInv'
  BY TypeStep, OpenStep, AnswerStep, BufferStep, RightStep, BudgetStep DEF IInv
<1> QED
  BY InitIInv, <1>1, PTL DEF Spec

\* Every variable stays in its type, for any set of connections and serials.
THEOREM TypeCorrect == Spec => []TypeOK
<1>1. IInv => TypeOK
  BY DEF IInv
<1> QED
  BY <1>1, Invariance, PTL

\* No client is ever sent another client's answer, a stale one or a wrong one.
THEOREM RightAnswers == Spec => []AnswersAreRight
<1>1. IInv => AnswersAreRight
  BY DEF IInv
<1> QED
  BY <1>1, Invariance, PTL

\* No connection is answered twice, and none with a well-formed request whose
\* client stayed is closed unanswered.
THEOREM AnsweredOnce == Spec => []OneAnswer
<1>1. IInv => OneAnswer
  <2> SUFFICES ASSUME TypeOK, AnswerInv, NEW c \in Conns
               PROVE  /\ Len(replies[c]) <= 1
                      /\ (conn[c] = "closed" /\ sent[c] \in WellFormed /\ ~hung[c])
                           => Len(replies[c]) = 1
    BY DEF IInv, OneAnswer
  <2>1. Len(replies[c]) <= 1
    BY DEF AnswerInv
  <2>2. replies[c] \in Seq(Answers)
    BY DEF TypeOK
  <2>3. ASSUME conn[c] = "closed", sent[c] \in WellFormed, ~hung[c]
        PROVE  Len(replies[c]) = 1
    <3>1. replies[c] # << >>
      BY <2>3 DEF AnswerInv
    <3>2. Len(replies[c]) # 0
      BY <2>2, <3>1, NoAnswer
    <3>3. Len(replies[c]) \in Nat
      BY <2>2
    <3> DEFINE n == Len(replies[c])
    <3>4. n \in Nat /\ n <= 1 /\ n # 0
      BY <2>1, <3>2, <3>3
    <3> HIDE DEF n
    <3>5. n = 1
      BY <3>4
    <3> QED
      BY <3>5 DEF n
  <2> QED
    BY <2>1, <2>3
<1> QED
  BY <1>1, Invariance, PTL

\* Descriptors are opened and closed in pairs, on every path out.
THEOREM Descriptors == Spec => []DescriptorDiscipline
<1>1. IInv => DescriptorDiscipline
  BY InvalidAssumption DEF IInv, OpenInv, DescriptorDiscipline, TypeOK
<1> QED
  BY <1>1, Invariance, PTL

\* One connection at most is accepted after a signal.
THEOREM LateAccept == Spec => []AtMostOneLateAccept
<1>1. IInv => AtMostOneLateAccept
  BY DEF IInv, LateInv, AtMostOneLateAccept
<1> QED
  BY <1>1, Invariance, PTL

-----------------------------------------------------------------------------
(***************************************************************************)
(* The budget counts exactly the successful answers.                       *)
(***************************************************************************)
CountInv == IsFiniteSet(Served) /\ requestsProcessed = Cardinality(Served)

\* Writing an answer that is not a successful response serves nobody.
LEMMA UnservedWrite ==
  ASSUME TypeOK, clientfd \in Conns, replies[clientfd] = << >>,
         NEW w, replies' = [replies EXCEPT ![clientfd] = w],
         \/ w = << >>
         \/ \E a : w = <<a>> /\ a.status # "successful"
  PROVE  Served' = Served
<1>1. ASSUME NEW c \in Conns, c # clientfd PROVE replies'[c] = replies[c]
  BY <1>1 DEF TypeOK
<1>2. ~(\E i \in DOMAIN replies[clientfd] : replies[clientfd][i].status = "successful")
  BY FirstAnswer
<1>3. ~(\E i \in DOMAIN replies'[clientfd] : replies'[clientfd][i].status = "successful")
  <2>1. replies'[clientfd] = w
    BY DEF TypeOK
  <2>2. CASE w = << >>
    BY <2>1, <2>2
  <2>3. CASE \E a : w = <<a>> /\ a.status # "successful"
    BY <2>1, <2>3, FirstAnswer
  <2> QED
    BY <2>2, <2>3
<1> QED
  BY <1>1, <1>2, <1>3 DEF Served

\* Writing a successful response serves the connection being handled.
LEMMA ServedWrite ==
  ASSUME TypeOK, clientfd \in Conns, replies[clientfd] = << >>,
         NEW a, a.status = "successful", replies' = [replies EXCEPT ![clientfd] = <<a>>]
  PROVE  Served' = Served \cup {clientfd} /\ clientfd \notin Served
<1>1. ASSUME NEW c \in Conns, c # clientfd PROVE replies'[c] = replies[c]
  BY <1>1 DEF TypeOK
<1>2. replies'[clientfd] = <<a>>
  BY DEF TypeOK
<1>3. \E i \in DOMAIN replies'[clientfd] : replies'[clientfd][i].status = "successful"
  BY <1>2, FirstAnswer
<1>4. DOMAIN replies[clientfd] = {}
  OBVIOUS
<1> QED
  BY <1>1, <1>3, <1>4 DEF Served

LEMMA CountStep == IInv /\ CountInv /\ [Next]_vars => CountInv'
<1> SUFFICES ASSUME TypeOK, OpenInv, AnswerInv, BufferInv, CountInv, [Next]_vars
             PROVE  CountInv'
  BY DEF IInv
<1> USE DEF configVars, netVars, boundVars, procVars
<1>0. ASSUME Served' = Served, UNCHANGED requestsProcessed PROVE CountInv'
  BY <1>0 DEF CountInv
<1>1. CASE Quiet
  BY <1>0, <1>1, QuietFacts DEF Served
<1>2. CASE Acquire
  BY <1>0, <1>2 DEF Acquire, Served
<1>3. CASE RefuseRequest
  <2>1. /\ clientfd \in Conns /\ replies[clientfd] = << >>
        /\ UNCHANGED requestsProcessed
    BY <1>3 DEF RefuseRequest, OpenInv, AnswerInv, Handling
  <2>2. CASE Refusal(sent[clientfd]) = NoResponse
    BY <1>0, <1>3, <2>2 DEF RefuseRequest, Served
  <2>3. CASE Refusal(sent[clientfd]) # NoResponse
    <3>1. PICK w \in Written(clientfd, Refusal(sent[clientfd])) :
            replies' = [replies EXCEPT ![clientfd] = w]
      BY <1>3, <2>3 DEF RefuseRequest, SendError
    <3>2. w = << >> \/ w = <<Cut>> \/ w = <<Refusal(sent[clientfd])>>
      BY <2>1, <3>1, WriteOnce
    <3>3. Refusal(sent[clientfd]).status # "successful" /\ Cut.status # "successful"
      BY <2>3, RefusalFacts, TransportFacts
    <3>4. Served' = Served
      BY <2>1, <3>1, <3>2, <3>3, UnservedWrite
    <3> QED
      BY <1>0, <2>1, <3>4
  <2> QED
    BY <2>2, <2>3
<1>4. CASE RespondError
  <2>1. /\ clientfd \in Conns /\ replies[clientfd] = << >>
        /\ UNCHANGED requestsProcessed
    BY <1>4 DEF RespondError, OpenInv, AnswerInv, Handling
  <2>2. CASE UNCHANGED replies
    BY <1>0, <2>1, <2>2 DEF Served
  <2>3. CASE SendError(Bare("500"))
    <3>1. PICK w \in Written(clientfd, Bare("500")) :
            replies' = [replies EXCEPT ![clientfd] = w]
      BY <2>3 DEF SendError
    <3>2. w = << >> \/ w = <<Cut>> \/ w = <<Bare("500")>>
      BY <2>1, <3>1, WriteOnce
    <3>3. Bare("500").status # "successful" /\ Cut.status # "successful"
      BY TransportFacts DEF TransportErrors
    <3>4. Served' = Served
      BY <2>1, <3>1, <3>2, <3>3, UnservedWrite
    <3> QED
      BY <1>0, <2>1, <3>4
  <2> QED
    BY <1>4, <2>2, <2>3 DEF RespondError
<1>5. CASE SendResponse
  <2>1. /\ clientfd \in Conns /\ replies[clientfd] = << >>
        /\ respBuffer.status = ocspStatus
    BY <1>5 DEF SendResponse, OpenInv, AnswerInv, BufferInv, Handling
  <2>2. /\ replies' = [replies EXCEPT ![clientfd] = <<respBuffer>>]
        /\ requestsProcessed' =
             requestsProcessed + (IF ocspStatus = "successful" THEN 1 ELSE 0)
    BY <1>5, <2>1, FirstAnswer DEF SendResponse
  <2>3. CASE ocspStatus = "successful"
    <3>1. Served' = Served \cup {clientfd} /\ clientfd \notin Served
      BY <2>1, <2>2, <2>3, ServedWrite
    <3>2. /\ IsFiniteSet(Served')
          /\ Cardinality(Served') = Cardinality(Served) + 1
      BY <3>1, FS_AddElement DEF CountInv
    <3> QED
      BY <2>2, <2>3, <3>2 DEF CountInv
  <2>4. CASE ocspStatus # "successful"
    <3>1. Served' = Served
      BY <2>1, <2>2, <2>4, UnservedWrite
    <3>2. requestsProcessed' = requestsProcessed
      BY <2>2, <2>4 DEF TypeOK
    <3> QED
      BY <1>0, <3>1, <3>2
  <2> QED
    BY <2>3, <2>4
<1>6. CASE SendFails
  <2>1. /\ clientfd \in Conns /\ replies[clientfd] = << >>
        /\ UNCHANGED requestsProcessed
    BY <1>6 DEF SendFails, OpenInv, AnswerInv, Handling
  <2>2. PICK w \in {replies[clientfd], Append(replies[clientfd], Cut)} :
          replies' = [replies EXCEPT ![clientfd] = w]
    BY <1>6 DEF SendFails
  <2>3. (w = << >> \/ w = <<Cut>>) /\ Cut.status # "successful"
    BY <2>1, <2>2, CutOnce, TransportFacts
  <2>4. Served' = Served
    BY <2>1, <2>2, <2>3, UnservedWrite
  <2> QED
    BY <1>0, <2>1, <2>4
<1>7. ASSUME NEW c \in Conns, ClientSends(c) PROVE CountInv'
  BY <1>0, <1>7 DEF ClientSends, Served
<1> QED
  BY <1>1, <1>2, <1>3, <1>4, <1>5, <1>6, <1>7 DEF Quiet, Next, Responder, Environment

\* Exactly the successful answers count toward the limit, which is never passed.
THEOREM ExactBudget == Spec => []BudgetIsExact
<1>1. Init => CountInv
  <2> SUFFICES ASSUME Init PROVE CountInv
    OBVIOUS
  <2>1. \A c \in Conns : DOMAIN replies[c] = {}
    BY DEF Init
  <2>2. Served = {}
    BY <2>1 DEF Served
  <2> QED
    BY <2>2, FS_EmptySet DEF CountInv, Init
<1>2. IInv /\ CountInv => BudgetIsExact
  BY DEF IInv, BudgetInv, CountInv, BudgetIsExact
<1> QED
  BY <1>1, <1>2, CountStep, Invariance, PTL DEF Spec

-----------------------------------------------------------------------------
(***************************************************************************)
(* Refinement of OcspService.                                              *)
(***************************************************************************)
LEMMA ServiceInit == Init => Service!Init
<1> SUFFICES ASSUME Init PROVE Service!Init
  OBVIOUS
<1>1. Asked = [c \in Conns |-> Nothing]
  BY RequestFacts DEF Init, Asked
<1> QED
  BY <1>1 DEF Init, Service!Init, Phase

\* A write of the transport, or one cut short, is a refusal of the service.
LEMMA ServiceRefuses ==
  ASSUME TypeOK, clientfd \in Conns, replies[clientfd] = << >>,
         pc \in Handling, pc' = "continue",
         UNCHANGED <<certStatus, nrequest, sent, requestsProcessed>>,
         NEW w, replies' = [replies EXCEPT ![clientfd] = w],
         \/ w = << >>
         \/ \E a \in TransportErrors \cup {Cut} : w = <<a>>
  PROVE  [Service!Next]_Service!vars
<1>1. Phase = "serving" /\ Phase' = "serving" /\ UNCHANGED Asked
  BY DEF Phase, Handling, Asked
<1>2. CASE w = << >>
  BY <1>1, <1>2 DEF TypeOK, Service!vars
<1>3. CASE \E a \in TransportErrors \cup {Cut} : w = <<a>>
  <2>1. Service!Refuse(clientfd)
    BY <1>1, <1>3 DEF Service!Refuse, Service!Answer
  <2> QED
    BY <2>1 DEF Service!Next
<1> QED
  BY <1>2, <1>3

\* The actions that only move the responder, or stop it, answer nobody.
LEMMA ServiceQuiet ==
  ASSUME TypeOK, OpenInv, Quiet
  PROVE  [Service!Next]_Service!vars
<1> USE DEF configVars, netVars, boundVars, procVars
<1>1. UNCHANGED <<certStatus, nrequest, Asked, replies, requestsProcessed>>
  BY QuietFacts DEF Asked
<1>2. \/ UNCHANGED Phase
      \/ Phase = "starting" /\ Phase' = "serving"
      \/ Phase' = "stopped"
  BY DEF Quiet, RejectOptions, StartupFails, SetupSignalHandlers, LoopTest, CallAccept, Accept,
         Connect, Hangup, AcceptFails, ReadRequest, Respond, ContinueLoop, Cleanup, Signal,
         vars, Phase
<1> QED
  BY <1>1, <1>2 DEF Service!Next, Service!Begin, Service!Stop, Service!vars

LEMMA ServiceStep == IInv /\ [Next]_vars => [Service!Next]_Service!vars
<1> SUFFICES ASSUME TypeOK, OpenInv, AnswerInv, BufferInv, BudgetInv, [Next]_vars
             PROVE  [Service!Next]_Service!vars
  BY DEF IInv
<1> USE DEF configVars, netVars, boundVars, procVars
<1>1. CASE Quiet
  BY <1>1, ServiceQuiet
<1>2. CASE Acquire
  <2>1. /\ Phase = "starting" /\ UNCHANGED Phase
        /\ UNCHANGED <<nrequest, Asked, replies, requestsProcessed>>
    BY <1>2 DEF Acquire, Phase, Asked
  <2>2. certStatus' \in [Serials -> CertStatuses]
    BY <1>2 DEF Acquire, TypeOK
  <2> QED
    BY <2>1, <2>2 DEF Service!Next, Service!LoadTable
<1>3. CASE RefuseRequest
  <2>1. /\ clientfd \in Conns /\ replies[clientfd] = << >>
        /\ pc \in Handling /\ pc' = "continue"
        /\ UNCHANGED <<certStatus, nrequest, sent, requestsProcessed>>
    BY <1>3 DEF RefuseRequest, OpenInv, AnswerInv, Handling
  <2>2. CASE Refusal(sent[clientfd]) = NoResponse
    <3>1. replies' = [replies EXCEPT ![clientfd] = << >>]
      BY <1>3, <2>1, <2>2 DEF RefuseRequest, TypeOK
    <3> QED
      BY <2>1, <3>1, ServiceRefuses
  <2>3. CASE Refusal(sent[clientfd]) # NoResponse
    <3>1. PICK w \in Written(clientfd, Refusal(sent[clientfd])) :
            replies' = [replies EXCEPT ![clientfd] = w]
      BY <1>3, <2>3 DEF RefuseRequest, SendError
    <3>2. w = << >> \/ w = <<Cut>> \/ w = <<Refusal(sent[clientfd])>>
      BY <2>1, <3>1, WriteOnce
    <3> QED
      BY <2>1, <2>3, <3>1, <3>2, RefusalFacts, ServiceRefuses
  <2> QED
    BY <2>2, <2>3
<1>4. CASE RespondError
  <2>1. /\ clientfd \in Conns /\ replies[clientfd] = << >> /\ pc \in Handling
        /\ UNCHANGED <<certStatus, nrequest, sent, requestsProcessed>>
    BY <1>4 DEF RespondError, OpenInv, AnswerInv, Handling
  <2>2. CASE pc' = "send" /\ UNCHANGED replies
    BY <2>1, <2>2 DEF Service!vars, Phase, Asked, Handling
  <2>3. CASE SendError(Bare("500")) /\ pc' = "continue"
    <3>1. PICK w \in Written(clientfd, Bare("500")) :
            replies' = [replies EXCEPT ![clientfd] = w]
      BY <2>3 DEF SendError
    <3>2. w = << >> \/ w = <<Cut>> \/ w = <<Bare("500")>>
      BY <2>1, <3>1, WriteOnce
    <3> QED
      BY <2>1, <2>3, <3>1, <3>2, ServiceRefuses DEF TransportErrors
  <2> QED
    BY <1>4, <2>2, <2>3 DEF RespondError
<1>5. CASE SendResponse
  <2>1. /\ clientfd \in Conns /\ replies[clientfd] = << >>
        /\ sent[clientfd] \in WellFormed
        /\ respBuffer \in OcspAnswers /\ respBuffer.status = ocspStatus
        /\ RightOcspAnswer(sent[clientfd], respBuffer)
        /\ ~LimitReached(requestsProcessed)
        /\ Phase = "serving"
    BY <1>5 DEF SendResponse, OpenInv, AnswerInv, BufferInv, BudgetInv, Handling, Phase
  <2>2. /\ replies' = [replies EXCEPT ![clientfd] = <<respBuffer>>]
        /\ requestsProcessed' =
             requestsProcessed + (IF ocspStatus = "successful" THEN 1 ELSE 0)
        /\ pc' = IF LimitReached(requestsProcessed') THEN "cleanup" ELSE "continue"
        /\ UNCHANGED <<certStatus, nrequest, sent>>
    BY <1>5, <2>1, FirstAnswer DEF SendResponse
  <2>3. /\ Phase' = IF LimitReached(requestsProcessed') THEN "stopped" ELSE "serving"
        /\ UNCHANGED Asked
        /\ Asked[clientfd] = sent[clientfd] /\ sent[clientfd] # Nothing
    BY <2>1, <2>2, RequestFacts DEF Phase, Asked
  <2>4. CASE ocspStatus = "successful"
    <3>1. /\ sent[clientfd].kind = "status"
          /\ certStatus[sent[clientfd].serial] # "absent"
          /\ respBuffer = Response("successful", sent[clientfd].serial,
                                   certStatus[sent[clientfd].serial])
      BY <2>1, <2>4 DEF RightOcspAnswer, WellFormed
    <3>2. Service!Answer(clientfd, [status |-> "successful", serial |-> Asked[clientfd].serial,
                                    cert |-> certStatus[Asked[clientfd].serial]])
      BY <2>1, <2>2, <2>3, <3>1 DEF Service!Answer, Response
    <3>3. requestsProcessed' = requestsProcessed + 1
      BY <2>2, <2>4
    <3>4. nrequest = 0 \/ requestsProcessed < nrequest
      BY <2>1, LimitsAssumption DEF LimitReached, TypeOK
    <3>5. Phase' = IF nrequest > 0 /\ requestsProcessed' >= nrequest THEN "stopped" ELSE "serving"
      BY <2>2, <2>3 DEF LimitReached
    <3>6. Service!Succeed(clientfd)
      BY <2>3, <3>1, <3>2, <3>3, <3>4, <3>5 DEF Service!Succeed
    <3> QED
      BY <2>1, <3>6 DEF Service!Next
  <2>5. CASE ocspStatus # "successful"
    <3>1. requestsProcessed' = requestsProcessed /\ Phase' = "serving"
      BY <2>1, <2>2, <2>3, <2>5 DEF LimitReached, TypeOK
    <3>2. Service!Answer(clientfd, respBuffer)
      BY <2>1, <2>2, <2>3 DEF Service!Answer
    <3>3. Service!Err(clientfd)
      BY <2>1, <2>3, <2>5, <3>1, <3>2 DEF Service!Err
    <3> QED
      BY <2>1, <3>3 DEF Service!Next
  <2> QED
    BY <2>4, <2>5
<1>6. CASE SendFails
  <2>1. /\ clientfd \in Conns /\ replies[clientfd] = << >>
        /\ pc \in Handling /\ pc' = "continue"
        /\ UNCHANGED <<certStatus, nrequest, sent, requestsProcessed>>
    BY <1>6 DEF SendFails, OpenInv, AnswerInv, Handling
  <2>2. PICK w \in {replies[clientfd], Append(replies[clientfd], Cut)} :
          replies' = [replies EXCEPT ![clientfd] = w]
    BY <1>6 DEF SendFails
  <2>3. w = << >> \/ w = <<Cut>>
    BY <2>1, <2>2, CutOnce
  <2> QED
    BY <2>1, <2>2, <2>3, ServiceRefuses
<1>7. ASSUME NEW c \in Conns, ClientSends(c) PROVE [Service!Next]_Service!vars
  <2>1. UNCHANGED <<Phase, certStatus, nrequest, replies, requestsProcessed>>
    BY <1>7 DEF ClientSends, Phase
  <2>2. Asked[c] = Nothing
    BY <1>7, RequestFacts DEF ClientSends, Asked
  <2>3. CASE sent' = [sent EXCEPT ![c] = Part]
    <3>1. Asked' = Asked
      BY <2>2, <2>3, RequestFacts DEF Asked, TypeOK
    <3> QED
      BY <2>1, <3>1 DEF Service!vars
  <2>4. CASE \E r \in Requests : sent' = [sent EXCEPT ![c] = r]
    <3>1. PICK r \in Requests : sent' = [sent EXCEPT ![c] = r]
      BY <2>4
    <3>2. Asked' = [Asked EXCEPT ![c] = r]
      BY <3>1 DEF Asked, TypeOK
    <3>3. Service!Ask(c)
      BY <2>1, <2>2, <3>2 DEF Service!Ask
    <3> QED
      BY <3>3 DEF Service!Next
  <2> QED
    BY <1>7, <2>3, <2>4 DEF ClientSends
<1> QED
  BY <1>1, <1>2, <1>3, <1>4, <1>5, <1>6, <1>7 DEF Quiet, Next, Responder, Environment

\* The responder does nothing the service does not allow.
THEOREM Implementation == Spec => ServiceSpec
<1> QED
  BY ServiceInit, ServiceStep, Invariance, PTL DEF Spec, ServiceSpec, Service!Spec

=============================================================================

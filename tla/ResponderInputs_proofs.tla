------------------------ MODULE ResponderInputs_proofs ------------------------
(***************************************************************************)
(* That the HTTP reader implements RequestReader, for every buffer, every  *)
(* request and every way TCP may cut it up; and that all three readings of *)
(* the responder keep their promises together.                             *)
(***************************************************************************)
EXTENDS ResponderInputs, TLAPS

\* What the loop of wolfCLU_HttpServerRecv knows of the headers.
InHead ==
  /\ headerSz = 0 => totalLen < request.head /\ contentLen = 0
  /\ headerSz # 0 => /\ headerSz = request.head /\ headerSz <= totalLen
                     /\ contentLen = Clamped(request.length, request.head)

\* It goes on only for bytes it needs and has room for, ...
Receiving ==
  pc = "recv" => ~Enough(totalLen, headerSz, contentLen) /\ totalLen < bufferSz - 1

\* ... and stops when it has them, has no room, or will get no more.
Parsing ==
  pc = "parse" =>
    \/ Enough(totalLen, headerSz, contentLen)
    \/ totalLen >= bufferSz - 1
    \/ gone = "reset"
    \/ gone = "closed" /\ totalLen = arrived

\* The verdict comes with the parsing.
Judged == (verdict = "reading" <=> pc # "done") /\ (verdict = "reading" => body = NoBody)

IInv == TypeOK /\ InBuffer /\ InHead /\ Receiving /\ Parsing /\ Judged /\ BodyIsWhole

-----------------------------------------------------------------------------
USE BufferAssumption, IntAssumption, HeadsAssumption, LengthsAssumption, SizesAssumption

\* atoi() returns an integer, and what is waited for fits the buffer.
LEMMA AtoiInt == ASSUME NEW n \in Int PROVE Atoi(n) \in Int
<1>1. Half \in Int
  BY DEF Half
<1>2. (n + Half) % IntMod \in Int
  BY <1>1
<1> QED BY <1>1, <1>2 DEF Atoi

LEMMA ClampedFits ==
  ASSUME NEW n \in Lengths \cup {Absent}, NEW h \in Nat, h <= bufferSz - 1
  PROVE  /\ Clamped(n, h) \in Nat
         /\ n # Absent /\ Atoi(n) >= 0 /\ h + Atoi(n) <= bufferSz - 1 => Clamped(n, h) = Atoi(n)
<1>1. CASE n = Absent
  BY <1>1 DEF Clamped
<1>2. CASE n # Absent
  <2>1. Atoi(n) \in Int
    BY <1>2, AtoiInt
  <2> QED BY <1>2, <2>1 DEF Clamped, Lesser, Greater
<1> QED BY <1>1, <1>2

LEMMA RequestParts ==
  ASSUME TypeOK
  PROVE  /\ request.head \in Nat /\ request.head >= 5
         /\ request.size \in Nat
         /\ request.length \in Lengths \cup {Absent}
         /\ request.post \in BOOLEAN
         /\ request.length # Absent => request.length \in Int /\ Atoi(request.length) \in Int
BY AtoiInt DEF TypeOK, Requests

-----------------------------------------------------------------------------
\* A turn of the loop.
LEMMA RecvStep == ASSUME IInv, Recv PROVE IInv'
<1> USE RequestParts DEF IInv, Recv, netVars
<1>1. totalLen' \in Nat /\ totalLen' <= bufferSz - 1 /\ totalLen' <= arrived /\ totalLen' > totalLen
  BY DEF TypeOK, InBuffer, Lesser
<1>2. InHead' /\ headerSz' \in Nat /\ contentLen' \in Nat
  <2>1. CASE headerSz = 0 /\ totalLen' >= request.head
    <3>1. Clamped(request.length, request.head) \in Nat
      <4>1. /\ request.head \in Nat /\ request.head <= bufferSz - 1
            /\ request.length \in Lengths \cup {Absent}
        BY <1>1, <2>1
      <4> QED BY <4>1, ClampedFits
    <3> QED BY <1>1, <2>1, <3>1 DEF InHead
  <2>2. CASE ~(headerSz = 0 /\ totalLen' >= request.head)
    BY <1>1, <2>2 DEF InHead, TypeOK
  <2> QED BY <2>1, <2>2
<1>3. TypeOK'
  BY <1>1, <1>2 DEF TypeOK
<1>4. InBuffer'
  BY <1>1 DEF InBuffer
<1>5. Receiving'
  BY <1>1 DEF Receiving
<1>6. Parsing'
  BY <1>1 DEF Parsing
<1>7. Judged' /\ BodyIsWhole'
  BY DEF Judged, BodyIsWhole
<1> QED BY <1>2, <1>3, <1>4, <1>5, <1>6, <1>7

\* Parsing hands on a body only if all of it was received.
LEMMA ParseStep == ASSUME IInv, Parse PROVE IInv'
<1> USE RequestParts DEF IInv, Parse, netVars, recvVars
<1>1. CASE Parses
  <2>1. /\ Announced \in Nat /\ Announced >= 1
        /\ request.head + Announced <= totalLen
        /\ request.length # Absent => Announced = Atoi(request.length)
    BY <1>1 DEF Parses, bodyAvail, Announced, TypeOK
  <2>2. body' = [at |-> request.head, sz |-> Announced] /\ verdict' = "accepted"
    BY <1>1
  <2>3. TypeOK'
    BY <2>1, <2>2 DEF TypeOK
  <2>4. InHead' /\ Receiving' /\ Parsing' /\ Judged' /\ InBuffer'
    BY <2>2 DEF InHead, Receiving, Parsing, Judged, InBuffer
  <2>5. BodyIsWhole'
    BY <2>1, <2>2 DEF BodyIsWhole
  <2> QED BY <2>3, <2>4, <2>5
<1>2. CASE ~Parses
  <2>1. verdict' \in {"silent", "400"} /\ body' = body
    BY <1>2
  <2>2. TypeOK'
    BY <2>1 DEF TypeOK
  <2>3. InHead' /\ Receiving' /\ Parsing' /\ Judged' /\ InBuffer' /\ BodyIsWhole'
    BY <2>1 DEF InHead, Receiving, Parsing, Judged, InBuffer, BodyIsWhole
  <2> QED BY <2>2, <2>3
<1> QED BY <1>1, <1>2

\* The steps of the client and the end of the connection.
LEMMA OtherSteps ==
  ASSUME IInv, Arrive \/ Leave \/ RecvEnds \/ UNCHANGED vars
  PROVE  IInv'
<1> USE RequestParts DEF IInv, netVars, recvVars, vars
<1>1. CASE Arrive
  BY <1>1 DEF Arrive, TypeOK, InBuffer, InHead, Receiving, Parsing, Judged, BodyIsWhole
<1>2. CASE Leave
  BY <1>2 DEF Leave, TypeOK, InBuffer, InHead, Receiving, Parsing, Judged, BodyIsWhole
<1>3. CASE RecvEnds
  BY <1>3 DEF RecvEnds, TypeOK, InBuffer, InHead, Receiving, Parsing, Judged, BodyIsWhole
<1>4. CASE UNCHANGED vars
  BY <1>4 DEF TypeOK, InBuffer, InHead, Receiving, Parsing, Judged, BodyIsWhole
<1> QED BY <1>1, <1>2, <1>3, <1>4

\* Every reachable state satisfies the inductive invariant.
THEOREM Invariance == Spec => []IInv
<1>1. Init => IInv
  <2> SUFFICES ASSUME Init PROVE IInv
    OBVIOUS
  <2> USE DEF Init
  <2>1. TypeOK
    <3>1. request.size \in Nat
      BY DEF Requests
    <3> QED BY <3>1 DEF TypeOK, NoBody
  <2>2. InBuffer /\ InHead
    BY <2>1, RequestParts DEF InBuffer, InHead
  <2>3. Receiving /\ Parsing /\ Judged /\ BodyIsWhole
    BY DEF Receiving, Enough, Parsing, Judged, BodyIsWhole
  <2> QED BY <2>1, <2>2, <2>3 DEF IInv
<1>2. IInv /\ [Next]_vars => IInv'
  BY RecvStep, ParseStep, OtherSteps DEF Next, Server
<1> QED BY <1>1, <1>2, PTL DEF Spec

\* Every variable stays in its type.
THEOREM TypeCorrect == Spec => []TypeOK
<1>1. IInv => TypeOK
  BY DEF IInv
<1> QED BY <1>1, Invariance, PTL

\* wolfCLU_HttpServerRecv writes its terminator inside the buffer.
THEOREM Terminated == Spec => []InBuffer
<1>1. IInv => InBuffer
  BY DEF IInv
<1> QED BY <1>1, Invariance, PTL

\* wolfCLU_HttpServerParseRequest never hands on a truncated or clamped body.
THEOREM WholeBodies == Spec => []BodyIsWhole
<1>1. IInv => BodyIsWhole
  BY DEF IInv
<1> QED BY <1>1, Invariance, PTL

\* wolfCLU_HttpServerRecv never blocks for bytes a usable request does not have.
THEOREM NoNeedlessWait == Spec => []NeverWaitsForMore
<1>1. IInv => NeverWaitsForMore
  <2> SUFFICES ASSUME IInv, pc = "recv", Usable(request) PROVE totalLen < Whole(request)
    BY DEF NeverWaitsForMore
  <2>1. /\ Atoi(request.length) \in Int /\ Atoi(request.length) >= 1
        /\ request.head + Atoi(request.length) <= bufferSz - 1
        /\ request.length # Absent
    BY RequestParts DEF IInv, Usable, Lesser
  <2>2. Clamped(request.length, request.head) = Atoi(request.length)
    BY <2>1, RequestParts, ClampedFits DEF IInv
  <2>3. ~Enough(totalLen, headerSz, contentLen) /\ totalLen \in Nat /\ headerSz \in Nat
    BY DEF IInv, Receiving, TypeOK
  <2>4. CASE headerSz = 0
    BY <2>1, <2>3, <2>4, RequestParts DEF IInv, InHead, Whole
  <2>5. CASE headerSz # 0
    BY <2>1, <2>2, <2>3, <2>5, RequestParts DEF IInv, InHead, Enough, Whole
  <2> QED BY <2>4, <2>5
<1> QED BY <1>1, Invariance, PTL

-----------------------------------------------------------------------------
\* A usable request is refused only if its client left.
LEMMA RefusedForCause ==
  ASSUME IInv, pc = "parse", ~Parses, Usable(request)
  PROVE  gone = "reset" \/ (gone = "closed" /\ arrived < Whole(request))
<1>1. /\ Atoi(request.length) \in Int /\ Atoi(request.length) >= 1
      /\ request.head + Atoi(request.length) <= bufferSz - 1
      /\ request.length # Absent /\ request.post
      /\ request.head \in Nat /\ totalLen \in Nat /\ arrived \in Nat
  BY RequestParts DEF IInv, TypeOK, Usable, Lesser
<1>2. totalLen < Whole(request)
  BY <1>1 DEF Parses, bodyAvail, Announced, Whole
<1>3. ~Enough(totalLen, headerSz, contentLen)
  <2>1. Clamped(request.length, request.head) = Atoi(request.length)
    BY <1>1, RequestParts, ClampedFits DEF IInv
  <2> QED BY <1>1, <1>2, <2>1 DEF IInv, TypeOK, InHead, Enough, Whole
<1>4. totalLen < bufferSz - 1
  BY <1>1, <1>2 DEF Whole
<1> QED BY <1>1, <1>2, <1>3, <1>4 DEF IInv, Parsing

\* An accepted request is one the abstract reader may take.
LEMMA AcceptedIsTaken == ASSUME IInv, Parse, Parses PROVE Reader!Take
<1> USE RequestParts DEF IInv, Parse, netVars, recvVars
<1>1. /\ verdict = "reading" /\ verdict' = "accepted"
      /\ UNCHANGED <<request, arrived, gone>>
      /\ body' = [at |-> request.head, sz |-> Announced]
  BY DEF Judged
<1>2. /\ Announced \in Int /\ Announced >= 1 /\ request.head + Announced <= totalLen
      /\ totalLen \in Nat /\ totalLen <= arrived /\ totalLen <= bufferSz - 1
      /\ arrived \in Nat /\ arrived <= request.size
  BY DEF Parses, bodyAvail, Announced, TypeOK, InBuffer
<1>3. CASE request.length = Absent
  BY <1>1, <1>2, <1>3 DEF Reader!Take, Unsized, Parses
<1>4. CASE request.length # Absent
  <2>1. Announced = Atoi(request.length)
    BY <1>4 DEF Announced
  <2>2. Usable(request)
    BY <1>2, <1>4, <2>1 DEF Usable, Lesser, Parses
  <2>3. arrived >= Whole(request) /\ body' = Body(request)
    BY <1>1, <1>2, <2>1 DEF Whole, Body
  <2> QED BY <1>1, <2>2, <2>3 DEF Reader!Take
<1> QED BY <1>3, <1>4

\* How TCP segments the stream does not matter: the reader does what
\* RequestReader says.
THEOREM Implementation == Spec => ReaderSpec
<1>1. Init => Reader!Init
  BY DEF Init, Reader!Init, NoBody, Reader!NoBody
<1>2. IInv /\ [Next]_vars => [Reader!Next]_(Reader!vars)
  <2> SUFFICES ASSUME IInv, [Next]_vars PROVE [Reader!Next]_(Reader!vars)
    OBVIOUS
  <2> USE DEF Reader!Next, Reader!vars
  <2>1. CASE Arrive
    BY <2>1 DEF Arrive, Reader!Arrive, Size
  <2>2. CASE Leave
    BY <2>2 DEF Leave, Reader!Leave
  <2>3. CASE Recv \/ RecvEnds
    BY <2>3 DEF Recv, RecvEnds, netVars
  <2>4. CASE Parse
    <3>1. CASE Parses
      BY <2>4, <3>1, AcceptedIsTaken
    <3>2. CASE ~Parses
      BY <2>4, <3>2, RefusedForCause DEF Reader!Refuse, Parse, netVars, IInv, Judged
    <3> QED BY <3>1, <3>2
  <2>5. CASE UNCHANGED vars
    BY <2>5 DEF vars, netVars
  <2> QED BY <2>1, <2>2, <2>3, <2>4, <2>5 DEF Next, Server
<1> QED BY <1>1, <1>2, Invariance, PTL DEF Spec, ReaderSpec, Reader!Spec

-----------------------------------------------------------------------------
(***************************************************************************)
(* The composition.  What is proved of the SCGI reader and of the index    *)
(* holds of them here, since ocspResponder reads nothing else meanwhile.   *)
(***************************************************************************)
ScgiProofs == INSTANCE ScgiTransport_proofs WITH
  bufferSz <- ScgiBufferSz, Lengths <- ScgiLengths,
  request <- sRequest, arrived <- sArrived, gone <- sGone, pc <- sPc, consumed <- sConsumed,
  stored <- sStored, contentLength <- sContentLength, post <- sPost, verdict <- sVerdict,
  body <- sBody

IndexProofs == INSTANCE OcspIndex_proofs WITH pc <- iPc, line <- iLine

\* Each reading leaves the state of the other two alone.  The instances of a module
\* and of its proofs' module define the same.
LEMMA HttpIsRead == InputsSpec => Spec
<1>1. InputsInit => Init
  BY DEF InputsInit, NoHttp
<1>2. [InputsNext]_inputVars => [Next]_vars
  BY DEF InputsNext, ReadIndex, ReadHttp, ReadScgi, inputVars
<1> QED BY <1>1, <1>2, PTL DEF InputsSpec, Spec

LEMMA ScgiIsRead == InputsSpec => ScgiProofs!Spec
<1>1. InputsInit => Scgi!Init
  BY DEF InputsInit, NoScgi
<1>2. [InputsNext]_inputVars => [Scgi!Next]_(Scgi!vars)
  BY DEF InputsNext, ReadIndex, ReadHttp, ReadScgi, inputVars, scgiVars,
       Scgi!vars, Scgi!netVars, Scgi!readVars, Scgi!headerVars
<1>3. Scgi!Init => ScgiProofs!Init
  BY DEF Scgi!Init, ScgiProofs!Init, Scgi!NoBody, ScgiProofs!NoBody,
       Scgi!Requests, ScgiProofs!Requests, Scgi!Pairs, ScgiProofs!Pairs
<1>4. [Scgi!Next]_(Scgi!vars) => [ScgiProofs!Next]_(ScgiProofs!vars)
  BY DEF Scgi!Next, ScgiProofs!Next, Scgi!Server, ScgiProofs!Server,
       Scgi!Arrive, ScgiProofs!Arrive, Scgi!Leave, ScgiProofs!Leave,
       Scgi!ReadFails, ScgiProofs!ReadFails, Scgi!NetstringLength,
       ScgiProofs!NetstringLength, Scgi!ReadHeaders, ScgiProofs!ReadHeaders,
       Scgi!ReadComma, ScgiProofs!ReadComma, Scgi!ReadBody, ScgiProofs!ReadBody,
       Scgi!vars, ScgiProofs!vars, Scgi!netVars, ScgiProofs!netVars,
       Scgi!readVars, ScgiProofs!readVars, Scgi!headerVars,
       ScgiProofs!headerVars, Scgi!Size, ScgiProofs!Size, Scgi!BodyAt,
       ScgiProofs!BodyAt, Scgi!HeadersAt, ScgiProofs!HeadersAt, Scgi!GiveUp,
       ScgiProofs!GiveUp, Scgi!Some, ScgiProofs!Some, Scgi!Lesser,
       ScgiProofs!Lesser, Scgi!Ended, ScgiProofs!Ended, Scgi!With,
       ScgiProofs!With, Scgi!LastOf, ScgiProofs!LastOf, Scgi!LengthIn,
       ScgiProofs!LengthIn, Scgi!PostIn, ScgiProofs!PostIn, Scgi!Checked,
       ScgiProofs!Checked, Scgi!Fits, ScgiProofs!Fits
<1> QED BY <1>1, <1>2, <1>3, <1>4, PTL DEF InputsSpec, ScgiProofs!Spec

LEMMA IndexIsRead == InputsSpec => IndexProofs!Spec
<1>1. InputsInit => Index!Init
  BY DEF InputsInit, NoIndex
<1>2. [InputsNext]_inputVars => [Index!Next]_(Index!vars)
  BY DEF InputsNext, ReadIndex, ReadHttp, ReadScgi, inputVars, indexVars, Index!vars
<1>3. Index!Init => IndexProofs!Init
  BY DEF Index!Init, IndexProofs!Init
<1>4. [Index!Next]_(Index!vars) => [IndexProofs!Next]_(IndexProofs!vars)
  BY DEF Index!Next, IndexProofs!Next, Index!vars, IndexProofs!vars,
       Index!OpenFails, IndexProofs!OpenFails, Index!ParseLine,
       IndexProofs!ParseLine, Index!EntryFails, IndexProofs!EntryFails,
       Index!ParseEnds, IndexProofs!ParseEnds, Index!Populate,
       IndexProofs!Populate, Index!PopulateFails, IndexProofs!PopulateFails,
       Index!PopulateEnds, IndexProofs!PopulateEnds, Index!MayFail,
       IndexProofs!MayFail, Index!Kept, IndexProofs!Kept, Index!Serial,
       IndexProofs!Serial, Index!NoSerial, IndexProofs!NoSerial,
       Index!RevocationTime, IndexProofs!RevocationTime, Index!EntryOf,
       IndexProofs!EntryOf, Index!StatusOf, IndexProofs!StatusOf
<1> QED BY <1>1, <1>2, <1>3, <1>4, PTL DEF InputsSpec, IndexProofs!Spec

LEMMA ScgiConstantsHold == ScgiProofs!ScgiConstants
  BY ScgiAssumption DEF Scgi!ScgiConstants, ScgiProofs!ScgiConstants,
       Scgi!Pairs, ScgiProofs!Pairs

LEMMA IndexConstantsHold == IndexProofs!IndexConstants
  BY IndexAssumption DEF Index!IndexConstants, IndexProofs!IndexConstants,
       Index!Lines, IndexProofs!Lines, Index!BadSerials, IndexProofs!BadSerials,
       Index!NoSerial, IndexProofs!NoSerial

\* wolfCLU_HttpServerRecv and wolfCLU_HttpServerParseRequest, among the other
\* readings: inside the buffer, whole bodies, no needless wait.
THEOREM HttpReadsWell == InputsSpec => [](InBuffer /\ BodyIsWhole /\ NeverWaitsForMore)
<1> QED BY HttpIsRead, Terminated, WholeBodies, NoNeedlessWait, PTL

\* wolfCLU_ScgiRead reads a usable request to its last byte and not further.
THEOREM ScgiReads == InputsSpec => []ScgiReadsItsOwn
<1>1. ScgiProofs!Spec => []ScgiProofs!ScgiReadsItsOwn
  BY ScgiConstantsHold, ScgiProofs!ReadsNoMore
<1>2. ScgiProofs!ScgiReadsItsOwn => ScgiReadsItsOwn
  BY DEF ScgiReadsItsOwn, Scgi!ScgiReadsItsOwn, ScgiProofs!ScgiReadsItsOwn,
       Scgi!TypeOK, ScgiProofs!TypeOK, Scgi!ReadsItsOwnBytes,
       ScgiProofs!ReadsItsOwnBytes, Scgi!Usable, ScgiProofs!Usable, Scgi!Whole,
       ScgiProofs!Whole, Scgi!Requests, ScgiProofs!Requests, Scgi!Pairs,
       ScgiProofs!Pairs, Scgi!BodyAt, ScgiProofs!BodyAt, Scgi!HeadersAt,
       ScgiProofs!HeadersAt, Scgi!Lesser, ScgiProofs!Lesser, Scgi!LengthIn,
       ScgiProofs!LengthIn, Scgi!PostIn, ScgiProofs!PostIn, Scgi!Ended,
       ScgiProofs!Ended, Scgi!With, ScgiProofs!With, Scgi!LastOf,
       ScgiProofs!LastOf
<1> QED BY <1>1, <1>2, ScgiIsRead, PTL

\* wolfCLU_ScgiRead accepts a usable request exactly when it is whole, whatever
\* pieces TCP brings it in.
THEOREM ScgiImplements == InputsSpec => ScgiReaderSpec
<1>1. ScgiProofs!Spec => ScgiProofs!ScgiReaderSpec
  BY ScgiConstantsHold, ScgiProofs!Implementation
<1>2. ScgiProofs!Reader!Init => Scgi!Reader!Init
  BY DEF Scgi!Reader!Init, ScgiProofs!Reader!Init, Scgi!Reader!NoBody,
       ScgiProofs!Reader!NoBody, Scgi!Requests, ScgiProofs!Requests, Scgi!Pairs,
       ScgiProofs!Pairs
<1>3. [ScgiProofs!Reader!Next]_(ScgiProofs!Reader!vars) => [Scgi!Reader!Next]_(Scgi!Reader!vars)
  BY DEF Scgi!Reader!Next, ScgiProofs!Reader!Next, Scgi!Reader!Arrive,
       ScgiProofs!Reader!Arrive, Scgi!Reader!Leave, ScgiProofs!Reader!Leave,
       Scgi!Reader!Take, ScgiProofs!Reader!Take, Scgi!Reader!Refuse,
       ScgiProofs!Reader!Refuse, Scgi!Reader!vars, ScgiProofs!Reader!vars,
       Scgi!Size, ScgiProofs!Size, Scgi!BodyAt, ScgiProofs!BodyAt,
       Scgi!HeadersAt, ScgiProofs!HeadersAt, Scgi!Usable, ScgiProofs!Usable,
       Scgi!Unsized, ScgiProofs!Unsized, Scgi!Whole, ScgiProofs!Whole,
       Scgi!Body, ScgiProofs!Body, Scgi!Lesser, ScgiProofs!Lesser,
       Scgi!LengthIn, ScgiProofs!LengthIn, Scgi!PostIn, ScgiProofs!PostIn,
       Scgi!Ended, ScgiProofs!Ended, Scgi!With, ScgiProofs!With, Scgi!LastOf,
       ScgiProofs!LastOf
<1> QED
  BY <1>1, <1>2, <1>3, ScgiIsRead, PTL DEF ScgiReaderSpec, Scgi!ScgiReaderSpec,
       ScgiProofs!ScgiReaderSpec, Scgi!Reader!Spec, ScgiProofs!Reader!Spec

\* parseIndexFile and what ocspResponder does with its list: each serial is served
\* as the last line about it says, and none is vouched for that no line vouches for.
THEOREM IndexServes == InputsSpec => []IndexIsServed
<1>1. IndexProofs!Spec => []IndexProofs!IndexIsServed
  BY IndexConstantsHold, IndexProofs!Served
<1>2. IndexProofs!IndexIsServed => IndexIsServed
  BY DEF IndexIsServed, Index!IndexIsServed, IndexProofs!IndexIsServed,
       Index!TypeOK, IndexProofs!TypeOK, Index!ServesTheIndex,
       IndexProofs!ServesTheIndex, Index!GoodIsVouched,
       IndexProofs!GoodIsVouched, Index!Entries, IndexProofs!Entries,
       Index!BadSerials, IndexProofs!BadSerials, Index!NoSerial,
       IndexProofs!NoSerial, Index!About, IndexProofs!About, Index!Saying,
       IndexProofs!Saying, Index!StatusOf, IndexProofs!StatusOf
<1> QED BY <1>1, <1>2, IndexIsRead, PTL
=============================================================================

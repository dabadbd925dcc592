---------------------------- MODULE CaSign_proofs ----------------------------
(***************************************************************************)
(* That no serial number and no subject is issued twice, and that what     *)
(* succeeded is recorded, for any number of runs, of serial numbers and of *)
(* writes that are lost.                                                   *)
(***************************************************************************)
EXTENDS CaSign, TLAPS

\* The places where the files are closed, those where the certificate has a number,
\* and those of a run that is about to report success or has.
Closing == {"closeDataBase", "closeSerialFile", "closeRandFile"}
Signed == {"signed", "written", "counted", "logged"}
Succeeding(r) == ok[r] /\ pc[r] \in Closing \cup {"done"}

\* A run has read nothing and holds nothing before it signs; when it succeeds,
\* it holds all of it.
Holds ==
  \A r \in Runs :
    /\ pc[r] \in {"start", "sign"} => serial[r] = None /\ next[r] = None /\ line[r] = None
    /\ pc[r] \in Signed \/ Succeeding(r) => serial[r] # None
    /\ pc[r] \in {"counted", "logged"} \/ Succeeding(r) => next[r] # None
    /\ At(r, "logged") \/ Succeeding(r) => line[r] = subject[r]
    /\ At(r, "done") => ok[r]

\* A certificate that is out is that of the run that issued it.
Issued ==
  /\ \A c \in certs :
       /\ c.serial = serial[c.run] /\ c.subject = subject[c.run]
       /\ pc[c.run] \in Closing \cup {"done", "failed", "killed"}
  /\ \A r \in Runs : Succeeding(r) /\ r \notin lost => \E c \in certs : c.run = r

\* A subject is in the data base once it has been closed.
Recorded ==
  \A r \in Runs :
    Succeeding(r) /\ ~At(r, "closeDataBase") /\ r \notin lost => subject[r] \in dataBase

\* Unless runs overlapped, one at a time has the files open, ...
Exclusive ==
  ~overlapped => \A p, q \in Runs : pc[p] \notin Idle /\ pc[q] \notin Idle => p = q

\* ... what it has is what the files say, ...
Current ==
  ~overlapped =>
    \A r \in Runs :
      /\ pc[r] \notin Idle \cup {"closeRandFile"} =>
           serial[r] \in {None, serialFile} /\ next[r] \in {None, serialFile + 1}
      /\ unique /\ pc[r] \in {"written", "counted", "logged"} => subject[r] \notin dataBase

\* ... and the serial file is past every number of a run that succeeded.
Past ==
  ~overlapped =>
    \A r \in Runs :
      Succeeding(r) /\ pc[r] \in {"closeRandFile", "done"} /\ r \notin lost =>
        serial[r] < serialFile

IInv == TypeOK /\ Holds /\ Issued /\ Recorded /\ Exclusive /\ Current /\ Past
-----------------------------------------------------------------------------
\* A run opens the files: it is alone, or runs overlap from now on.
LEMMA OpenStep == ASSUME IInv, NEW r \in Runs, ReadSignConfig(r) PROVE IInv'
<1> USE NoneAssumption DEF IInv, ReadSignConfig, At, Go, config, buffers, caFiles, history
<1>1. TypeOK'
  BY DEF TypeOK, Idle, Steps
<1>2. Holds'
  BY DEF TypeOK, Holds, Succeeding, Closing, Signed
<1>3. Issued'
  BY DEF TypeOK, Issued, Succeeding, Closing
<1>4. Recorded'
  BY DEF TypeOK, Recorded, Succeeding, Closing
<1>5. Exclusive'
  BY DEF TypeOK, Exclusive, Idle
<1>6. Current'
  BY DEF TypeOK, Current, Exclusive, Idle, Holds
<1>7. Past'
  BY DEF TypeOK, Past, Succeeding, Closing
<1> QED BY <1>1, <1>2, <1>3, <1>4, <1>5, <1>6, <1>7

\* It signs with the number in the file.
LEMMA SignStep == ASSUME IInv, NEW r \in Runs, Sign(r) PROVE IInv'
<1> USE NoneAssumption DEF IInv, Sign, At, Go, config, buffers, caFiles, history
<1>1. TypeOK'
  BY DEF TypeOK, Idle, Steps
<1>2. Holds'
  BY DEF TypeOK, Holds, Succeeding, Closing, Signed
<1>3. Issued'
  BY DEF TypeOK, Issued, Succeeding, Closing
<1>4. Recorded'
  BY DEF TypeOK, Recorded, Succeeding, Closing
<1>5. Exclusive'
  BY DEF TypeOK, Exclusive, Idle
<1>6. Current'
  BY DEF TypeOK, Current, Exclusive, Idle, Holds, Signed
<1>7. Past'
  BY DEF TypeOK, Past, Succeeding, Closing
<1> QED BY <1>1, <1>2, <1>3, <1>4, <1>5, <1>6, <1>7

\* The subject is not in the data base.
LEMMA WriteStep == ASSUME IInv, NEW r \in Runs, WriteCert(r) PROVE IInv'
<1> USE NoneAssumption DEF IInv, WriteCert, At, Go, config, buffers, caFiles, history, ChecksOut
<1>1. TypeOK'
  BY DEF TypeOK, Idle, Steps
<1>2. Holds'
  BY DEF TypeOK, Holds, Succeeding, Closing, Signed
<1>3. Issued'
  BY DEF TypeOK, Issued, Succeeding, Closing
<1>4. Recorded'
  BY DEF TypeOK, Recorded, Succeeding, Closing
<1>5. Exclusive'
  BY DEF TypeOK, Exclusive, Idle
<1>6. Current'
  BY DEF TypeOK, Current, Exclusive, Idle
<1>7. Past'
  BY DEF TypeOK, Past, Succeeding, Closing
<1> QED BY <1>1, <1>2, <1>3, <1>4, <1>5, <1>6, <1>7

\* Nothing comes out of a run that is refused.
LEMMA RefuseStep == ASSUME IInv, NEW r \in Runs, Refuse(r) PROVE IInv'
<1> USE NoneAssumption DEF IInv, Refuse, At, Go, config, buffers, caFiles, history, Fail
<1>1. TypeOK'
  BY DEF TypeOK, Idle, Steps
<1>2. Holds'
  BY DEF TypeOK, Holds, Succeeding, Closing, Signed
<1>3. Issued'
  BY DEF TypeOK, Issued, Succeeding, Closing
<1>4. Recorded'
  BY DEF TypeOK, Recorded, Succeeding, Closing
<1>5. Exclusive'
  BY DEF TypeOK, Exclusive, Idle
<1>6. Current'
  BY DEF TypeOK, Current, Exclusive, Idle
<1>7. Past'
  BY DEF TypeOK, Past, Succeeding, Closing
<1> QED BY <1>1, <1>2, <1>3, <1>4, <1>5, <1>6, <1>7

\* The next number is put in the buffer.
LEMMA CountStep == ASSUME IInv, NEW r \in Runs, IncrementSerial(r) PROVE IInv'
<1> USE NoneAssumption DEF IInv, IncrementSerial, At, Go, config, buffers, caFiles, history
<1>1. TypeOK'
  BY DEF TypeOK, Idle, Steps, Holds, Signed
<1>2. Holds'
  BY DEF TypeOK, Holds, Succeeding, Closing, Signed
<1>3. Issued'
  BY DEF TypeOK, Issued, Succeeding, Closing
<1>4. Recorded'
  BY DEF TypeOK, Recorded, Succeeding, Closing
<1>5. Exclusive'
  BY DEF TypeOK, Exclusive, Idle
<1>6. Current'
  BY DEF TypeOK, Current, Exclusive, Idle, Holds, Signed
<1>7. Past'
  BY DEF TypeOK, Past, Succeeding, Closing
<1> QED BY <1>1, <1>2, <1>3, <1>4, <1>5, <1>6, <1>7

\* The subject is put in the buffer.
LEMMA LogStep == ASSUME IInv, NEW r \in Runs, CertSignLog(r) PROVE IInv'
<1> USE NoneAssumption DEF IInv, CertSignLog, At, Go, config, buffers, caFiles, history
<1>1. TypeOK'
  BY DEF TypeOK, Idle, Steps
<1>2. Holds'
  BY DEF TypeOK, Holds, Succeeding, Closing, Signed
<1>3. Issued'
  BY DEF TypeOK, Issued, Succeeding, Closing
<1>4. Recorded'
  BY DEF TypeOK, Recorded, Succeeding, Closing
<1>5. Exclusive'
  BY DEF TypeOK, Exclusive, Idle
<1>6. Current'
  BY DEF TypeOK, Current, Exclusive, Idle
<1>7. Past'
  BY DEF TypeOK, Past, Succeeding, Closing
<1> QED BY <1>1, <1>2, <1>3, <1>4, <1>5, <1>6, <1>7

\* The certificate comes out.
LEMMA IssueStep == ASSUME IInv, NEW r \in Runs, Issue(r) PROVE IInv'
<1> USE NoneAssumption DEF IInv, Issue, At, Go, config, buffers, caFiles, history
<1> DEFINE cert == [run |-> r, serial |-> serial[r], subject |-> subject[r]]
<1>0. \/ certs' = certs \cup {cert} /\ lost' = lost
      \/ certs' = certs /\ lost' = lost \cup {r}
  BY DEF Publish, Lose
<1> USE <1>0
<1>1. TypeOK'
  BY DEF TypeOK, Idle, Steps, Holds, Signed
<1>2. Holds'
  BY DEF TypeOK, Holds, Succeeding, Closing, Signed
<1>3. Issued'
  <2>1. \A c \in certs' : /\ c.serial = serial'[c.run] /\ c.subject = subject'[c.run]
                         /\ pc'[c.run] \in Closing \cup {"done", "failed", "killed"}
    BY DEF TypeOK, Issued, Closing
  <2>2. \A q \in Runs : Succeeding(q)' /\ q \notin lost' => \E c \in certs' : c.run = q
    <3>1. r \notin lost' => cert \in certs' /\ cert.run = r
      OBVIOUS
    <3>2. \A q \in Runs \ {r} : Succeeding(q)' => Succeeding(q)
      BY DEF Succeeding, TypeOK
    <3>3. certs \subseteq certs' /\ lost \subseteq lost'
      OBVIOUS
    <3> HIDE <1>0 DEF cert
    <3> QED BY <3>1, <3>2, <3>3 DEF Issued
  <2> QED BY <2>1, <2>2 DEF Issued
<1>4. Recorded'
  BY DEF TypeOK, Recorded, Succeeding, Closing
<1>5. Exclusive'
  BY DEF TypeOK, Exclusive, Idle
<1>6. Current'
  BY DEF TypeOK, Current, Exclusive, Idle
<1>7. Past'
  BY DEF TypeOK, Past, Succeeding, Closing
<1> QED BY <1>1, <1>2, <1>3, <1>4, <1>5, <1>6, <1>7

\* It comes out although it could not be recorded.
LEMMA FailStep == ASSUME IInv, NEW r \in Runs, BookkeepingFails(r) PROVE IInv'
<1> USE NoneAssumption
    DEF IInv, BookkeepingFails, At, Go, config, buffers, caFiles, history, Fail
<1> DEFINE cert == [run |-> r, serial |-> serial[r], subject |-> subject[r]]
<1>0. \/ certs' = certs \cup {cert} /\ lost' = lost
      \/ certs' = certs /\ lost' = lost \cup {r}
  BY DEF Publish, Lose
<1> USE <1>0
<1>1. TypeOK'
  BY DEF TypeOK, Idle, Steps, Holds, Signed
<1>2. Holds'
  BY DEF TypeOK, Holds, Succeeding, Closing, Signed
<1>3. Issued'
  BY DEF TypeOK, Issued, Succeeding, Closing, Holds, Signed
<1>4. Recorded'
  BY DEF TypeOK, Recorded, Succeeding, Closing
<1>5. Exclusive'
  BY DEF TypeOK, Exclusive, Idle
<1>6. Current'
  BY DEF TypeOK, Current, Exclusive, Idle
<1>7. Past'
  BY DEF TypeOK, Past, Succeeding, Closing
<1> QED BY <1>1, <1>2, <1>3, <1>4, <1>5, <1>6, <1>7

\* The data base is closed: the subject is in it, or the run lost a write.
LEMMA DataBaseStep == ASSUME IInv, NEW r \in Runs, CloseDataBase(r) PROVE IInv'
<1> USE NoneAssumption DEF IInv, CloseDataBase, At, Go, config, buffers, caFiles, history, Lose
<1>1. TypeOK'
  BY DEF TypeOK, Idle, Steps
<1>2. Holds'
  BY DEF TypeOK, Holds, Succeeding, Closing, Signed
<1>3. Issued'
  BY DEF TypeOK, Issued, Succeeding, Closing
<1>4. Recorded'
  BY DEF TypeOK, Recorded, Succeeding, Closing, Holds
<1>5. Exclusive'
  BY DEF TypeOK, Exclusive, Idle
<1>6. Current'
  BY DEF TypeOK, Current, Exclusive, Idle, Holds
<1>7. Past'
  BY DEF TypeOK, Past, Succeeding, Closing
<1> QED BY <1>1, <1>2, <1>3, <1>4, <1>5, <1>6, <1>7

\* The serial file is closed: it has the next number, or the run lost a write.
LEMMA SerialFileStep == ASSUME IInv, NEW r \in Runs, CloseSerialFile(r) PROVE IInv'
<1> USE NoneAssumption DEF IInv, CloseSerialFile, At, Go, config, buffers, caFiles, history, Lose
<1>1. TypeOK'
  BY DEF TypeOK, Idle, Steps
<1>2. Holds'
  BY DEF TypeOK, Holds, Succeeding, Closing, Signed
<1>3. Issued'
  BY DEF TypeOK, Issued, Succeeding, Closing
<1>4. Recorded'
  BY DEF TypeOK, Recorded, Succeeding, Closing
<1>5. Exclusive'
  BY DEF TypeOK, Exclusive, Idle
<1>6. Current'
  BY DEF TypeOK, Current, Exclusive, Idle
<1>7. Past'
  BY DEF TypeOK, Past, Succeeding, Closing, Holds, Current, Exclusive, Idle
<1> QED BY <1>1, <1>2, <1>3, <1>4, <1>5, <1>6, <1>7

\* The last file is closed.
LEMMA RandFileStep == ASSUME IInv, NEW r \in Runs, CloseRandFile(r) PROVE IInv'
<1> USE NoneAssumption DEF IInv, CloseRandFile, At, Go, config, buffers, caFiles, history
<1>1. TypeOK'
  BY DEF TypeOK, Idle, Steps
<1>2. Holds'
  BY DEF TypeOK, Holds, Succeeding, Closing, Signed
<1>3. Issued'
  BY DEF TypeOK, Issued, Succeeding, Closing
<1>4. Recorded'
  BY DEF TypeOK, Recorded, Succeeding, Closing
<1>5. Exclusive'
  BY DEF TypeOK, Exclusive, Idle
<1>6. Current'
  BY DEF TypeOK, Current, Exclusive, Idle
<1>7. Past'
  BY DEF TypeOK, Past, Succeeding, Closing
<1> QED BY <1>1, <1>2, <1>3, <1>4, <1>5, <1>6, <1>7

\* A run is killed.
LEMMA KillStep == ASSUME IInv, NEW r \in Runs, Kill(r) PROVE IInv'
<1> USE NoneAssumption DEF IInv, Kill, At, Go, config, buffers, caFiles, history
<1>1. TypeOK'
  BY DEF TypeOK, Idle, Steps
<1>2. Holds'
  BY DEF TypeOK, Holds, Succeeding, Closing, Signed
<1>3. Issued'
  BY DEF TypeOK, Issued, Succeeding, Closing
<1>4. Recorded'
  BY DEF TypeOK, Recorded, Succeeding, Closing
<1>5. Exclusive'
  BY DEF TypeOK, Exclusive, Idle
<1>6. Current'
  BY DEF TypeOK, Current, Exclusive, Idle
<1>7. Past'
  BY DEF TypeOK, Past, Succeeding, Closing
<1> QED BY <1>1, <1>2, <1>3, <1>4, <1>5, <1>6, <1>7

LEMMA InitInv == Init => IInv
<1> SUFFICES ASSUME Init PROVE IInv
  OBVIOUS
<1> USE NoneAssumption DEF Init
<1>1. TypeOK
  BY UniquesAssumption DEF TypeOK, Idle, Steps
<1>2. Holds /\ Issued
  BY DEF Holds, Issued, Succeeding, Closing, Signed, At
<1>3. Recorded /\ Exclusive /\ Current /\ Past
  BY DEF Recorded, Exclusive, Current, Past, Succeeding, Closing, Idle
<1> QED BY <1>1, <1>2, <1>3 DEF IInv

LEMMA NextInv == IInv /\ [Next]_vars => IInv'
<1> SUFFICES ASSUME IInv, [Next]_vars PROVE IInv'
  OBVIOUS
<1>1. CASE Next
  BY <1>1, OpenStep, SignStep, WriteStep, RefuseStep, CountStep, LogStep, IssueStep,
     FailStep, DataBaseStep, SerialFileStep, RandFileStep, KillStep DEF Next
<1>2. CASE UNCHANGED vars
  BY <1>2 DEF vars, config, buffers, caFiles, history, IInv, TypeOK, Holds, Issued, Recorded,
              Exclusive, Current, Past, Succeeding, Idle, At
<1> QED BY <1>1, <1>2

-----------------------------------------------------------------------------
\* What a run holds is what the CA's files say while it is the only one to have
\* them open, and every number and subject of a run that succeeded is behind.
THEOREM Invariance == Spec => []IInv
  BY InitInv, NextInv, PTL DEF Spec

\* Every variable keeps its type: a number is read before it is incremented, and
\* what a certificate is made of is there when it comes out.
THEOREM TypeCorrect == Spec => []TypeOK
  BY Invariance, PTL DEF IInv

LEMMA RecordedBySuccess == IInv => SuccessIsRecorded
  BY DEF IInv, SuccessIsRecorded, Completed, Succeeding, Issued, Recorded, Past, TypeOK, At,
         Closing, Holds

\* A run that reports success has left its subject in the data base and, unless
\* runs overlapped, a larger number in the serial file (wolfCLU_CertSignFree).
THEOREM Recording == Spec => []SuccessIsRecorded
  BY Invariance, RecordedBySuccess, PTL

\* What a certificate that comes out is made of, and of a completed one.
NewOne ==
  \A c \in certs' \ certs, d \in certs :
    Completed(d.run) /\ ~overlapped
    => c.serial # d.serial /\ (unique => c.subject # d.subject)

LEMMA OnlyPublished ==
  ASSUME IInv, [Next]_vars, NEW c \in certs' \ certs
  PROVE  \E r \in Runs : /\ pc[r] \in {"written", "counted", "logged"}
                       /\ c.serial = serial[r] /\ c.subject = subject[r]
  BY DEF Next, vars, config, buffers, caFiles, history, At, ReadSignConfig, Sign, WriteCert,
         Refuse, IncrementSerial, CertSignLog, Issue, BookkeepingFails, Publish,
         CloseDataBase, CloseSerialFile, CloseRandFile, Kill

LEMMA NewOneStep == IInv /\ [Next]_vars => NewOne
<1> SUFFICES ASSUME IInv, [Next]_vars,
                    NEW c \in certs' \ certs, NEW d \in certs, Completed(d.run), ~overlapped
             PROVE  c.serial # d.serial /\ (unique => c.subject # d.subject)
  BY DEF NewOne
<1>1. PICK r \in Runs : /\ pc[r] \in {"written", "counted", "logged"}
                       /\ c.serial = serial[r] /\ c.subject = subject[r]
  BY OnlyPublished
<1>2. d.run \in Runs /\ d.serial = serial[d.run] /\ d.subject = subject[d.run]
  BY DEF IInv, TypeOK, Issued
<1>3. ASSUME Succeeding(d.run)
      PROVE  c.serial # d.serial /\ (unique => c.subject # d.subject)
  <2>1. serial[r] = serialFile /\ serial[d.run] < serialFile
    BY <1>1, <1>2, <1>3 DEF IInv, Holds, Signed, Current, Past, Idle, Completed
  <2>2. serialFile \in Nat /\ serial[d.run] \in Nat
    BY <1>2, <1>3, NoneAssumption DEF IInv, TypeOK, Holds
  <2>3. unique => subject[r] \notin dataBase
    BY <1>1 DEF IInv, Current
  <2>4. subject[d.run] \in dataBase
    BY <1>2, <1>3 DEF IInv, Recorded, Completed, At
  <2> QED BY <1>1, <1>2, <2>1, <2>2, <2>3, <2>4
<1>4. Succeeding(d.run)
  BY <1>2 DEF IInv, Holds, Completed, At, Succeeding
<1> QED BY <1>3, <1>4

\* Unless runs overlapped, a certificate that comes out never has the serial
\* number of one that a completed run issued, nor, where subjects have to be
\* unique, its subject (wolfCLU_CertSignIncrementSerial, wolfCLU_CertSignLog).
THEOREM NeverTwice == Spec => NewSerialAndSubject
<1>1. IInv /\ [Next]_vars => [NewOne]_vars
  BY NewOneStep
<1> QED BY <1>1, Invariance, PTL DEF Spec, NewSerialAndSubject, NewOne
=============================================================================

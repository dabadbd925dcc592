------------------------------- MODULE CaSign -------------------------------
(***************************************************************************)
(* Issuing certificates with "wolfssl ca -config ..."                      *)
(* (src/src/x509/clu_x509_sign.c, clu_ca_setup.c).  Each run is a process  *)
(* that shares with the others the CA's files: the serial file, the data   *)
(* base of subjects and the file of random data.  What a run writes to     *)
(* them stays in the stream's buffer until wolfCLU_CertSignFree closes it, *)
(* which is after the certificate is out.  Nothing locks the files.        *)
(***************************************************************************)
EXTENDS Integers, FiniteSets

CONSTANTS
  Runs,      \* invocations of the program
  Subjects,  \* subject names asked for
  Long,      \* the subjects whose line in the data base passes MAX_TERM_WIDTH
  Uniques,   \* values of unique_subject to run with
  MaxLong,   \* the largest serial number that can be incremented
  MaxLost,   \* bound on the runs that lose a write when a file is closed
  None

ASSUME LongAssumption == Long \subseteq Subjects
ASSUME UniquesAssumption == Uniques \subseteq BOOLEAN
ASSUME BoundsAssumption == MaxLong \in Nat /\ MaxLost \in Nat
ASSUME NoneAssumption == None \notin Subjects \cup Nat

VARIABLES
  unique,     \* unique_subject in the configuration
  subject,    \* the subject of each run's request
  pc,
  ok,         \* whether ret is WOLFCLU_SUCCESS
  serial,     \* the serial number a run read, and signed with
  next,       \* the one it has in the buffer of the serial file
  line,       \* the subject it has in the buffer of the data base
  seed,       \* what it read from RANDFILE
  serialFile, dataBase, randFile,
  certs,      \* history: the certificates that are out
  overlapped, \* history: two runs had the CA's files open at the same time
  lost        \* history: the runs that lost a write when a file was closed

config == <<unique, subject>>
buffers == <<serial, next, line, seed>>
caFiles == <<serialFile, dataBase, randFile>>
history == <<certs, overlapped, lost>>
vars == <<config, pc, ok, buffers, caFiles, history>>

Init ==
  /\ unique \in Uniques
  /\ subject \in [Runs -> Subjects]
  /\ pc = [r \in Runs |-> "start"]
  /\ ok = [r \in Runs |-> TRUE]
  /\ serial = [r \in Runs |-> None]
  /\ next = [r \in Runs |-> None]
  /\ line = [r \in Runs |-> None]
  /\ seed = [r \in Runs |-> None]
  /\ serialFile = 1
  /\ dataBase = {}
  /\ randFile = "random"
  /\ certs = {}
  /\ overlapped = FALSE
  /\ lost = {}

At(r, here) == pc[r] = here
Go(r, there) == pc' = [pc EXCEPT ![r] = there]
Idle == {"start", "done", "failed", "killed"}
Fail(r) == ok' = [ok EXCEPT ![r] = FALSE] /\ Go(r, "closeDataBase")

-----------------------------------------------------------------------------
\* wolfCLU_readSignConfig opens the files; RANDFILE is opened "wb+", which
\* empties it before it is read.
ReadSignConfig(r) ==
  /\ At(r, "start")
  /\ randFile' = None
  /\ seed' = [seed EXCEPT ![r] = randFile']
  /\ overlapped' = (overlapped \/ \E q \in Runs : pc[q] \notin Idle)
  /\ Go(r, "sign")
  /\ UNCHANGED <<config, ok, serial, next, line, serialFile, dataBase, certs, lost>>

\* wolfCLU_CertSign up to the signature.
Sign(r) ==
  /\ At(r, "sign")
  /\ serial' = [serial EXCEPT ![r] = serialFile]
  /\ Go(r, "signed")
  /\ UNCHANGED <<config, ok, next, line, seed, caFiles, history>>

\* The data base is read in pieces of MAX_TERM_WIDTH: the second piece of a
\* long line has no subject in it, which is an error.
Readable == dataBase \cap Long = {}

ChecksOut(r) == unique => Readable /\ subject[r] \notin dataBase

\* The subject is new; the output is opened and the certificate is in the
\* buffer of its stream.
WriteCert(r) ==
  /\ At(r, "signed")
  /\ ChecksOut(r)
  /\ Go(r, "written")
  /\ UNCHANGED <<config, ok, buffers, caFiles, history>>

\* The subject is not unique, or another call before the certificate is
\* written fails (a key that does not match, the policy, the output's path).
Refuse(r) ==
  /\ \/ At(r, "sign")
     \/ At(r, "signed")
  /\ Fail(r)
  /\ UNCHANGED <<config, buffers, caFiles, history>>

BadIncrementSerial(r) == \* the number that was used is written back
  /\ At(r, "written")
  /\ next' = [next EXCEPT ![r] = serial[r]]
  /\ Go(r, "counted")
  /\ UNCHANGED <<config, ok, serial, line, seed, caFiles, history>>

\* The serial file is read again, from the stream's buffer or the file, and
\* the next number is put in the buffer.
IncrementSerial(r) ==
  /\ At(r, "written")
  /\ \E cur \in {serial[r], serialFile} :
       /\ cur <= MaxLong
       /\ next' = [next EXCEPT ![r] = cur + 1]
  /\ Go(r, "counted")
  /\ UNCHANGED <<config, ok, serial, line, seed, caFiles, history>>

BadCertSignLog(r) == \* the subject is logged only when it has to be unique
  /\ At(r, "counted")
  /\ line' = [line EXCEPT ![r] = IF unique THEN subject[r] ELSE None]
  /\ Go(r, "logged")
  /\ UNCHANGED <<config, ok, serial, next, seed, caFiles, history>>

CertSignLog(r) ==
  /\ At(r, "counted")
  /\ line' = [line EXCEPT ![r] = subject[r]]
  /\ Go(r, "logged")
  /\ UNCHANGED <<config, ok, serial, next, seed, caFiles, history>>

\* What a buffer held did not get to its file when that was closed.
Lose(r) ==
  /\ lost' = lost \cup {r}
  /\ Cardinality(lost') <= MaxLost

\* Freeing the output flushes the certificate, or loses it, and nobody looks, ...
Publish(r) ==
  \/ /\ certs' = certs \cup {[run |-> r, serial |-> serial[r], subject |-> subject[r]]}
     /\ UNCHANGED lost
  \/ Lose(r) /\ UNCHANGED certs

Issue(r) ==
  /\ At(r, "logged")
  /\ Publish(r)
  /\ Go(r, "closeDataBase")
  /\ UNCHANGED <<config, ok, buffers, caFiles, overlapped>>

\* ... also when the serial number or the data base could not be written.
BookkeepingFails(r) ==
  /\ \/ At(r, "written")
     \/ At(r, "counted")
  /\ Publish(r)
  /\ Fail(r)
  /\ UNCHANGED <<config, buffers, caFiles, overlapped>>

-----------------------------------------------------------------------------
(***************************************************************************)
(* wolfCLU_CertSignFree closes the three files in this order.  Closing a   *)
(* file writes what its buffer holds; whether that worked is not looked    *)
(* at.                                                                     *)
(***************************************************************************)
CloseDataBase(r) ==
  /\ At(r, "closeDataBase")
  /\ \/ /\ dataBase' = dataBase \cup ({line[r]} \ {None})
        /\ UNCHANGED lost
     \/ /\ line[r] # None
        /\ Lose(r)
        /\ UNCHANGED dataBase
  /\ Go(r, "closeSerialFile")
  /\ UNCHANGED <<config, ok, buffers, serialFile, randFile, certs, overlapped>>

BadCloseSerialFile(r) == \* the file is written whether there is a number or not
  /\ At(r, "closeSerialFile")
  /\ serialFile' = next[r]
  /\ Go(r, "closeRandFile")
  /\ UNCHANGED <<config, ok, buffers, dataBase, randFile, history>>

CloseSerialFile(r) ==
  /\ At(r, "closeSerialFile")
  /\ \/ /\ serialFile' = IF next[r] = None THEN serialFile ELSE next[r]
        /\ UNCHANGED lost
     \/ /\ next[r] # None
        /\ Lose(r)
        /\ UNCHANGED serialFile
  /\ Go(r, "closeRandFile")
  /\ UNCHANGED <<config, ok, buffers, dataBase, randFile, certs, overlapped>>

\* New random data goes to RANDFILE; failing to make it fails the run.
CloseRandFile(r) ==
  /\ At(r, "closeRandFile")
  /\ \/ /\ randFile' = "random"
        /\ Go(r, IF ok[r] THEN "done" ELSE "failed")
        /\ UNCHANGED ok
     \/ /\ Go(r, "failed")
        /\ ok' = [ok EXCEPT ![r] = FALSE]
        /\ UNCHANGED randFile
  /\ UNCHANGED <<config, buffers, serialFile, dataBase, history>>

\* The process is killed: what is in its buffers is gone.
Kill(r) ==
  /\ pc[r] \notin Idle
  /\ Go(r, "killed")
  /\ UNCHANGED <<config, ok, buffers, caFiles, history>>

Next ==
  \E r \in Runs :
    \/ ReadSignConfig(r) \/ Sign(r) \/ WriteCert(r) \/ Refuse(r)
    \/ IncrementSerial(r) \/ CertSignLog(r) \/ Issue(r) \/ BookkeepingFails(r)
    \/ CloseDataBase(r) \/ CloseSerialFile(r) \/ CloseRandFile(r) \/ Kill(r)

Spec == Init /\ [][Next]_vars

-----------------------------------------------------------------------------
Steps == {"sign", "signed", "written", "counted", "logged", "closeDataBase",
          "closeSerialFile", "closeRandFile"}

TypeOK ==
  /\ unique \in BOOLEAN /\ subject \in [Runs -> Subjects]
  /\ pc \in [Runs -> Idle \cup Steps] /\ ok \in [Runs -> BOOLEAN]
  /\ serial \in [Runs -> Nat \cup {None}] /\ next \in [Runs -> Nat \cup {None}]
  /\ line \in [Runs -> Subjects \cup {None}]
  /\ seed \in [Runs -> {None, "random"}]
  /\ serialFile \in Nat /\ dataBase \subseteq Subjects
  /\ randFile \in {None, "random"}
  /\ certs \subseteq [run : Runs, serial : Nat, subject : Subjects]
  /\ overlapped \in BOOLEAN /\ lost \subseteq Runs

Completed(r) == pc[r] = "done" /\ r \notin lost

\* Unless runs overlapped, a certificate that comes out never has the serial
\* number of one that a completed run issued, nor, where subjects have to be
\* unique, its subject: what CertSignFree left in the files is what the next
\* run goes by.
NewSerialAndSubject ==
  [][\A c \in certs' \ certs, d \in certs :
       Completed(d.run) /\ ~overlapped
       => c.serial # d.serial /\ (unique => c.subject # d.subject)]_vars

\* A run that reports success has left its subject in the data base and a
\* larger number in the serial file, and its certificate is out: a later run
\* finds both.  Runs that overlap may put the serial number back.
SuccessIsRecorded ==
  \A r \in Runs : Completed(r) =>
    /\ subject[r] \in dataBase
    /\ \E c \in certs : c.run = r
    /\ ~overlapped => serialFile > serial[r]

=============================================================================

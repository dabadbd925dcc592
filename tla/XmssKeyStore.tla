---------------------------- MODULE XmssKeyStore ----------------------------
(***************************************************************************)
(* The private key file of a stateful signature scheme, XMSS or XMSS^MT    *)
(* (src/src/genkey/clu_genkey.c, src/src/sign-verify/clu_sign.c).  The key *)
(* holds the index of the next one-time key.  "wolfssl -genkey xmss" makes *)
(* the file; each "wolfssl -xmss -sign" is a process that reads it, signs  *)
(* in memory with the index it found, has the advanced key written back    *)
(* over the old one, reads that again to compare, and only then writes the *)
(* signature out.  Signing twice with one index gives the key away.        *)
(*                                                                         *)
(* Nothing locks the file and nothing forces it to the disk, so processes  *)
(* may interleave and die anywhere, and the power may fail.                *)
(***************************************************************************)
EXTENDS Integers

CONSTANTS
  Signers,        \* processes that sign, each once
  Makers,         \* processes that make a key, each once; they name their keys
  PrivOnly,       \* the makers told to write the private key only
  Capacity,       \* one-time keys in the key that a maker makes
  MaxPowerLosses, \* bound on power failures
  Cut,            \* what is in a .pub file that is empty or cut off
  None

ASSUME ProcessesAssumption ==
  /\ Signers \cap Makers = {}
  /\ PrivOnly \subseteq Makers
  /\ None \notin Signers \cup Makers \cup {Cut}
  /\ Cut \notin Makers
ASSUME CapacityAssumption == Capacity \in [Makers -> Nat]
ASSUME PowerAssumption == MaxPowerLosses \in Nat

Procs == Signers \cup Makers

\* The file in two halves: the index and the seeds, which come first, and the
\* state of the tree, which a longer key has in a second write().  A half that
\* is not there has key None.
Halves == [key : Makers \cup {None}, idx : Nat]
Absent == [key |-> None, idx |-> 0]
Files == [head : Halves, tail : Halves]
NoKey == [head |-> Absent, tail |-> Absent]
Fresh(m) == [head |-> [key |-> m, idx |-> 0], tail |-> [key |-> m, idx |-> 0]]

VARIABLES
  pc,        \* where each process is
  mem,       \* the key each process holds in memory
  sig,       \* the one-time key a signer has used
  file,      \* the private key file
  disk,      \* what of it a power failure leaves
  pubFile,   \* the key whose public half is in the .pub file, or Cut
  pubDisk,   \* what of that a power failure leaves
  emitted,   \* history: the signatures written out
  overlapped,\* history: two processes were between reading and writing the file
  lostWrite, \* history: a power failure undid a write of the private key
  pubFault,  \* history: what became of the .pub file that was written last
  powerLosses

files == <<file, disk, pubFile, pubDisk>>
history == <<emitted, overlapped, lostWrite, pubFault, powerLosses>>
vars == <<pc, mem, sig, files, history>>

Init ==
  /\ pc = [p \in Procs |-> "start"]
  /\ mem = [p \in Procs |-> NoKey]
  /\ sig = [p \in Procs |-> Absent]
  /\ file = NoKey
  /\ disk = file
  /\ pubFile = None
  /\ pubDisk = pubFile
  /\ emitted = {}
  /\ overlapped = FALSE
  /\ lostWrite = FALSE
  /\ pubFault = "none"
  /\ powerLosses = 0

At(p, here) == pc[p] = here
Go(p, there) == pc' = [pc EXCEPT ![p] = there]
Running == {p \in Procs : pc[p] \notin {"start", "done", "failed"}}

\* A process ends, and what it had in memory is gone.
Ends(p, how) ==
  /\ Go(p, how)
  /\ mem' = [mem EXCEPT ![p] = NoKey]
  /\ sig' = [sig EXCEPT ![p] = Absent]

\* A signer that has read the file and not yet written it, a maker until it is done.
InFlight ==
  {p \in Procs : At(p, "loaded") \/ At(p, "updated") \/ At(p, "half")}
    \cup {m \in Makers : At(m, "written") \/ At(m, "saved") \/ At(m, "opened")}

Begin == overlapped' = (overlapped \/ InFlight # {})

-----------------------------------------------------------------------------
(***************************************************************************)
(* The beginnings: wolfCLU_sign_data_xmss(mt) and wolfCLU_genKey_XMSS.     *)
(***************************************************************************)

\* wc_XmssKey_Reload, which reads the file through wolfCLU_XmssKey_ReadCb.  A
\* file that is too short is refused; halves that do not match are not noticed.
Reload(p) ==
  /\ At(p, "start")
  /\ file.head.key # None /\ file.tail.key # None
  /\ mem' = [mem EXCEPT ![p] = file]
  /\ Begin
  /\ Go(p, "loaded")
  /\ UNCHANGED <<sig, files, emitted, lostWrite, pubFault, powerLosses>>

BadSignOn(p) == \* a key that is used up goes on signing
  /\ At(p, "loaded")
  /\ sig' = [sig EXCEPT ![p] = mem[p].head]
  /\ mem' = [mem EXCEPT ![p].head.idx = @ + 1, ![p].tail.idx = @ + 1]
  /\ Go(p, "updated")
  /\ UNCHANGED <<files, history>>

BadSignFirst(p) == \* the key is not advanced before it is saved
  /\ At(p, "loaded")
  /\ mem[p].head.idx < Capacity[mem[p].head.key]
  /\ sig' = [sig EXCEPT ![p] = mem[p].head]
  /\ Go(p, "updated")
  /\ UNCHANGED <<mem, files, history>>

\* wc_XmssKey_Sign: the next one-time key, unless they are used up.  The
\* advanced key goes to the write callback.
Sign(p) ==
  /\ At(p, "loaded")
  /\ mem[p].head.idx < Capacity[mem[p].head.key]
  /\ sig' = [sig EXCEPT ![p] = mem[p].head]
  /\ mem' = [mem EXCEPT ![p].head.idx = @ + 1, ![p].tail.idx = @ + 1]
  /\ Go(p, "updated")
  /\ UNCHANGED <<files, history>>

\* wc_XmssKey_MakeKey.
MakeKey(m) ==
  /\ At(m, "start")
  /\ mem' = [mem EXCEPT ![m] = Fresh(m)]
  /\ Begin
  /\ Go(m, "updated")
  /\ UNCHANGED <<sig, files, emitted, lostWrite, pubFault, powerLosses>>

-----------------------------------------------------------------------------
(***************************************************************************)
(* wolfCLU_XmssKey_WriteCb: the file is written in place, or created, then *)
(* read back and compared.                                                 *)
(***************************************************************************)
WriteHead(p) ==
  /\ At(p, "updated")
  /\ file' = [file EXCEPT !.head = mem[p].head]
  /\ Go(p, "half")
  /\ UNCHANGED <<mem, sig, disk, pubFile, pubDisk, history>>

WriteTail(p) ==
  /\ At(p, "half")
  /\ file' = [file EXCEPT !.tail = mem[p].tail]
  /\ Go(p, "written")
  /\ UNCHANGED <<mem, sig, disk, pubFile, pubDisk, history>>

ReadBack(p) ==
  /\ At(p, "written")
  /\ file = mem[p]
  /\ Go(p, "saved")
  /\ UNCHANGED <<mem, sig, files, history>>

-----------------------------------------------------------------------------
(***************************************************************************)
(* The endings.                                                            *)
(***************************************************************************)
BadEmit(p) == \* the signature is written before the key
  /\ At(p, "updated") \/ At(p, "saved")
  /\ emitted' = emitted \cup {[signer |-> p, key |-> sig[p].key, idx |-> sig[p].idx]}
  /\ Ends(p, "done")
  /\ UNCHANGED <<files, overlapped, lostWrite, pubFault, powerLosses>>

\* The signature goes to its file.
Emit(p) ==
  /\ At(p, "saved")
  /\ emitted' = emitted \cup {[signer |-> p, key |-> sig[p].key, idx |-> sig[p].idx]}
  /\ Ends(p, "done")
  /\ UNCHANGED <<files, overlapped, lostWrite, pubFault, powerLosses>>

BadOpenPub(m) == \* an existing public key is kept
  /\ At(m, "saved")
  /\ IF m \in PrivOnly \/ pubFile \in Makers
     THEN Ends(m, "done") /\ UNCHANGED pubFile
     ELSE Go(m, "opened") /\ pubFile' = Cut /\ UNCHANGED <<mem, sig>>
  /\ UNCHANGED <<file, disk, pubDisk, history>>

\* The .pub file is opened, which empties it, unless the maker has been told to
\* write the private key only: it is then done.
OpenPub(m) ==
  /\ At(m, "saved")
  /\ IF m \in PrivOnly
     THEN Ends(m, "done") /\ UNCHANGED pubFile
     ELSE Go(m, "opened") /\ pubFile' = Cut /\ UNCHANGED <<mem, sig>>
  /\ UNCHANGED <<file, disk, pubDisk, history>>

\* The public half is written and the file closed.  A short write counts as
\* one, and nobody looks at what closing the file says: whatever is lost, the
\* maker reports success.
WritePub(m) ==
  /\ At(m, "opened")
  /\ pubFile' \in {m, Cut, pubFile}
  /\ pubFault' = IF pubFile' = m THEN "none" ELSE "lost"
  /\ Ends(m, "done")
  /\ UNCHANGED <<file, disk, pubDisk, emitted, overlapped, lostWrite, powerLosses>>

\* The process is killed, or one of the calls fails whose result it looks at:
\* memory, a key that is used up, a comparison, opening a file, reading or
\* writing the private key.  It then ends with an error and no signature; the
\* files stay as they are, and a .pub file that was opened is empty.
Fail(p) ==
  /\ pc[p] \notin {"done", "failed"}
  /\ Ends(p, "failed")
  /\ UNCHANGED <<files, history>>

\* The kernel writes the files back when it likes, one before the other.
Flush ==
  /\ \/ disk # file /\ disk' = file /\ UNCHANGED pubDisk
     \/ pubDisk # pubFile /\ pubDisk' = pubFile /\ UNCHANGED disk
  /\ UNCHANGED <<pc, mem, sig, file, pubFile, history>>

PowerLoss ==
  /\ powerLosses < MaxPowerLosses
  /\ powerLosses' = powerLosses + 1
  /\ file' = disk
  /\ pubFile' = pubDisk
  /\ lostWrite' = (lostWrite \/ disk # file)
  /\ pubFault' = IF pubDisk # pubFile THEN "power" ELSE pubFault
  /\ pc' = [p \in Procs |-> IF p \in Running THEN "failed" ELSE pc[p]]
  /\ mem' = [p \in Procs |-> NoKey]
  /\ sig' = [p \in Procs |-> Absent]
  /\ UNCHANGED <<disk, pubDisk, emitted, overlapped>>

-----------------------------------------------------------------------------
Next ==
  \/ \E p \in Signers : Reload(p) \/ Sign(p) \/ Emit(p)
  \/ \E m \in Makers : MakeKey(m) \/ OpenPub(m) \/ WritePub(m)
  \/ \E p \in Procs : WriteHead(p) \/ WriteTail(p) \/ ReadBack(p) \/ Fail(p)
  \/ Flush
  \/ PowerLoss

Spec == Init /\ [][Next]_vars

-----------------------------------------------------------------------------
(***************************************************************************)
(* Properties.                                                             *)
(***************************************************************************)

\* Every variable stays in its type.
TypeOK ==
  /\ pc \in [Procs -> {"start", "loaded", "updated", "half", "written", "saved", "opened",
                       "done", "failed"}]
  /\ mem \in [Procs -> Files]
  /\ sig \in [Procs -> Halves]
  /\ file \in Files /\ disk \in Files
  /\ {pubFile, pubDisk} \subseteq Makers \cup {None, Cut}
  /\ emitted \subseteq [signer : Signers, key : Makers, idx : Nat]
  /\ \A e \in emitted : e.idx < Capacity[e.key]
  /\ overlapped \in BOOLEAN /\ lostWrite \in BOOLEAN
  /\ pubFault \in {"none", "lost", "power"}
  /\ powerLosses \in Nat

Unique == \A e, f \in emitted : e.key = f.key /\ e.idx = f.idx => e = f

\* No one-time key signs twice, wherever signers die, writes tear, calls fail
\* and new keys are made over the old, as long as no two processes overlap and
\* no power failure undoes a write.
OneTimeKeysOnce == ~overlapped /\ ~lostWrite => Unique

\* The signatures given out are behind the index in the file, so that the next
\* signer cannot come upon their keys.
FileIsAhead ==
  ~overlapped /\ ~lostWrite =>
    \A e \in emitted : e.key = file.head.key => e.idx < file.head.idx

\* Makers that run one after another, each to its end, leave a private and a
\* public key file that belong together, whatever was there before.  If the
\* last of them lost its write of the public half, which it does not notice,
\* that file is cut off and not another key's; after a power failure before
\* the public half is on the disk nothing is said of it.
KeyPairMatches ==
  (/\ ~overlapped /\ ~lostWrite
   /\ \A m \in Makers : pc[m] \in {"start", "done"}
   /\ \A m \in PrivOnly : At(m, "start"))
    => /\ file.tail.key = file.head.key
       /\ pubFault = "none" => pubFile = file.head.key
       /\ pubFault = "lost" => pubFile = Cut

\* What wolfCLU_XmssKey_WriteCb says it makes sure of, and reports as saved to
\* non-volatile memory: the used index is not met again after a power failure.
SavedIsPersistent == ~overlapped => Unique
=============================================================================

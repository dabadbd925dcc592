------------------------- MODULE XmssKeyStore_proofs -------------------------
(***************************************************************************)
(* That no one-time key of a stateful key signs twice, for any number of   *)
(* signers, makers, one-time keys and power failures.                      *)
(***************************************************************************)
EXTENDS XmssKeyStore, TLAPS

\* Nothing has gone wrong that the program does not defend against.
Calm == ~overlapped /\ ~lostWrite

\* Signers whose one-time key is used, and counted in the file.
Counted == {p \in Signers : At(p, "half") \/ At(p, "written") \/ At(p, "saved")}

\* A process that may still write the file, or has to, is the only one.
Exclusive == Calm => \A p, q \in InFlight : p = q

\* What a signer has in memory is what the file says, until it writes it.
Held ==
  Calm =>
    \A p \in Signers :
      /\ At(p, "loaded") => mem[p].head = file.head
      /\ At(p, "updated") =>
           /\ sig[p] = file.head
           /\ mem[p].head = [key |-> sig[p].key, idx |-> sig[p].idx + 1]

\* A signer has a key some maker made, and a one-time key of it.
HasKey ==
  \A p \in Signers :
    /\ At(p, "loaded") \/ At(p, "updated") => mem[p].head.key # None
    /\ At(p, "updated") \/ p \in Counted => sig[p].key # None /\ sig[p].idx < Capacity[sig[p].key]

\* The keys that have left the memory of their makers.
Known ==
  {file.head.key, disk.head.key} \cup {e.key : e \in emitted}
    \cup {sig[p].key : p \in Signers} \cup {mem[p].head.key : p \in Signers}

Unborn == \A m \in Makers : At(m, "start") \/ At(m, "updated") => m \notin Known

\* A maker that is about to write has its own key.
Made == \A m \in Makers : At(m, "updated") => mem[m].head = [key |-> m, idx |-> 0]

\* The one-time keys that are used, given out or not, are behind the file, and
\* no two of them are the same.
Behind ==
  Calm =>
    /\ \A e \in emitted : e.key = file.head.key => e.idx < file.head.idx
    /\ \A p \in Counted : sig[p].key = file.head.key => sig[p].idx < file.head.idx

Distinct ==
  Calm =>
    /\ Unique
    /\ \A p \in Counted : \A e \in emitted : ~(e.key = sig[p].key /\ e.idx = sig[p].idx)
    /\ \A p, q \in Counted : sig[p] = sig[q] => p = q

IInv == TypeOK /\ HasKey /\ Made /\ Unborn /\ Exclusive /\ Held /\ Behind /\ Distinct

-----------------------------------------------------------------------------
\* A signer reads the file.
LEMMA ReloadStep == ASSUME IInv, NEW p \in Signers, Reload(p) PROVE IInv'
<1> USE ProcessesAssumption, CapacityAssumption DEF IInv, Reload, Procs, At, Go, Begin, files
<1>1. TypeOK'
  BY DEF TypeOK, HasKey, Counted, Absent, NoKey, Files, Halves
<1>2. HasKey'
  BY DEF TypeOK, HasKey, Counted, Files, Halves
<1>3. Unborn'
  <2>1. Known' \subseteq Known \cup {None}
    BY DEF Known, TypeOK
  <2>2. \A m \in Makers : (At(m, "start") \/ At(m, "updated"))' =>
                           At(m, "start") \/ At(m, "updated")
    BY DEF TypeOK
  <2> QED BY <2>1, <2>2 DEF Unborn
<1>4. Exclusive'
  BY DEF TypeOK, Exclusive, Calm, InFlight
<1>5. Held'
  BY DEF TypeOK, Held, Exclusive, InFlight, Calm, Files, Halves
<1>6. Behind'
  BY DEF TypeOK, Behind, Calm, Counted, Files, Halves
<1>7. Distinct'
  BY DEF TypeOK, Distinct, Unique, Calm, Counted, Files, Halves
<1>8. Made'
  BY DEF TypeOK, Made
<1> QED BY <1>1, <1>2, <1>3, <1>4, <1>5, <1>6, <1>7, <1>8

\* It signs with the one-time key it found.
LEMMA SignStep == ASSUME IInv, NEW p \in Signers, Sign(p) PROVE IInv'
<1> USE ProcessesAssumption, CapacityAssumption DEF IInv, Sign, Procs, At, Go, history, files
<1>1. TypeOK'
  BY DEF TypeOK, HasKey, Counted, Absent, NoKey, Files, Halves
<1>2. HasKey'
  BY DEF TypeOK, HasKey, Counted, Files, Halves, Held
<1>3. Unborn'
  <2>1. Known' \subseteq Known \cup {None}
    <3>1. \A q \in Signers : mem'[q].head.key = mem[q].head.key
      BY DEF TypeOK, Files, Halves
    <3>2. \A q \in Signers : sig'[q] = sig[q] \/ sig'[q].key = mem[p].head.key
      BY DEF TypeOK
    <3>3. UNCHANGED <<file, disk, emitted>>
      OBVIOUS
    <3> HIDE DEF IInv, Sign
    <3> QED BY <3>1, <3>2, <3>3 DEF Known
  <2>2. \A m \in Makers : (At(m, "start") \/ At(m, "updated"))' =>
                           At(m, "start") \/ At(m, "updated")
    BY DEF TypeOK
  <2> QED BY <2>1, <2>2 DEF Unborn
<1>4. Exclusive'
  BY DEF TypeOK, Exclusive, Calm, InFlight
<1>5. Held'
  BY DEF TypeOK, Held, Exclusive, InFlight, Calm, Files, Halves
<1>6. Behind'
  BY DEF TypeOK, Behind, Calm, Counted, Files, Halves
<1>7. Distinct'
  BY DEF TypeOK, Distinct, Unique, Calm, Counted, Files, Halves
<1>8. Made'
  BY DEF TypeOK, Made, Files
<1> QED BY <1>1, <1>2, <1>3, <1>4, <1>5, <1>6, <1>7, <1>8

\* Its signature goes out.
LEMMA EmitStep == ASSUME IInv, NEW p \in Signers, Emit(p) PROVE IInv'
<1> USE ProcessesAssumption, CapacityAssumption DEF IInv, Emit, Procs, At, Go, Ends, files
<1>1. TypeOK'
  BY DEF TypeOK, HasKey, Counted, Absent, NoKey, Files, Halves
<1>2. HasKey'
  BY DEF TypeOK, HasKey, Counted, Files, Halves
<1>3. Unborn'
  <2>1. Known' \subseteq Known \cup {None}
    <3>1. \A q \in Signers : /\ sig'[q] = sig[q] \/ sig'[q].key = None
                             /\ mem'[q] = mem[q] \/ mem'[q].head.key = None
      BY DEF TypeOK, NoKey, Absent
    <3>2. \A e \in emitted' : e \in emitted \/ e.key = sig[p].key
      OBVIOUS
    <3> QED BY <3>1, <3>2 DEF Known
  <2>2. \A m \in Makers : (At(m, "start") \/ At(m, "updated"))' =>
                           At(m, "start") \/ At(m, "updated")
    BY DEF TypeOK
  <2> QED BY <2>1, <2>2 DEF Unborn
<1>4. Exclusive'
  BY DEF TypeOK, Exclusive, Calm, InFlight
<1>5. Held'
  BY DEF TypeOK, Held, Exclusive, InFlight, Calm, Files, Halves
<1>6. Behind'
  BY DEF TypeOK, Behind, Calm, Counted, Files, Halves
<1>7. Distinct'
  <2> DEFINE new == [signer |-> p, key |-> sig[p].key, idx |-> sig[p].idx]
  <2>1. emitted' = emitted \cup {new} /\ p \in Counted
    BY DEF Counted
  <2>2. new.key = sig[p].key /\ new.idx = sig[p].idx
    OBVIOUS
  <2>3. \A q \in Signers : q \in Counted' => q \in Counted /\ q # p /\ sig'[q] = sig[q]
    BY DEF TypeOK, Counted
  <2>4. \A q \in Signers : sig[q] = [key |-> sig[q].key, idx |-> sig[q].idx]
    BY DEF TypeOK, Halves
  <2>5. Counted' \subseteq Signers /\ Counted \subseteq Signers /\ (Calm' => Calm)
    BY DEF Counted, Calm
  <2> HIDE DEF new, IInv, Emit
  <2>6. Distinct
    BY DEF IInv
  <2>7. Calm' => Unique'
    BY <2>1, <2>2, <2>5, <2>6 DEF Distinct, Unique
  <2>8. Calm' => \A q \in Counted' : \A e \in emitted' :
                   ~(e.key = sig'[q].key /\ e.idx = sig'[q].idx)
    <3>1. \A q \in Counted : ~(new.key = sig[q].key /\ new.idx = sig[q].idx) \/ q = p \/ ~Calm
      BY <2>2, <2>4, <2>5, <2>6, <2>1 DEF Distinct
    <3> QED BY <2>1, <2>3, <2>5, <2>6, <3>1 DEF Distinct
  <2>9. Calm' => \A q, r \in Counted' : sig'[q] = sig'[r] => q = r
    BY <2>3, <2>5, <2>6 DEF Distinct
  <2> QED BY <2>7, <2>8, <2>9 DEF Distinct
<1>8. Made'
  BY DEF TypeOK, Made
<1> QED BY <1>1, <1>2, <1>3, <1>4, <1>5, <1>6, <1>7, <1>8

\* A maker makes its key.
LEMMA MakeKeyStep == ASSUME IInv, NEW m \in Makers, MakeKey(m) PROVE IInv'
<1> USE ProcessesAssumption, CapacityAssumption DEF IInv, MakeKey, Procs, At, Go, Fresh, Begin, files
<1>1. TypeOK'
  BY DEF TypeOK, HasKey, Counted, Absent, NoKey, Files, Halves
<1>2. HasKey'
  BY DEF TypeOK, HasKey, Counted, Files, Halves
<1>3. Unborn'
  <2>1. Known' \subseteq Known \cup {None}
    BY DEF Known, TypeOK, Files, Halves
  <2>2. \A k \in Makers : (At(k, "start") \/ At(k, "updated"))' =>
                           At(k, "start") \/ At(k, "updated")
    BY DEF TypeOK
  <2> QED BY <2>1, <2>2 DEF Unborn
<1>4. Exclusive'
  BY DEF TypeOK, Exclusive, Calm, InFlight
<1>5. Held'
  BY DEF TypeOK, Held, Exclusive, InFlight, Calm, Files, Halves
<1>6. Behind'
  BY DEF TypeOK, Behind, Calm, Counted, Files, Halves
<1>7. Distinct'
  BY DEF TypeOK, Distinct, Unique, Calm, Counted, Files, Halves
<1>8. Made'
  BY DEF TypeOK, Made
<1> QED BY <1>1, <1>2, <1>3, <1>4, <1>5, <1>6, <1>7, <1>8

\* It opens the public file, or is done.
LEMMA OpenPubStep == ASSUME IInv, NEW m \in Makers, OpenPub(m) PROVE IInv'
<1> USE ProcessesAssumption, CapacityAssumption DEF IInv, OpenPub, Procs, At, Go, Ends, history
<1>0. /\ pc' \in {[pc EXCEPT ![m] = "done"], [pc EXCEPT ![m] = "opened"]}
      /\ mem' \in {mem, [mem EXCEPT ![m] = NoKey]} /\ sig' \in {sig, [sig EXCEPT ![m] = Absent]}
      /\ pubFile' \in {pubFile, Cut}
      /\ At(m, "saved")
      /\ UNCHANGED <<file, disk, pubDisk, emitted, overlapped, lostWrite, pubFault, powerLosses>>
  BY Zenon
<1> HIDE DEF OpenPub
<1> USE <1>0
<1>1. TypeOK'
  <2>1. pc' \in [Procs -> {"start", "loaded", "updated", "half", "written", "saved", "opened",
                          "done", "failed"}]
    BY DEF TypeOK
  <2>2. mem' \in [Procs -> Files] /\ sig' \in [Procs -> Halves]
    <3>1. NoKey \in Files /\ Absent \in Halves
      BY DEF Absent, NoKey, Files, Halves
    <3> QED BY <3>1 DEF TypeOK
  <2>3. {pubFile, pubDisk}' \subseteq Makers \cup {None, Cut}
    BY DEF TypeOK
  <2> QED BY <2>1, <2>2, <2>3 DEF TypeOK
<1>2. HasKey'
  BY DEF TypeOK, HasKey, Counted, Files, Halves
<1>3. Unborn'
  <2>1. Known' \subseteq Known \cup {None}
    <3>1. \A q \in Signers : /\ sig'[q] = sig[q] \/ sig'[q].key = None
                             /\ mem'[q] = mem[q] \/ mem'[q].head.key = None
      BY DEF TypeOK, NoKey, Absent
    <3> QED BY <3>1 DEF Known
  <2>2. \A k \in Makers : (At(k, "start") \/ At(k, "updated"))' =>
                           At(k, "start") \/ At(k, "updated")
    BY DEF TypeOK
  <2> QED BY <2>1, <2>2 DEF Unborn
<1>4. Exclusive'
  <2>1. InFlight' \subseteq InFlight /\ InFlight \subseteq Procs
    BY DEF TypeOK, InFlight
  <2> QED BY <2>1 DEF Exclusive, Calm
<1>5. Held'
  BY DEF TypeOK, Held, Exclusive, InFlight, Calm, Files, Halves
<1>6. Behind'
  BY DEF TypeOK, Behind, Calm, Counted, Files, Halves
<1>7. Distinct'
  <2>1. \A q \in Signers : sig'[q] = sig[q]
    BY DEF TypeOK
  <2>2. Counted' = Counted /\ Counted \subseteq Signers
    BY DEF TypeOK, Counted
  <2> QED BY <2>1, <2>2 DEF Distinct, Unique, Calm
<1>8. Made'
  BY DEF TypeOK, Made
<1> QED BY <1>1, <1>2, <1>3, <1>4, <1>5, <1>6, <1>7, <1>8

\* It writes the public half.
LEMMA WritePubStep == ASSUME IInv, NEW m \in Makers, WritePub(m) PROVE IInv'
<1> USE ProcessesAssumption, CapacityAssumption DEF IInv, WritePub, Procs, At, Go, Ends
<1>1. TypeOK'
  BY DEF TypeOK, HasKey, Counted, Absent, NoKey, Files, Halves
<1>2. HasKey'
  BY DEF TypeOK, HasKey, Counted, Files, Halves
<1>3. Unborn'
  <2>1. Known' \subseteq Known \cup {None}
    <3>1. \A q \in Signers : /\ sig'[q] = sig[q] \/ sig'[q].key = None
                             /\ mem'[q] = mem[q] \/ mem'[q].head.key = None
      BY DEF TypeOK, NoKey, Absent
    <3> QED BY <3>1 DEF Known
  <2>2. \A k \in Makers : (At(k, "start") \/ At(k, "updated"))' =>
                           At(k, "start") \/ At(k, "updated")
    BY DEF TypeOK
  <2> QED BY <2>1, <2>2 DEF Unborn
<1>4. Exclusive'
  BY DEF TypeOK, Exclusive, Calm, InFlight
<1>5. Held'
  BY DEF TypeOK, Held, Exclusive, InFlight, Calm, Files, Halves
<1>6. Behind'
  BY DEF TypeOK, Behind, Calm, Counted, Files, Halves
<1>7. Distinct'
  BY DEF TypeOK, Distinct, Unique, Calm, Counted, Files, Halves
<1>8. Made'
  BY DEF TypeOK, Made
<1> QED BY <1>1, <1>2, <1>3, <1>4, <1>5, <1>6, <1>7, <1>8

\* The first write puts the used key behind the file, or a new key in its place.
LEMMA WriteHeadStep == ASSUME IInv, NEW p \in Procs, WriteHead(p) PROVE IInv'
<1> USE ProcessesAssumption, CapacityAssumption DEF IInv, WriteHead, Procs, At, Go, history
<1>1. TypeOK'
  BY DEF TypeOK, HasKey, Counted, Absent, NoKey, Files, Halves
<1>2. HasKey'
  BY DEF TypeOK, HasKey, Counted, Files, Halves
<1>3. Unborn'
  <2>1. Known' \subseteq Known \cup {None, p}
    <3>1. file'.head = mem[p].head
      BY DEF TypeOK, Files
    <3>2. CASE p \in Signers
      BY <3>1, <3>2 DEF Known
    <3>3. CASE p \in Makers
      <4>1. mem[p].head = [key |-> p, idx |-> 0]
        BY <3>3 DEF Made
      <4> QED BY <3>1, <4>1 DEF Known
    <3> QED BY <3>2, <3>3
  <2>2. \A m \in Makers : (At(m, "start") \/ At(m, "updated"))' =>
                           At(m, "start") \/ At(m, "updated")
    BY DEF TypeOK
  <2>3. ~(At(p, "start") \/ At(p, "updated"))'
    BY DEF TypeOK
  <2> QED BY <2>1, <2>2, <2>3 DEF Unborn
<1>4. Exclusive'
  BY DEF TypeOK, Exclusive, Calm, InFlight
<1>5. Held'
  BY DEF TypeOK, Held, Exclusive, InFlight, Calm, Files, Halves
<1>6. file'.head = mem[p].head
  BY DEF TypeOK, Files
<1>7. Counted' = Counted \cup (Signers \cap {p})
  BY DEF TypeOK, Counted
<1>8. \A q \in Counted : sig[q].key \in Makers /\ sig[q].idx \in Nat
  BY DEF TypeOK, HasKey, Counted, Halves
<1>9. Behind'
  <2>1. CASE p \in Signers
    <3>1. Calm => /\ sig[p] = file.head
                  /\ file'.head = [key |-> sig[p].key, idx |-> sig[p].idx + 1]
      BY <2>1, <1>6 DEF Held
    <3>2. file.head.idx \in Nat
      BY DEF TypeOK, Files, Halves
    <3>3. \A e \in emitted : e.idx \in Nat
      BY DEF TypeOK
    <3> QED BY <3>1, <3>2, <3>3, <1>7, <1>8 DEF Behind, Calm
  <2>2. CASE p \in Makers
    <3>1. file'.head.key = p
      <4>1. mem[p].head = [key |-> p, idx |-> 0]
        BY <2>2 DEF Made
      <4> QED BY <1>6, <4>1
    <3>2. (\A e \in emitted : e.key # p) /\ \A q \in Signers : sig[q].key # p
      BY <2>2 DEF Unborn, Known
    <3> QED BY <2>2, <3>1, <3>2, <1>7 DEF Behind, Calm, Counted
  <2> QED BY <2>1, <2>2
<1>10. Distinct'
  <2>1. CASE p \in Signers
    <3>1. Calm => sig[p] = file.head
      BY <2>1 DEF Held
    <3>2. file.head.idx \in Nat
      BY DEF TypeOK, Files, Halves
    <3>3. \A e \in emitted : e.idx \in Nat
      BY DEF TypeOK
    <3>4. Calm => \A e \in emitted : ~(e.key = sig[p].key /\ e.idx = sig[p].idx)
      BY <3>1, <3>2, <3>3 DEF Behind
    <3>5. Calm => \A q \in Counted : sig[q] # sig[p]
      BY <3>1, <3>2, <1>8 DEF Behind
    <3> QED BY <3>4, <3>5, <1>7 DEF Distinct, Unique, Calm
  <2>2. CASE p \in Makers
    BY <2>2, <1>7 DEF Distinct, Unique, Calm
  <2> QED BY <2>1, <2>2
<1>11. Made'
  BY DEF TypeOK, Made
<1> QED BY <1>1, <1>2, <1>3, <1>4, <1>5, <1>9, <1>10, <1>11

\* The second write changes nothing that counts.
LEMMA WriteTailStep == ASSUME IInv, NEW p \in Procs, WriteTail(p) PROVE IInv'
<1> USE ProcessesAssumption, CapacityAssumption DEF IInv, WriteTail, Procs, At, Go, history
<1>1. TypeOK'
  BY DEF TypeOK, HasKey, Counted, Absent, NoKey, Files, Halves
<1>2. HasKey'
  BY DEF TypeOK, HasKey, Counted, Files, Halves
<1>3. Unborn'
  <2>1. Known' \subseteq Known \cup {None}
    BY DEF Known, TypeOK, Files
  <2>2. \A m \in Makers : (At(m, "start") \/ At(m, "updated"))' =>
                           At(m, "start") \/ At(m, "updated")
    BY DEF TypeOK
  <2> QED BY <2>1, <2>2 DEF Unborn
<1>4. Exclusive'
  BY DEF TypeOK, Exclusive, Calm, InFlight
<1>5. Held'
  BY DEF TypeOK, Held, Exclusive, InFlight, Calm, Files, Halves
<1>6. Behind'
  BY DEF TypeOK, Behind, Calm, Counted, Files, Halves
<1>7. Distinct'
  BY DEF TypeOK, Distinct, Unique, Calm, Counted, Files, Halves
<1>8. Made'
  BY DEF TypeOK, Made
<1> QED BY <1>1, <1>2, <1>3, <1>4, <1>5, <1>6, <1>7, <1>8

\* Neither does the comparison.
LEMMA ReadBackStep == ASSUME IInv, NEW p \in Procs, ReadBack(p) PROVE IInv'
<1> USE ProcessesAssumption, CapacityAssumption DEF IInv, ReadBack, Procs, At, Go, history, files
<1>1. TypeOK'
  BY DEF TypeOK, HasKey, Counted, Absent, NoKey, Files, Halves
<1>2. HasKey'
  BY DEF TypeOK, HasKey, Counted, Files, Halves
<1>3. Unborn'
  <2>1. Known' \subseteq Known \cup {None}
    BY DEF Known, TypeOK, Files, Halves
  <2>2. \A m \in Makers : (At(m, "start") \/ At(m, "updated"))' =>
                           At(m, "start") \/ At(m, "updated")
    BY DEF TypeOK
  <2> QED BY <2>1, <2>2 DEF Unborn
<1>4. Exclusive'
  BY DEF TypeOK, Exclusive, Calm, InFlight
<1>5. Held'
  BY DEF TypeOK, Held, Exclusive, InFlight, Calm, Files, Halves
<1>6. Behind'
  BY DEF TypeOK, Behind, Calm, Counted, Files, Halves
<1>7. Distinct'
  BY DEF TypeOK, Distinct, Unique, Calm, Counted, Files, Halves
<1>8. Made'
  BY DEF TypeOK, Made
<1> QED BY <1>1, <1>2, <1>3, <1>4, <1>5, <1>6, <1>7, <1>8

\* A process that fails forgets what it held.
LEMMA FailStep == ASSUME IInv, NEW p \in Procs, Fail(p) PROVE IInv'
<1> USE ProcessesAssumption, CapacityAssumption DEF IInv, Fail, Procs, At, Go, Ends, history, files
<1>1. TypeOK'
  BY DEF TypeOK, HasKey, Counted, Absent, NoKey, Files, Halves
<1>2. HasKey'
  BY DEF TypeOK, HasKey, Counted, Files, Halves
<1>3. Unborn'
  <2>1. Known' \subseteq Known \cup {None}
    <3>1. \A q \in Signers : /\ sig'[q] = sig[q] \/ sig'[q].key = None
                             /\ mem'[q] = mem[q] \/ mem'[q].head.key = None
      BY DEF TypeOK, NoKey, Absent
    <3> QED BY <3>1 DEF Known
  <2>2. \A m \in Makers : (At(m, "start") \/ At(m, "updated"))' =>
                           At(m, "start") \/ At(m, "updated")
    BY DEF TypeOK
  <2> QED BY <2>1, <2>2 DEF Unborn
<1>4. Exclusive'
  BY DEF TypeOK, Exclusive, Calm, InFlight
<1>5. Held'
  BY DEF TypeOK, Held, Exclusive, InFlight, Calm, Files, Halves
<1>6. Behind'
  BY DEF TypeOK, Behind, Calm, Counted, Files, Halves
<1>7. Distinct'
  BY DEF TypeOK, Distinct, Unique, Calm, Counted, Files, Halves
<1>8. Made'
  BY DEF TypeOK, Made
<1> QED BY <1>1, <1>2, <1>3, <1>4, <1>5, <1>6, <1>7, <1>8

\* The kernel writes the file to the disk.
LEMMA FlushStep == ASSUME IInv, Flush PROVE IInv'
<1> USE ProcessesAssumption DEF IInv, Flush, At, history
<1>1. TypeOK'
  BY DEF TypeOK
<1>2. HasKey' /\ Exclusive' /\ Held' /\ Behind' /\ Distinct'
  BY DEF HasKey, Exclusive, InFlight, Held, Behind, Distinct, Unique, Calm, Counted
<1>3. Unborn' /\ Made'
  BY DEF Unborn, Known, Made
<1> QED BY <1>1, <1>2, <1>3

\* The power fails: every process is gone, and if nothing was lost the file is
\* what it was.
LEMMA PowerLossStep == ASSUME IInv, PowerLoss PROVE IInv'
<1> USE ProcessesAssumption DEF IInv, PowerLoss, Procs, At
<1>1. TypeOK'
  BY DEF TypeOK, Running, NoKey, Absent, Files, Halves
<1>2. \A p \in Procs : pc'[p] \in {"start", "done", "failed"} /\ (At(p, "start"))' = At(p, "start")
  BY DEF TypeOK, Running
<1>3. HasKey' /\ Exclusive' /\ Held'
  BY <1>2 DEF HasKey, Exclusive, InFlight, Held, Counted
<1>4. Unborn'
  <2>1. \A p \in Signers : sig'[p].key = None /\ mem'[p].head.key = None
    BY DEF NoKey, Absent
  <2>2. Known' \subseteq Known \cup {None}
    BY <2>1 DEF Known
  <2> QED BY <1>2, <2>2 DEF Unborn
<1>8. Made'
  BY <1>2 DEF Made
<1>5. Calm' => Calm /\ file' = file
  BY DEF Calm, TypeOK
<1>6. Counted' = {}
  BY <1>2 DEF Counted
<1>7. Behind' /\ Distinct'
  BY <1>5, <1>6 DEF Behind, Distinct, Unique
<1> QED BY <1>1, <1>3, <1>4, <1>7, <1>8

-----------------------------------------------------------------------------
\* Every reachable state satisfies the inductive invariant.
THEOREM Invariance == Spec => []IInv
<1> USE ProcessesAssumption, CapacityAssumption, PowerAssumption
<1>1. Init => IInv
  <2> SUFFICES ASSUME Init PROVE IInv
    OBVIOUS
  <2> USE DEF Init, Procs, At, NoKey, Absent
  <2>1. TypeOK
    BY DEF TypeOK, Files, Halves
  <2>2. InFlight = {} /\ Counted = {}
    BY DEF InFlight, Counted
  <2>3. HasKey /\ Exclusive /\ Held
    BY <2>2 DEF HasKey, Exclusive, Held
  <2>4. Unborn /\ Made /\ Behind /\ Distinct
    BY <2>2 DEF Unborn, Known, Made, Behind, Distinct, Unique
  <2> QED BY <2>1, <2>3, <2>4 DEF IInv
<1>2. IInv /\ [Next]_vars => IInv'
  <2> SUFFICES ASSUME IInv, [Next]_vars PROVE IInv'
    OBVIOUS
  <2>1. CASE \E p \in Signers : Reload(p) \/ Sign(p) \/ Emit(p)
    BY <2>1, ReloadStep, SignStep, EmitStep
  <2>2. CASE \E m \in Makers : MakeKey(m) \/ OpenPub(m) \/ WritePub(m)
    BY <2>2, MakeKeyStep, OpenPubStep, WritePubStep
  <2>3. CASE \E p \in Procs : WriteHead(p) \/ WriteTail(p) \/ ReadBack(p) \/ Fail(p)
    BY <2>3, WriteHeadStep, WriteTailStep, ReadBackStep, FailStep
  <2>4. CASE Flush
    BY <2>4, FlushStep
  <2>5. CASE PowerLoss
    BY <2>5, PowerLossStep
  <2>6. CASE UNCHANGED vars
    BY <2>6 DEF IInv, TypeOK, HasKey, Made, Unborn, Known, Exclusive, Held, Behind, Distinct, Unique, Calm,
                InFlight, Counted, At, vars, files, history
  <2> QED BY <2>1, <2>2, <2>3, <2>4, <2>5, <2>6 DEF Next
<1> QED BY <1>1, <1>2, PTL DEF Spec

\* Every variable stays in its type; in particular each signature that is given
\* out is made with a one-time key of a key that some maker made.
THEOREM TypeCorrect == Spec => []TypeOK
<1>1. IInv => TypeOK
  BY DEF IInv
<1> QED BY <1>1, Invariance, PTL

\* wolfCLU_sign_data_xmss: however many processes sign, fail and make new keys,
\* no one-time key is used for two signatures while no two of them overlap and
\* no power failure undoes a write.
THEOREM NoKeyTwice == Spec => []OneTimeKeysOnce
<1>1. IInv => OneTimeKeysOnce
  BY DEF IInv, Distinct, Calm, OneTimeKeysOnce
<1> QED BY <1>1, Invariance, PTL

\* wolfCLU_XmssKey_WriteCb: the file is ahead of every signature given out.
THEOREM Ahead == Spec => []FileIsAhead
<1>1. IInv => FileIsAhead
  BY DEF IInv, Behind, Calm, FileIsAhead
<1> QED BY <1>1, Invariance, PTL

-----------------------------------------------------------------------------
(* The private and the public file, while every maker there was has come to *)
(* its end and wrote both.                                                  *)
Completed ==
  /\ Calm
  /\ \A m \in Makers : ~At(m, "failed")
  /\ \A m \in PrivOnly : At(m, "start")

\* A maker's key is its own in both halves until it is written.
Whole ==
  \A m \in Makers : At(m, "updated") \/ At(m, "half") =>
    mem[m].head.key = m /\ mem[m].tail.key = m

\* The file's halves and the public key belong together but for a maker on its
\* way, and a signer writes back the key it found.
Paired ==
  Completed =>
    /\ (\A m \in Makers : m \notin InFlight) =>
         /\ file.tail.key = file.head.key
         /\ pubFault = "none" => pubFile = file.head.key
         /\ pubFault = "lost" => pubFile = Cut
    /\ \A m \in Makers :
         /\ At(m, "half") => file.head.key = m
         /\ At(m, "written") \/ At(m, "saved") \/ At(m, "opened") =>
              file.head.key = m /\ file.tail.key = m
         /\ At(m, "opened") => pubFile = Cut
    /\ \A p \in Signers : At(p, "loaded") \/ At(p, "updated") \/ At(p, "half") =>
         mem[p].head.key = file.head.key /\ mem[p].tail.key = file.head.key

\* No step undoes what makes the keys belong together.
LEMMA PairedStep ==
  ASSUME IInv, Whole, Paired, [Next]_vars
  PROVE  Whole' /\ Paired'
<1> USE ProcessesAssumption DEF Procs
<1>1. TypeOK /\ Exclusive
  BY DEF IInv
<1>2. CASE \E p \in Signers : Reload(p)
  <2>1. PICK p \in Signers : Reload(p)
    BY <1>2
  <2> USE <1>1, <2>1 DEF Reload, At, Go, Begin, files, TypeOK
  <2>2. Whole'
    BY DEF Whole
  <2>3. Paired'
    BY DEF Paired, Completed, Calm, InFlight
  <2> QED BY <2>2, <2>3
<1>3. CASE \E p \in Signers : Sign(p)
  <2>1. PICK p \in Signers : Sign(p)
    BY <1>3
  <2> USE <1>1, <2>1 DEF Sign, At, Go, files, history, TypeOK, Files, Halves
  <2>2. Whole'
    BY DEF Whole
  <2>3. Paired'
    BY DEF Paired, Completed, Calm, InFlight
  <2> QED BY <2>2, <2>3
<1>4. CASE \E p \in Signers : Emit(p)
  <2>1. PICK p \in Signers : Emit(p)
    BY <1>4
  <2> USE <1>1, <2>1 DEF Emit, At, Go, Ends, files, TypeOK
  <2>2. Whole'
    BY DEF Whole
  <2>3. Paired'
    BY DEF Paired, Completed, Calm, InFlight
  <2> QED BY <2>2, <2>3
<1>5. CASE \E m \in Makers : MakeKey(m)
  <2>1. PICK m \in Makers : MakeKey(m)
    BY <1>5
  <2> USE <1>1, <2>1 DEF MakeKey, At, Go, Begin, Fresh, files, TypeOK
  <2>2. Whole'
    BY DEF Whole
  <2>3. Paired'
    BY DEF Paired, Completed, Calm, InFlight
  <2> QED BY <2>2, <2>3
<1>13. CASE \E m \in Makers : OpenPub(m)
  <2>1. PICK m \in Makers : OpenPub(m)
    BY <1>13
  <2> USE <1>1, <2>1 DEF OpenPub, At, Go, Ends, history, TypeOK
  <2>2. Whole'
    BY DEF Whole
  <2>3. Paired'
    BY DEF Paired, Completed, Calm, InFlight, Exclusive
  <2> QED BY <2>2, <2>3
<1>6. CASE \E m \in Makers : WritePub(m)
  <2>1. PICK m \in Makers : WritePub(m)
    BY <1>6
  <2> USE <1>1, <2>1 DEF WritePub, At, Go, Ends, TypeOK
  <2>2. Whole'
    BY DEF Whole
  <2>3. Paired'
    BY DEF Paired, Completed, Calm, InFlight, Exclusive
  <2> QED BY <2>2, <2>3
<1>7. CASE \E p \in Procs : WriteHead(p)
  <2>1. PICK p \in Procs : WriteHead(p)
    BY <1>7
  <2> USE <1>1, <2>1 DEF WriteHead, At, Go, history, TypeOK
  <2>2. Whole'
    BY DEF Whole
  <2>3. file'.head = mem[p].head /\ file'.tail = file.tail
    BY DEF Files
  <2>4. Paired'
    BY <2>3 DEF Paired, Completed, Calm, InFlight, Exclusive, Whole
  <2> QED BY <2>2, <2>4
<1>8. CASE \E p \in Procs : WriteTail(p)
  <2>1. PICK p \in Procs : WriteTail(p)
    BY <1>8
  <2> USE <1>1, <2>1 DEF WriteTail, At, Go, history, TypeOK
  <2>2. Whole'
    BY DEF Whole
  <2>3. file'.tail = mem[p].tail /\ file'.head = file.head
    BY DEF Files
  <2>4. Paired'
    BY <2>3 DEF Paired, Completed, Calm, InFlight, Exclusive, Whole
  <2> QED BY <2>2, <2>4
<1>9. CASE \E p \in Procs : ReadBack(p)
  <2>1. PICK p \in Procs : ReadBack(p)
    BY <1>9
  <2> USE <1>1, <2>1 DEF ReadBack, At, Go, files, history, TypeOK
  <2>2. Whole'
    BY DEF Whole
  <2>3. Paired'
    BY DEF Paired, Completed, Calm, InFlight
  <2> QED BY <2>2, <2>3
<1>10. CASE \E p \in Procs : Fail(p)
  <2>1. PICK p \in Procs : Fail(p)
    BY <1>10
  <2> USE <1>1, <2>1 DEF Fail, At, Go, Ends, files, history, TypeOK
  <2>2. Whole'
    BY DEF Whole
  <2>3. Paired'
    BY DEF Paired, Completed, Calm, InFlight
  <2> QED BY <2>2, <2>3
<1>11. CASE Flush \/ UNCHANGED vars
  <2> USE <1>11 DEF Flush, vars, files, history, At
  <2>1. Whole'
    BY DEF Whole
  <2>2. Paired'
    BY DEF Paired, Completed, Calm, InFlight
  <2> QED BY <2>1, <2>2
<1>12. CASE PowerLoss
  <2> USE <1>1, <1>12 DEF PowerLoss, At, TypeOK
  <2>1. \A p \in Procs : /\ pc'[p] \in {"start", "done", "failed"}
                         /\ pc'[p] = "failed" \/ pc'[p] = pc[p]
    BY DEF Running
  <2>2. Whole'
    BY <2>1 DEF Whole
  <2>3. Completed' => /\ Completed /\ file' = file
                      /\ \A m \in Makers : m \notin InFlight
    BY <2>1 DEF Completed, Calm, InFlight, Running
  <2>5. pubFault' = "power" \/ (pubFault' = pubFault /\ pubFile' = pubFile)
    OBVIOUS
  <2>4. Paired'
    BY <2>1, <2>3, <2>5 DEF Paired
  <2> QED BY <2>2, <2>4
<1> QED
  BY <1>2, <1>3, <1>4, <1>5, <1>6, <1>7, <1>8, <1>9, <1>10, <1>11, <1>12, <1>13 DEF Next

\* wolfCLU_genKey_XMSS: makers that run one after another, each to its end, leave
\* a private and a public key file that belong together, whatever signers sign
\* between and after them; a public half whose write is lost, unnoticed, leaves a
\* file that is cut off, and never the public key of another pair.
THEOREM KeyPairsMatch == Spec => []KeyPairMatches
<1>1. Init => Whole /\ Paired
  BY ProcessesAssumption DEF Init, Whole, Paired, At, InFlight, NoKey, Absent, Procs
<1>2. IInv /\ Whole /\ Paired /\ [Next]_vars => Whole' /\ Paired'
  BY PairedStep
<1>3. Paired => KeyPairMatches
  BY DEF Paired, KeyPairMatches, Completed, Calm, InFlight, At
<1> QED BY <1>1, <1>2, <1>3, Invariance, PTL DEF Spec

=============================================================================

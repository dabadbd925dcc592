# A TLA+ verification of wolfCLU

wolfCLU (`wolfssl <command> ...`) is wolfSSL's command line: certificates,
keys, signatures, ciphers, random numbers, an OCSP responder and a small CA.
Most commands run once, from options to output; what makes them hard is what
they share with other runs (key files, the CA's serial file and data base),
what interrupts them (signals, kills, power failures, failed writes), and the
one command that stays: the OCSP responder.

This directory models those parts in TLA+, checks the models with TLC and
proves the theorems that matter most with TLAPS. Paths below are relative to
the root of the repository.

## 1. Inventory

| Component | Source | State it keeps | Operations | Talks to |
|---|---|---|---|---|
| OCSP responder | `src/ocsp/clu_ocsp.c` | resources acquired, client descriptor, `ocspStatus`, static `respBuffer`, `requestsProcessed`, `shutdownRequested` | start, accept, read, respond, send, count, shut down | clients over TCP, transports, index, signals |
| OCSP index | `src/ocsp/clu_ocsp.c` | list of entries, statuses in the responder | load a file, parse a line, fill the responder | the responder at startup |
| HTTP transport | `src/tools/clu_http.c` | request buffer, bytes received, where headers end, announced length | receive, parse | responder, client's socket |
| SCGI transport | `src/tools/clu_scgi.c` | the same for a netstring | receive, parse | responder, client's socket |
| XMSS key store | `src/genkey/clu_genkey.c`, `src/sign-verify/clu_sign.c` | private key file with the index of the next one-time key, `.pub` file | make, reload, sign, write back, compare | other processes, kernel and disk |
| CA signing | `src/x509/clu_x509_sign.c`, `clu_ca_setup.c` | serial file, data base, RANDFILE, output | read configuration, sign, check uniqueness, write, increment, log, close | other runs, through the files |
| Option scanner | `src/tools/clu_funcs.c` | `optind`, `optarg` | `wolfCLU_GetOpt`, `wolfCLU_checkForArg` | every command |
| Bounded decimals | `src/tools/clu_funcs.c` | value, overflow flag | `wolfCLU_parseDecimalBounded` | `ocsp -port`, `-nrequest` |
| rand | `src/tools/clu_rand.c` | options, rescan, buffer, output file | options, rescan, fill, encode, write | option scanner, file, stdout |
| enc, dec | `src/crypto/*` | key material, salt, header, chunk, padding | options, checks, encipher, decipher | option scanner, files, wolfSSL |
| Dispatch | `src/clu_main.c` | the mode | call one command | every command |
| OCSP client, `ocsp` options | `src/ocsp/clu_ocsp.c` | options, one request, one response | choose mode, ask, judge the answer | a responder |
| hash, dgst, base64 | `src/hash/*`, `src/sign-verify/clu_dgst_setup.c`, `src/tools/clu_base64.c` | options, buffer or stream | hash, sign or verify a digest, encode | option scanner, files |
| sign and verify | `src/sign-verify/clu_sign*.c`, `clu_verify.c` | key, data, signature | load, sign, verify | key files |
| genkey | `src/genkey/*` | private and public key file | make, write one, write the other | key files |
| x509 and CRL verify | `src/sign-verify/clu_x509_verify.c`, `clu_crl_verify.c` | certificate manager, options | load CAs, verify | wolfSSL |
| x509, req, ca, configuration | `src/x509/*` | certificate being built | parse, convert, fill in, sign | option scanner, files, standard input |
| Key and parameter tools | `src/pkey`, `ecparam`, `dh`, `dsa`, `pkcs` | one key, the DER being written | read, convert, seal, make, write | option scanner, files |
| Encoders | `src/tools/clu_hex_to_bin.c`, `clu_pem_der.c` | - | convert | files |
| s_client, s_server | `src/client`, `src/server` | - | rewrite options for wolfSSL's example programs | wolfSSL (copied code) |
| Benchmark, dispatch, log, help | `src/benchmark`, `src/clu_main.c`, `src/clu_log.c` | a timer's flag | measure, print | - |

What each component has to get right, and what is hard about it:

* **OCSP responder.** One answer per connection, the right one, though buffers
  and status variables are reused between clients; the `-nrequest` limit counts
  exactly the successful answers; no descriptor leaks on any path; a signal at
  any moment ends it. Hard: the moment a signal arrives, clients that stall or
  vanish in the middle of anything, failed sends.
* **OCSP index.** The status served is the status of the last line about a
  serial; nothing is "good" without a line saying so. Hard: failed allocations
  and lines that are malformed in some field only.
* **Transports.** A body is accepted if and only if all of it is there,
  however TCP cuts it up; nothing is written past the buffer; the server never
  waits for bytes nobody owes. Hard: the same arithmetic is done twice, once to
  stop receiving and once to parse.
* **XMSS keys.** No one-time key signs twice. Hard: reading, signing and
  writing back are separate steps; two `write()` calls can tear; kills; the
  page cache.
* **CA.** No serial number and no unique subject twice; a run that reports
  success has recorded what it did. Hard: the files are written when they are
  closed, after the certificate is out; failures in between.
* **Option scanner and rand.** The walk over the option table and rand's own
  rescan of the line have to agree on every line; an error neither empties a
  file nor leaks bytes to the standard output.
* **Bounded decimals.** No overflow at any bound; nothing refused that is in
  range.
* **genkey, sign and verify.** A verification that succeeds has seen a signature
  by the pair over the message; a pair is a pair wherever its making stopped.
  Hard: two files written one after the other, seven algorithms that each do
  it, load keys and judge signatures in code of their own.
* **enc and dec.** What is encrypted comes back under the same options. Hard:
  texts that end at a block or a chunk, bytes that look like padding, a salt
  that carries a flag, and keys and passwords given together.

* **Key, parameter and digest tools.** The key that is written is the one that
  was read or made, in the form and under the password that were asked for; a
  digest covers all of its input. Hard: every tool opens its output at another
  moment, so a command that reads what it writes, is refused, fails or is
  killed leaves something else each time; a private key must not get into the
  open on any of these ways; and a buffer's size is computed in one pass and
  trusted in the next.
* **Requests and certificates.** What is signed is what was requested, and by
  the key of its issuer; what is verified was signed. Hard: options that change
  a certificate after it was read, signed or printed, configuration files that
  name sections that name lists, three different ways to sign.

`PROJECT.json` lists every hazard at its line with the properties that watch it.

## 2. Modules

| Module | Models | Kind |
|---|---|---|
| `OcspService` | what a responder promises: connections ask, are answered once and rightly | abstract specification |
| `OcspResponder` | `ocspResponder` and what it meets: clients, signals | state machine, implements `OcspService` |
| `OcspResponder_proofs` | its theorems | proofs |
| `OcspIndex` | `ocspIndexLoad` and filling in the responder | state machine against a reference definition |
| `OcspIndex_proofs` | its theorems | proofs |
| `RequestReader` | what any transport promises about reading one request | abstract specification |
| `HttpTransport` | `wolfCLU_HttpServerRecv`, `wolfCLU_HttpServerParseRequest` | state machine, implements `RequestReader` |
| `ScgiTransport` | `wolfCLU_ScgiRead` | state machine, implements `RequestReader` |
| `ScgiTransport_proofs` | its theorems | proofs |
| `XmssKeyStore` | making, loading, signing, writing back; kills, torn writes, power failures | state machine of many processes |
| `XmssKeyStore_proofs` | its theorems | proofs |
| `CaSign` | runs of `wolfssl ca -config` over shared files | state machine of many processes |
| `CaSign_proofs` | its theorems | proofs |
| `OptionScan` | `wolfCLU_checkForArg`, `wolfCLU_GetOpt` | operators |
| `RandCommand` | `wolfCLU_Rand` | state machine against a declarative definition of a valid line |
| `DecimalBounded` | `wolfCLU_parseDecimalBounded` | state machine against the number denoted |
| `ResponderInputs` | all the responder reads: composes `OcspIndex`, `HttpTransport`, `ScgiTransport` | composition |
| `ResponderInputs_proofs` | the theorems of `HttpTransport`, and of the three together | proofs |
| `OcspCommand` | `wolfCLU_OcspSetup`, `ocspClient`, and what `ocspResponder` takes from its options: two processes over the same files | state machine of two processes |
| `ErrorCodes` | `wolfclu/clu_error_codes.h` | constants |
| `CryptCommand` | `wolfCLU_setup`, `wolfCLU_encrypt`, `wolfCLU_decrypt`, `wolfCLU_evp_crypto`: a file there and back | state machine |
| `KeyCommands` | `wolfCLU_genKeySetup`, the key makers, `wolfCLU_sign_verify_setup`, the signers and verifiers: a pair from its making to its use | state machine |
| `DhDer` | `wc_DhParamsToDer`, `wc_DhPrivKeyToDer` and the buffers `dhparam` gives them | state machine: two passes |
| `Commands` | `main()` and the one command it calls: composes `RandCommand`, `OcspCommand`, `DecimalBounded`, `CryptCommand`, `KeyCommands`, `DhDer` | composition |
| `Commands_proofs` | the theorems of the six, and that each of them is itself in the process | proofs |
| `ToolFiles` | what the tools below find in files; passwords, forms, the scan of options that goes on after an error | operators |
| `KeyTools` | `pkey`, `rsa`, `pkcs8`, `pkcs12`, `pkcs7` | operators |
| `ParamTools` | `ecparam`, `dhparam`, `dsaparam` | operators |
| `DigestTools` | `hash`, `md5` and its like, `base64`, `dgst` | operators |
| `RequestTools` | `req` and the configuration file | operators |
| `CertTools` | `x509`, `verify`, `crl`, `ca` without a configuration | operators |
| `FileTools` | runs of all these over one disk: composes the five | state machine against what each line asks for |
| `FileTools_proofs` | its theorems | proofs |
| `MC...` | the small instance of each for TLC | |

### How state and actions correspond to the code

**OcspResponder.** `pc` is the place in `ocspResponder`: "startup" is the run of
loads up to `wolfCLU_ServerListen` (`StartupOrder` gives their order, `held`
what `cleanup:` has to free), "test" the loop condition, "calling" the window
between the condition and the moment `accept()` sleeps, "accept" the sleep
itself, then "read", "respond", "send", "continue" and "cleanup". `Signal` may
happen at every one of them, and only in "accept" does it interrupt a call.
`conn`, `sent`, `hung` and `replies` are the network: what each client has sent
and been sent. A client sends part of a request, all of it, or an unusable one,
and may hang up at any time. `ReadRequest`/`RefuseRequest` is
`transportReadRequest`, `Respond`/`RespondError` the responder calls,
`SendResponse`/`SendFails` the send with its error path (a 500 is sent where
nothing was, a cut answer is not followed by another). Variables in front of
each loop turn are reset where the code resets them and nowhere else, so a
stale `respBuffer` or `ocspStatus` would show.

**HttpTransport, ScgiTransport.** Bytes are counted, not spelt out: a request
is a record of what the code can tell of it (method, end of headers, announced
length, size). `Arrive` is TCP delivering any number of bytes, `Leave` the
client closing or resetting. The receive loop and the parser are separate
actions with the code's own arithmetic, `atoi` included (modulo `IntMod`).

**OcspIndex.** One action per step of the loader, an `alloc`/call failure at
every place that has one; the reference is an operator over the whole file.

**XmssKeyStore.** `file` is the private key file in two halves, index first, as
`wolfCLU_XmssKey_WriteCb` may need two writes; `disk` is what a power failure
leaves. A signer goes start, loaded, updated (signed in memory), half, written,
saved (compared), done; any step can be its last. `overlapped` and `lostWrite`
record that two processes were between reading and writing, or that a power
failure undid a write: the safety properties hold outside these, which is as
far as the code's guarantee goes, and the runs include the rest. A maker, once
its private key is saved, empties the `.pub` file (`OpenPub`), and may be killed
or fail there; then it writes and closes it (`WritePub`), with no look at a short
write or at the close: it reports success over a public half that is `Cut`, that
is, empty or cut off. `pubDisk` is what a power failure leaves of that file, and
`pubFault` records whether its last writing was lost, or a power failure undid it.

**CaSign.** `serial`, `next`, `line` and `seed` are the streams' buffers; they
reach `serialFile`, `dataBase` and `randFile` in the three `Close...` actions
of `wolfCLU_CertSignFree`, each of which may fail or never come. The certificate
is in a stream too: `Publish` is the `BIO_free` that puts it out or loses it,
`Lose` any write that is lost so, unnoticed. Names,
policies and extensions are one nondeterministic refusal before the certificate
is written. `overlapped` is as above.

**OptionScan, RandCommand.** Tokens are strings and `atoi` a constant function.
`GetOpt` is one call of `wolfCLU_GetOpt` with `optind` passed in and out; the
rescan takes one action per token. Random bytes are counted. `WriteIsLost` is
the end of a run whose last writes, the new line and the close, did not get
through: nobody looks, and it reports success. The declarative
side (`Valid`) says what a line means without scanning it: no option twice, one
number that is not bound to `-out`, and so on.

**DecimalBounded.** One step per character; `number` is a history variable with
the number the digits read so far denote, as large as it gets.

**OcspCommand.** Each process has a line, `ocspLine`, and becomes a client or a
responder in `OcspSetup`. `ReadFile` takes the files in the order of the code
(`After`); `Der` is `loadFileToDer`, which looks for the right block in PEM and
takes everything else for DER. A responder's index is what the file said when it
was read; `Revise` rewrites the file at any moment. `AskResponder` is the whole
of a request as the client sees it, from the check of the certificate to
`Told`, which is what `ocspClient` makes of the library's result. What the
library does (who is an issuer, whose answer is believed) is marked external.

**CryptCommand.** Two processes, `enc` and then `enc -d` with the same options.
`ReadOption` takes the table's options in the table's order, which is what
`wolfCLU_GetOpt` does; `Check` and `CheckRefuses` are the block of checks after
it. From there `evp` tells the two ways apart: `Enc...` and `Dec...` are the
legacy functions with their counting loops (`length`, `padCounter`, `loops`,
which are the code's variables), `Evp...` is `wolfCLU_evp_crypto`, where the
padding is wolfSSL's. A cipher is abstracted to a byte that remembers its
offset since the IV and is garbage under another offset or key.

**KeyCommands.** Three processes one after the other: `genkey`, `-sign`,
`-verify`. `use` holds the three command lines. `genkey` reduces its options to
`Directive`, `MadeForm` and `MadeParam` and then takes the steps of `FileSteps`
one by one: `KeyOpens` empties a file, `KeyWrites` fills a stream, `KeyCloses`
makes the file's content; ECC closes both streams at the end, the others one
before they open the next, and a stateful private key is written in place
(`XmssKeyStore` has the detail). `KeyCommandDies` may end any process between
two steps. A key file is a half of the old or the new pair in a form, or
broken; a signature is its author and its message; a decoder yields the key of
a file or nothing, or garbage where 32 bytes are taken as they come.
`Signs` and `Verifies` go over all keys the files may yield.

**DhDer.** The operators `ParamsBody` to `KeyTotal` are the first pass, which
only adds up lengths; the actions are the second, one per thing written, with
`derIdx` as the code's `idx`. `derEnds` keeps where each length that was
written says its content ends. Numbers are lengths with their first bit.

**FileTools.** One run after the other over `disk`, whose files are sequences of
blocks (a key, a certificate, a signature, a chunk of data, or something cut
off). `InitDisk` and what standard input brings are from `Contents`, which is not
only a bound: no proof about signatures holds of files that may contain anything.
`LinesAfter` gives the command lines of the next run. A run goes scan
(`wolfCLU_GetOpt` and the checks), load (reading), make, for `req` with a new
key also key and seal (opening and writing `-keyout`), and close. The places
differ in where they open the output, and that is what `ScanOpens`,
`OpensLoaded` and `OpensMade` say: `pkey`, `rsa` and the `pkcs` tools open it
among their options, in the middle of a scan that goes on after an error;
`ecparam`, `x509`, `req` and `crl` after reading; `dgst` and `ca` when there is
something to write. Opening empties the file at once; what is written is in
`held`, the stream's buffer, until `CloseOutput`, which may lose all or part of
it, unnoticed by the code. `Kill` may come between any two steps, and `CallFails`
is a failed call of the library whose result the code looks at. `WriteFails` is
one that it may not look at: a block is not made, not written or cut short, and
the run either ends in an error or goes on to report success. The places that
look differ from tool to tool (section 5 lists those that do not), and most of
those that do ask only whether anything was written; the action lets every tool
do either, which is more than some of them may. Each tool is three operators translated from
its source: `...Scan` gives the code returned for a line, `...Load` what is in
memory after reading, `...Make` the blocks for the stream. A key in a block is
its identity, a certificate a record in which `by` is the key that signed it
and is lost when a field is changed afterwards. The history variables `before`,
`clear` and `signed` hold the disk when the run began, where private keys were
asked to be, and what has been signed.

**ResponderInputs.** `reading` says which of the three inputs is read; the
others stay at a state they could start in, since they share nothing.

**Commands.** `flag` is the mode ("number" stands for the two options of `ocsp`
that are parsed as numbers); exactly one command's variables move, the
others stay at a state they could start in.

## 3. Runs

Every run passes except those marked *violation*, which show where the code
and its own comments disagree.

| Run | Shows | Bounds, and why they are enough |
|---|---|---|
| `responder_clients` | one right answer per connection, never another serial's status, descriptors, the exact limit, one late accept at most, implementation of `OcspService` | two connections and two serials with all combinations of two statuses: any leak from one client to the next needs two; every kind of request, both transports, no limit and a limit of one, one failed accept, one signal |
| `responder_liveness` | every queued connection ends; a handled signal ends the process | two connections, one failed accept; no symmetry |
| `responder_shutdown` | *violation*: a signal between the loop condition and `accept()` waits for the next client | one connection |
| `responder_inputs` (index) | the statuses served are those of the last lines; none is good unvouched | three lines about two serials: a duplicate with something between; two failures |
| `responder_inputs` (http) | whole bodies at once, others never; implementation of `RequestReader` | a 12-byte buffer with lengths and sizes on both sides of every limit, every segmentation |
| `responder_inputs` (scgi) | the same for SCGI, and that exactly the netstring and the body are read | a 6-byte buffer, a 3-character length field, headers repeated, missing and cut |
| `responder_inputs` (all) | every reading ends | the same |
| `xmss_keys` | no one-time key twice; the file is ahead of what was given out; keys made over each other, whole or half, leave matching pairs, or a public half that is visibly cut off, never another key's | two signers and two makers: a key of one one-time key, which two signers use up, and a key of two, on which one signs after the other |
| `xmss_power_loss` | *violation*: "saved" is read back from the page cache | two signers, one power failure |
| `ca_sign` | serial numbers, subjects, records | three runs: two that complete and one that fails or overlaps; serials up to the largest; one lost write, of the certificate, the data base's line or the number |
| `commands` (rand) | both scans accept exactly the valid lines; errors leave no trace | all lines of up to four tokens out of eight: every pair of options with a value and a number; numbers on both sides of INT_MAX/2, blocks of two |
| `commands` (ocsp) | a status that is reported is one a trusted responder's index has or had; a responder whose files fit starts; exit codes agree with what is reported | a responder and a client, or two responders: every option of either wrong, missing, twice, without its argument or the other side's, two CAs, a signer that may sign for its CA and one that may not, certificates that are good, revoked, unknown and absent in the index, the index rewritten at any moment, a failed call in each |
| `commands` (number) | exactly the numbers in bounds, no overflow | four characters, bounds at and around powers of ten |
| `commands` (enc) | the text comes back, decryption accepts what encryption made | all 128 sets of the seven options, blocks of two, chunks of four, texts of 0, 1, 3, 4, 5 and 8 bytes that do and do not look like padding |
| `commands` (genkey) | what verifies was signed; a pair that was reported made, or whose new public half is there, signs and verifies; refusals write nothing | seven algorithms and their forms, every `-output`, heights and layers that exist and that only begin like one; onto an older pair, one thing amiss in one of the three command lines, since a second would be refused for the first; one kill or failure in each process |
| `commands` (dhparam) | no byte past a buffer, every DER length true | numbers on both sides of each form of a length, with x as long as p and longer |
| `commands` (all) | every command returns | the same |
| `file_tools` | what is asked for is done, or nothing; digests cover all; private keys stay where they were asked to be; a refused command keeps its output; what is verified was signed, and what is issued is signed by its issuer | each tool's lines with at most one thing amiss (no input, an absent, empty or wrong one, output onto the input, to the terminal or unwritable, every form, an option twice, help, every password); then a line of a fixed set that takes what the first run left; then a verification of what was signed; one kill or failure in each, noticed or not; `-modulus` of a certificate with an EC key and of one with an RSA key |
| `crypt_explicit_key` | *violation*: with a key and `-k` or `-pass` the key is not used | the same |
| `key_files_whole` | *violation*: genkey reports a pair whose PEM could not be allocated | the same |
| `ca_signs` | *violation*: `ca` without a key that can sign writes an unsigned certificate and reports success | as `file_tools` |

`CHECK_DEADLOCK FALSE` is set where the system really stops: the responder's
process ends or waits in `accept()` for a client that does not come; readers
end with their verdict and runs of the CA and signers with their exit. Symmetry
is used over connections, serials, signers and runs, which no property of those
runs tells apart, and never with a temporal property that has fairness.

### Fairness

* `OcspResponder!FairSpec`: weak fairness of the responder's own steps (the
  kernel schedules the process) and of `Hangup(c)` for every client. The second
  is an assumption about the environment, not the code: the code sets no
  receive timeout, so one client that stays connected and silent stops the
  responder for everybody. `EveryConnectionEnds` and `ShutdownEndsLoop` hold
  under it and would not without it. There is no fairness on signals, on
  `Connect` or on what clients send.
* `ResponderInputs`: weak fairness of the server's steps only; clients may stop.
  `EveryReadingEnds` promises an end to a request only if all bytes came or the
  client left, and an end to the index always.
* `Commands`: weak fairness of the one process, so `CommandReturns` says that
  none of its loops turns for ever.
* None for the key store, the CA and `FileTools`: their properties are safety.

## 4. What is proved

`tlapm` checks these for every value of the constants that satisfies the named
assumptions in the modules (finite or not: any number of connections, signers,
any buffer size).

* **OcspResponder_proofs.** `Invariance` proves the inductive invariant `IInv`;
  from it `TypeCorrect`, `RightAnswers` (AnswersAreRight), `AnsweredOnce`
  (OneAnswer), `Descriptors`, `LateAccept`, `ExactBudget` and `Implementation`
  (`Spec => Service!Spec`). The properties are not inductive: that the next
  send is right has to be known while the response is still in `respBuffer`
  (the buffer answers the body that was read, and the body is what the
  descriptor's client sent), that a connection gets one answer needs that only
  the open descriptor's connection is between read and continue, and the budget
  needs the set of served connections to be finite with its size in
  `requestsProcessed`, with the current one not yet in it.
* **ResponderInputs_proofs.** Of `HttpTransport` on its own: `TypeCorrect`,
  `Terminated` (InBuffer), `WholeBodies` (BodyIsWhole), `NoNeedlessWait`
  (NeverWaitsForMore), `Implementation` (ReaderSpec). The invariant relates what
  the receive loop remembers (headers' end, announced length) to the request
  itself once the headers are in. Of the composition: every behaviour of
  `InputsSpec` is one of each reading (`HttpIsRead`, `ScgiIsRead`,
  `IndexIsRead`), so that what is proved of each holds there: `HttpReadsWell`,
  `ScgiReads`, `ScgiImplements`, `IndexServes`, from `ScgiAssumption` and
  `IndexAssumption`.
* **XmssKeyStore_proofs.** `TypeCorrect`, `NoKeyTwice` (OneTimeKeysOnce),
  `Ahead` (FileIsAhead), `KeyPairsMatch` (KeyPairMatches). The invariant says that outside overlaps at most one
  process is between reading and writing, that what it holds is what the file
  says, that all signatures are behind the file's index, and that a signature
  not yet given out is that of the process that holds it; and that a maker's
  name is nowhere before it starts. For the pair it also says that a maker's key
  is the same in both halves until both are written, that a signer writes
  back the key it found, and that what is in the `.pub` file is the key of the
  private one unless the run that wrote it lost its write or a power failure
  undid it. `KeyPairsMatch` then says of the end of such runs: both halves of the
  private key are of one pair; the public key is of that pair too, if none of its
  writing was lost; and if it was lost, which the code reports as success, the
  file is cut off and holds nobody else's key.
* **ScgiTransport_proofs.** `Invariance`, `ReadsNoMore` (ScgiReadsItsOwn) and
  `Implementation` (`RequestReader`). The invariant relates the place in the code, how many bytes
  of the connection have been consumed and how many are stored; it assumes
  `ScgiConstants`.
* **OcspIndex_proofs.** `Served` (IndexIsServed), for a file of any length. Its
  invariant says: in a run without failed calls
  the last entry about a serial comes from the last line about it, what has been
  set in the responder is the last entry handed over so far, and failures only
  lose entries. It assumes `IndexConstants`.
* **CaSign_proofs.** For any number of runs: `TypeCorrect`, `Recording`
  (SuccessIsRecorded), `NeverTwice` (NewSerialAndSubject). The invariant says
  that unless runs overlapped one run has the files open, that what it holds is
  what they say until it closes them, that the serial file is past every number
  of a completed run, and that a certificate carries its run's number and
  subject. It assumes `NoneAssumption`, that None is no subject and no number.
* **Commands_proofs.** `EachIsItself`: a process of `wolfssl` is, on the
  variables of each command, that command alone (the others stutter), so what is
  proved of a command is a theorem of `CommandsSpec`. Then, for each of the six:
  * rand: `RandExact` (RandIsExact) and `RandKeepsItsOutput` (NotTruncated), for
    command lines of any length. The invariant says what the turns over the table
    have made of `flags` and `outFile` when they are at a given option, and what
    the rescan has seen of the tokens before its own; that the two agree on what
    is a value, what is a flag and what is the number is the lemma on `GetOpt`.
  * number: `DecimalsAreRight` (DecimalCorrect). The value equals the number
    denoted until the number passes the bound; `BoundTest` is the lemma about
    the truncating division.
  * ocsp: `OcspTellsTheTruth` (OcspTellsTheStatus). The invariant says which of
    its files a process has in memory at each place of the code, that each is
    what the file it names says, and that what a client was told is what the
    responder's memory makes of the client's.
  * enc: `DecryptsItsOwn` (DecryptsWhatItEncrypted), for texts, blocks and chunks
    of any size. `CryptInvariance` is the inductive invariant; it is needed
    because the round trip is only visible at the end, while the two commands
    count differently: the one has `length` fall from the padded size to
    nothing, the other recomputes the number of chunks from the size of the
    file. The invariant relates `pos`, `length`, `loops` and `padCounter` of
    either to the place in the same padded text (`TextByte`), and says that
    byte by byte the offset since the IV is the same going and coming.
  * genkey, sign, verify: `SignsAndVerifies` (VerifiesWhatItSigned) and
    `RefusalsKeepOutputs` (OutputsKept). `KeyInvariance` says, for each rest of
    the list of steps that is still to be done, which halves are in a stream and
    which file already is of the new pair (`PairSoFar`): the new public half
    comes last, so that where it is there, so is the private one.
  * dhparam: `BuffersAreLarge` (BuffersSuffice), `LengthsMatch` (LengthsAreTrue),
    together `MeasuredAndWritten` and, of the process, `DhWritesWhatItMeasured`
    (WritesWhatItMeasured). The invariant `Places` says, for each place in the
    code, where `derIdx` is in terms of what the first pass summed; that a
    buffer of twice the parameters' size is enough for all but an x about as
    long as p follows from the bounds of `Sums` on headers.

  `EveryTypeHolds` is CommandsTypeOK. They assume `CommandsAssumption` (there is
  something to run each command on), `RandAssumption` (a line is the program's
  name, "rand" and tokens; the options begin with a dash and "rand" does not),
  `OcspAssumption` (NULL is no file; the index is not given where a certificate
  or a key belongs), `CryptAssumption` (a chunk is whole blocks) and
  `KeyAssumption` (what the options can be).
* **FileTools_proofs.** For any disk, any command lines and any number of runs:
  `FileTypes` (TypeOK), `RefusalsKeepFiles` (RefusedKeepsOutput), `SecretsAreKept`
  (SecretsStay), `ResultsCoverAll` (CoversAll), `OnlySignedIsVerified`
  (VerifiedWasSigned), `IssuersSign` (SignedByIssuer), `SuccessIsAsAsked`
  (DoneAsAsked). They assume `FilesAssumption`: that the files a line names are
  in the disk, if only as absent, and that NULL is none of them; that a command
  named after a digest has that digest; that what is typed at a prompt is a text;
  and that `Contents`, what files and standard input may hold that no run wrote,
  is made of whole blocks, has what its base64 blocks decode to, and says of each
  request and certificate in it, also of those in a bundle, all that one says.
  * `RefuseInv`: nothing is opened before the options are known, by a late
    command nothing before its input is taken, by `dgst` and `ca` nothing but for
    a success.
  * `SecretInv`: the stream of a run that was not asked for a bare key holds
    none. What each tool makes of what it has read is a lemma (`MakesClean`):
    blocks without a bare key, from any input whatever.
  * `CoverInv`: while a command of digests runs, only its own output is not what
    it was when the run began, and that one is empty; what has been read is the
    whole source, unless it is that output; and a result made of it covers it.
  * `TrustInv`: every file, now and when the run began, is `Known`: each
    signature in it, however often it was encoded, is in `signed`, or was there at
    first. It needs `Contents`, because a signature may lie encoded in a file for
    several runs before one decodes it. What is in the stream is known but for the
    signatures the run itself is about to give out, and the requests and
    certificates (`Papers`) in it are signed by their issuer (`Fair`). `Verdict`
    says that what was found verified stays so until the run closes its output: it
    speaks of what was on the disk when the run began, which neither the opening
    of `-out` nor that of `-keyout` changes. `ChainIsSigned`, `ReqVerified` and
    `DgstVerifies` are what the three ways to verify show, `ReqIsFair`,
    `X509IsFair` and `CaIsFair` what the three that issue sign.
  * `DoneInv`, for `DoneAsAsked`, was an invariant of a run of TLC's before it was
    proved. `OnTheWay` says how far a run has come: before it reads, its options
    have been accepted and of all files only its output may have changed, and
    that one is empty and open; what it has in memory is what its tool loads from
    the disk as it was when the run began. The two disks differ where a tool has
    emptied its own input before it reads; `EarlyReads` says that such a tool, if
    it loads anything, loads what was there. After that, `AllMade` says that what
    its tool makes of what was loaded is in the stream, and `KeyLeft` that a new
    key went where the line wants it; once the code has returned success and the
    stream was written whole, `LeftAsMade` says the same of the files
    (`LeavesAsMade`). What remains is about values, and
    `PerformedAsAsked` shows it from one lemma per tool (`Pkcs12Writes`,
    `EcparamWrites`, `ReqWrites`, `X509Writes`, `CaWritesAsked` and their like):
    the blocks that the tool makes, in the order it makes them, are those that
    `Asked` computes from the line alone. The theorem is about runs no call and
    no write of which failed, since the code does not notice all that do, and
    excepts the lines of `Silent` and `NoModulus` (section 5). It needs `TrustInv` for the certificates
    and requests that earlier runs left on the disk: that they still say all
    that one says.

    The theorem has a hypothesis, `NoneIsNoBlock`: NULL, any value the model takes
    for it, is not a record with a block's fields. It is no ASSUME because TLC
    gives NULL a model value, whose DOMAIN it cannot evaluate.

  Looking for the proof of `SuccessIsAsAsked` corrected the model and the property
  where the small instance had no line to tell, and those lines are in it now: a
  bundle may have any number of certificates and no key, and `pkcs12` writes
  them all in their order; `pkcs7` takes the certificates of the block it decodes;
  `rsa` and `pkcs8` set their return code anew at `-passin`, and so forget that
  `-out` or `-in` could not be opened just before (section 5).

  Writing the other proofs showed four of the properties to say too much, which no
  line of the small instance had reached, and the lines that do are in it now:
  `hash -base64dec` writes what was encoded, also when that is a private key, so
  it belongs to the commands that are asked for one, and what it decodes is
  covered as what was encoded; `ecparam` and its like keep their output only
  until they have read their input, not in every error; and `verify` does not look
  at the signature of what it trusts, a root or with `-partial_chain` any
  certificate of `-CAfile`, nor does `req -verify` with `-key` look at the key the
  request is for.

Not proved, only model-checked:

* liveness (`EveryConnectionEnds`, `ShutdownEndsLoop`, `EveryReadingEnds`,
  `CommandReturns`), which is beyond the prover.

Every other property of a passing run is stated by a theorem.

## 5. Where the code and its documentation disagree

Each is a run that TLC ends with a counterexample; `PROJECT.json` quotes the
lines.

1. `responder_shutdown`: handlers only set a flag, and `accept()` sleeps if the
   signal came just before it, so shutdown waits for another client.
2. `xmss_power_loss`: a key reported as saved to non-volatile memory was only
   compared with what the page cache holds (no `fsync`).
3. `crypt_explicit_key`: `-k` and `-pass` come after `-key` in the option table
   and decide, and the password they gave has been cleared: the key is derived
   from an empty one.
4. `key_files_whole`: `wolfCLU_KeyDerToPem` documents 0 as a failure, and the
   RSA and Ed25519 makers only test for less: an empty key file, and success.

5. `ca_signs`: `wolfCLU_CertSign` skips signing when it has no key of a kind it
   knows, and the success of the step before is returned: an unsigned
   certificate is written (`clu_x509_sign.c:1257-1259`).

The models contain more places where the code does less than a comment
next to it says; no run is spent on them. `atoi` wraps an announced
Content-Length wider than an int (`clu_http.c:169`, `:339`; `HttpTransport!Atoi`).
A revoked index line with an empty or short time is kept with time zero
(`clu_ocsp.c:490`; `OcspIndex!RevocationTime`). RANDFILE is opened `"wb+"`,
which empties it before it is loaded (`clu_x509_sign.c:150`;
`CaSign!ReadSignConfig`). A data base line longer than 80 bytes turns every
later uniqueness check into an error (`clu_x509_sign.c:1403`;
`CaSign!Readable`).

In the tools that work from file to file, `FileTools!Silent` and `Unsigned`
name the lines that end in success with less than they ask for, and its
properties say what holds for all others: `pkey` and `rsa` without a readable
`-in` do nothing; an `-outform` that does not exist is not written; `req -in`
with a new key or `-x509` keeps the old signature or none; `-keyout` and `-out`
on one file lose the key; an `-out` or `-in` of `rsa` and `pkcs8` that cannot be
opened is forgotten where there is a `-passin`, which their tables have after
both; `x509 -req` from DER writes what it read and not what
it made; `-extfile` shows in `-text` and not in what is written; a
configuration that cannot be loaded is ignored; `crl` writes its list before it
has verified it; a chimera's key is not compared with the CA's certificate; `ca
-selfsign` with only a key of `-altkey` or `-altpub` makes a certificate its own
issuer and signs it with nothing (`clu_ca_setup.c:290-294`). `NoModulus` is the
one that depends on what was read: `x509 -modulus` of a certificate whose key is
not RSA prints "Wrong Algorithm type" and returns success
(`clu_cert_setup.c:755-758`).

Failures that the code does not look at, and reports success:

* the public half of an XMSS pair: a short write counts as one and the close is
  ignored (`clu_genkey.c:1836`, `:1842`; `XmssKeyStore!WritePub`), so that
  `genkey` succeeds over an empty or cut `.pub` file;
* the certificate of `ca`, whose buffer is written out by a `BIO_free`
  (`clu_x509_sign.c:1577`; `CaSign!Publish`), and the data base and the serial
  file, as they are closed (`:104-105`);
* `rand`'s new line and close (`clu_rand.c:450`, `:458`; `RandCommand!WriteIsLost`);
* what the tools that work from file to file write (`FileTools!WriteFails` and
  `CloseOutput`): `clu_ecparam.c:255`, `:261` and `:275-276`, where a key whose
  DER cannot be made is left out; `clu_pkcs7.c:209`, `clu_rsa.c:274` and
  `:289-290`, `clu_pkey.c:546`, `:565` and `:588`, `clu_pkcs8.c:268`,
  `clu_request_setup.c:1075`, `clu_crl_verify.c:242` and `:251`,
  `clu_x509_sign.c:912`. Most of the other writes are tested with `<= 0`, so a
  short one passes. The properties about files hold all the same; `DoneAsAsked`
  is about runs in which nothing failed.

## 6. What is not modelled, and why

* Two hazards of `PROJECT.json` have no property that would catch them, and say
  so: the end of an encryption whose writes are lost (`clu_evp_crypto.c:393`), of
  which the model only says that the round trip is not promised then, and
  the old signature that `req` keeps (`clu_request_setup.c:1020`), which
  `SignedByIssuer` excepts.
* Bytes, dates, time zones, DER and the cryptography itself: the models keep
  what the properties tell apart. "Content-Length:" in a body, index lines
  longer than the reader's buffer and NUL bytes in headers are left out.
* The sockets' setup (`tcp_listen` is wolfSSL's), TLS, the example client and
  server copied from wolfSSL, and the benchmark.
* The overflow of a serial number of exactly LONG_MAX, and memory ownership.
* In `OcspCommand`: nonces, dates, hosts (a URL is a port), and a client whose
  certificate names no responder, of which the library may say either.
* Signers and CA runs that overlap: they are in the runs, and their guarantees
  end where `overlapped` begins; nothing in the code locks a file.
* In `KeyCommands`: curves, levels and sizes beyond good and bad, file names
  that are too long, input files above the size limit, a signature file that is
  also the output, and what a stateful private key's index is.
* In the file tools, calls on a request in memory whose failure is ignored, so
  that an extension or a field is missing (`clu_request_setup.c:932`, `:963`),
  which tool looks at which write (`WriteFails` lets each do either), and
  `crl_check`, `-md`, dates and days, serial numbers,
  policies, names longer than buffers, PKCS#8's own encryption, and the
  interplay of two runs at once (`XmssKeyStore` and `CaSign` have those where
  state outlives a run).
* `clu_hex_to_bin.c`, a helper without state; logging and
  help; `s_client`, `s_server` and the benchmark, as above.

## 7. Plan

What is left is the option translation of `s_client` and `s_server`, the only
part of them that is wolfCLU's own.

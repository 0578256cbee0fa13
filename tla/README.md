# Formal models of the SDO client SDK

This directory holds TLA+ models of four parts of the SDO client SDK, with their TLC configurations. It also holds TLAPS proofs about the EPID backend, the transport, the RSA routines and the DI driver. Every definition was translated from the C source under `src/`. The exceptions are the DI state driver and msg11–msg13: that code is not in `src/`, so it is modelled from `spec.md`. `PROJECT.json` lists:

- every run;
- every mutant;
- the source lines each definition translates;
- the findings;
- the hazards;
- the theorems.

## The system and its parts

| Part | Source | Modules |
|---|---|---|
| EPID attestation backend | `src/hal/epid/epid_sdk_interface.c` | `Epid`, `EpidAbstract`, `EpidProofs`, `EpidRefinement`, `MCEpid`, `MCEpidInductive` |
| mbed OS transport | `src/hal/os/network_if_mbedos.c` | `TransportOps`, `Transport`, `ExchangeAbstract`, `TransportProofs`, `MCTransport` |
| OpenSSL RSA encryption | `src/crypto/openssl/openssl_RSAEncryptRoutines.c` | `Rsa`, `RsaProofs`, `MCRsa` |
| DI step msg10 and the DI driver | `src/lib/prot/di/msg10.c`, plus spec section 4.4 | `Protocol`, `DIAbstract`, `ProtocolProofs`, `MCProtocol` |

During Device Initialize (DI), the protocol driver runs msg10 and the steps that follow it. Each step builds a message into `ps->sdow`. The driver hands the message to `sdoConSendMessage`, then reads the reply with `sdoConRecvMsgHeader` and `sdoConRecvMsgBody`. Attestation (EPID) and RSA encryption are called from later protocol steps, on the same single thread.

`Protocol` uses the transport's write verdict (`TransportOps!WriteResult`), so both modules judge a send by the same code.

### Epid

The backend's state is made of file-scope statics. Each becomes a VARIABLE named after it:

- `g_epidInitialized`;
- `g_groupPublicKey`;
- `g_priv_key`;
- `g_member_ctx`;
- `g_member_precomp`;
- `is_precompute_available`.

`heap` holds the member contexts that are still allocated. `sig` records what the last `EPID_Sign` returned.

The public calls `EPID_Init`, `EPID_Sign` and `EPID_Close` are one action each. Each action is written as a function on a record of the globals (`G`, `SetG`). This lets the internal helpers be composed exactly as the code calls them. For example, `epid_r6_init` (`R6Init`) runs `EPID_Close` (`Close`) on every failure.

Build flags are constants: `EPID_R6`, `EPID_TINY` and `TARGET_OS_FREERTOS`. Every failure of an EPID library call is a nondeterministic input saying where the call fails.

Keys are abstract. A private key is named by its group, and the library accepts it only for that group (`KeyPair`). A precomputation blob is identified by the keys it was computed from.

`EpidAbstract` is what the backend promises its caller (spec section 4.2), written from the spec. Its variables are `ready`, `key`, `members` and `sig`. `Initialize` may replace the key and may complete. `SignOk` needs `ready` and returns a signature made with the stored key, its group and, if any, a blob of those keys. `SignFail` returns NULL and either leaves the backend as it was or closes it. `Close` drops `ready` and, if it was set, zeroes the key. No action changes `members`, so no member context survives a call. `Epid` maps to it through `EpidAbs`, which keeps `g_epidInitialized`, `g_priv_key`, `heap` and `sig`. The property is `ImplementsEpidAbstract`.

### Transport

`TransportOps` holds the pure pieces of the file:

- `readUntilNewLine` on one complete line (`ReadUntilNewLine`);
- the header accumulation with `strncat_s`/`strcat_s` (`Accumulate`);
- the check of a write result on the TLS and plain paths (`WriteResult`);
- where a body read lands (`Store`);
- the loop condition of the body loop (`BodyDone`).

`Transport` models the client's calls:

- connect;
- send;
- one action per iteration of the header loop;
- the entry of `sdoConRecvMsgBody`, then one action per read;
- disconnect.

It also models a peer that writes its response (header lines, the `\r\n` separator, the body) in chunks of any size, then closes. With `EarlyClose`, the peer may close at any time.

Bytes are symbols: `"x"` is a header character, `"r"` is CR, `"n"` is LF. A read at end of stream returns 0, and read errors happen only before it.

The response builders `ConcatLines` and `ExpectedHdr` are recursive functions (`LET f[i \in 0..k] == ...`), not `RECURSIVE` operators, so that `TransportProofs` can extend the module.

`ExchangeAbstract` is what one exchange promises its caller (spec section 4.3), with no sockets, chunks or byte counts. The caller connects, sends, receives and disconnects, in that order. A send that reports success has delivered the whole header and body and returns the body length. A send that fails has delivered a prefix of them and returns -1. `Transport` instantiates it with `stage <- Stage(pc)`: the three receive phases `hdr`, `bodycall` and `body` all map to `recv`, and the peer's state and the response are hidden. `ImplementsExchange == Exchange!Spec` is the refinement. A header-loop iteration, a body read and every peer step are abstract stutters.

### Rsa

Each call (`sdoCryptoRSAEncrypt`, `sdoCryptoRSALen`) is one step. A path through a call is the sequence of allocations and frees it makes, including those of `convert2pkey`. One heap semantics (`HeapStep`, folded with `FoldLeft`) then judges the path:

- `RSA_free` drops a reference. At the last reference it frees the RSA object and the bignums `RSA_set0_*` handed to it.
- `EVP_PKEY_free` drops the reference taken by `EVP_PKEY_set1_RSA`.

What survives a call:

- the function-static `evp_md`;
- the count of leaked objects;
- a flag recording a double free;
- a record of the last call's inputs and result.

### Protocol

`Msg10Result` translates msg10, including the failure to obtain the m-string, which leaves `sdow` half written.

The following come from the spec:

- the driver's linear state order (`Order`, `Succ`);
- msg12, and the reading of msg11 and msg13;
- aborting on any failed step (`FailPhase`);
- the caller starting a new session (`Restart`).

`DIAbstract` is what the driver promises, with no messages, sockets or failures. Within a session the state moves forward one state at a time along `Order` (`Advance`). The caller may start a bounded number of new sessions, each of which begins again at the first state (`StartOver`). `Protocol` instantiates it with the identity mapping on `state` and `sessions`: the driver's phase, write buffer, connection and received messages are hidden. `ImplementsDI == Abs!Spec` is the refinement, checked as a property. A failed step or a msg12 step is an abstract stutter. A successful msg10, send of DI.SetHMAC, or read is an `Advance`, and `Restart` is a `StartOver`.

## Runs

Every pass run finishes in seconds. The "Props" column is what the run checks.

| Run (cfg) | Props | Shows |
|---|---|---|
| `MCEpidMcu` (module `MCEpidInductive`) | TypeOK, SignatureValid, DeinitClears | MCU R6 build, keys {k1,k2}, two heap cells: signatures are made with a blob of the stored keys, and every step that ends an initialised session zeroes the key and forgets the blob and the member |
| `MCEpidLinuxR6` (module `MCEpidInductive`) | NoMemberLeak, ImplementsEpidAbstract | non-MCU R6 build with re-init allowed: no member context leaks over any order of calls and failures, and the backend implements `EpidAbstract` |
| `MCTransportPlain` | TypeOK, HeaderFaithful, BodyExact, SendFaithful, SessionEnds, ImplementsExchange | plain sockets, up to 2 header lines of up to 5 bytes, `REST_MAX_MSGHDR_SIZE` = 6, a 2-byte body: the header and body delivered are exactly what was sent, the exchange ends, and the client implements `ExchangeAbstract` |
| `MCTransportTls` | CloseOnce | TLS: the handle is closed exactly once, by its owner |
| `MCRsa` | TypeOK, QueryThenFill | SHA-256/384 and every OpenSSL failure point, over 2 calls |
| `MCProtocol` | NoPartialSend, Terminates, ImplementsDI | up to 3 sessions on plain and TLS connections: only complete messages are sent, DI ends, and the driver implements `DIAbstract` |

Each module has one type invariant in the runs. The inductive invariants of the proofs (`IInv`, `LeakInv`, `HostInv`, `SendInv`, `CloseInv`, `Protocol`'s `IInv`) were checked with TLC on these configurations before they were proved, but they are not listed as properties: they add nothing a run could catch beyond the properties they imply. The SDK 2 build has no pass run: its only distinguishing property, the member leak, fails (finding 3), and its signatures carry no blob by construction.

The violation runs each check one property that the spec or a code comment states, and TLC refutes it. They are summarised under "Findings" below.

### Why these bounds are enough

**Transport.** The header size is 6, so lines of 5 bytes reach the boundary:

- `readUntilNewLine` keeps `size-1` bytes and does not strip the LF;
- `strcat_s` has no room left for the `"\n"`.

Two lines reach the accumulation across iterations. A 2-byte body allows split reads.

**Epid.** Two keys are enough for a blob of "other" keys. Two heap cells are enough for a leaked context next to a live one, and to exhaust the heap.

**Rsa.** Two calls are enough for state (`evp_md`) to cross from one call to the next.

**Protocol.** Three sessions are enough for a restart after an abort that itself follows a restart.

### Fairness

- **Transport** assumes weak fairness of the client and of the peer. The client is one thread that blocks only on the socket. The peer is assumed to send its response and close.
- **Protocol** assumes weak fairness of `Next`, because DI runs as one sequential loop.
- **Epid** and **Rsa** check safety only and assume no fairness.

## Mutants

Each property of each pass run is killed by a mutant of a mapped definition. Each mutant models a plausible slip in the code. Examples:

- `Close` forgetting `is_precompute_available = false`;
- `Accumulate` without the room check for the newline;
- `WriteResult` without the short-write check;
- `BodyDone` testing `< 0`;
- the capacity check off by one;
- `FailPhase` retrying instead of aborting;
- `Restart` keeping the old session's state (killed by `ImplementsDI`);
- `Close` skipping `EpidMemberDelete` (killed by `NoMemberLeak`);
- `Close` forgetting `memset_s(g_priv_key)` (killed by `ImplementsEpidAbstract`);
- `Close` forgetting `is_precompute_available = false` (also killed by `DeinitClears`);
- `WriteResult` without the short-write check (killed by `SendFaithful` and `ImplementsExchange`);
- `WriteResult` closing the TLS handle on a failed write (killed by `CloseOnce`).

`PROJECT.json` lists them all.

## Findings

Each finding has a counterexample config; reproduce it with `tlc -config <cfg> <MC module>`. Six of them are listed runs in `PROJECT.json`: `MCEpidMcuReInit`, `MCEpidSdkLeak`, `MCTransportDoubleClose`, `MCTransportEof`, `MCRsaStaleDigest` and `MCRsaLenDoubleFree`. The other nine cfgs sit beside them; each checks one property, which TLC refutes. In `PROJECT.json` their findings name the cfg in the text instead of a run.

### EPID

1. **Stale blob after re-init** (`MCEpidMcuReInit`). A second `EPID_Init` with other keys keeps the previous keys' precomputation blob, and the blob is then used.
2. **Member context leaked** (`MCEpidMcuLeak`). A failure inside `epid_r6_init` during `EPID_Init` leaks the member context: `err2` calls `EPID_Close`, which does nothing while not initialised.
3. **Leak on SDK 2 sign errors** (`MCEpidSdkLeak`). `EPID_Sign` in the SDK 2 build leaks the member on every error after `EpidMemberCreate`.
4. **Private key left behind** (`MCEpidKeyLeft`). A failed `EPID_Init` leaves the private key in `g_priv_key`.

### Transport

5. **Double close** (`MCTransportDoubleClose`). A failed plain write disconnects the handle inside `sdoConSendMessage`, and the owner disconnects it again.
6. **TLS short write accepted** (`MCTransportTlsShortWrite`). A short or zero-length TLS write is reported as success.
7. **Short plain write leaves the connection open** (`MCTransportShortWriteOpen`). It returns -1, but the connection stays open.
8. **Body loop spins at end of stream** (`MCTransportEof`). `sdoConRecvMsgBody` spins forever when the peer closes before the whole body: a read that returns 0 is not an error.

### RSA

9. **SHA-1 always fails** (`MCRsaSha1`).
10. **Stale digest** (`MCRsaStaleDigest`). The static `evp_md` makes a SHA-256 call after a SHA-384 call use SHA-384.
11. **Silent EVP failure** (`MCRsaCtxFail`). A failing `EVP_PKEY_CTX_new` or `EVP_PKEY_encrypt_init` returns 0 with nothing written.
12. **Leaks on early returns** (`MCRsaLeak`). The early returns of `convert2pkey` and the capacity check leak objects.
13. **Double free in `sdoCryptoRSALen`** (`MCRsaLenDoubleFree`). After an `EVP_PKEY_set1_RSA` failure, the bignums are freed by `convert2pkey` and again by `RSA_free`.
14. **Inverted argument check** (`MCRsaLenInverted`). `sdoCryptoRSALen` returns 0 for valid arguments.

### Protocol

15. **State advanced before the send** (`MCProtocolStateAfterIO`). msg10 advances `ps->state` before the message is sent.

### Checked and not a bug

The off-by-one of `readUntilNewLine` lets a line of exactly `size-1` bytes keep its LF. This never reaches the caller: `tmp` and `hdr` have the same size, so `strcat_s` refuses the line. `HeaderFaithful` holds with lines up to the boundary.

## What is proved

Each proof module is checked by tlapm to the last step. TLC checks each inductive invariant on a run before it is proved.

### Epid

`EpidProofs` holds the proofs. Its theorems hold for every set of keys and heap cells and, unless they name a build, for every build. The only assumptions are those of `Epid`: `Keys` is non-empty, `NULL` is neither a key nor a cell, and the flags are Booleans.

- **`TypeCorrect`: `Spec => []TypeOK`.** This includes that `g_member_ctx` never dangles. The proof rests on lemmas stating that `EpidMemberDelete`, `Close`, `R6Init`, `InitResult` and `SignResult` map well-typed global records to well-typed ones.
- **`SignatureValidity`: `~ReInit => (Spec => []SignatureValid)`.** `SignatureValid` is not inductive on its own: a state with a valid last signature could still hold a blob marked available for other keys. The proof therefore uses `IInv == TypeOK /\ Fresh(G) /\ SignatureValid`, where `Fresh` says that a blob marked available:
  - belongs to a build that writes blobs;
  - was computed from the stored keys;
  - is only marked available while initialised.

  The proof shows three facts:
  1. `Init => IInv`.
  2. Every step preserves `IInv`. There is one case per action, resting on lemmas about `R6Init`, `InitResult` and `SignResult`.
  3. `IInv => SignatureValid`.

  TLC checked `IInv` on `MCEpidMcu` before the proof. The assumption `~ReInit` is necessary: with re-initialisation, finding 1 is a counterexample. `Invariance` (`~ReInit => (Spec => []IInv)`) states the invariant itself, and `SignatureValidity` follows from it.
- **`NoLeakHostR6`: `HostR6 => (Spec => []NoMemberLeak)`**, where `HostR6` is the non-MCU R6 build (`EPID_R6 /\ ~TARGET_OS_FREERTOS`). Re-initialisation is allowed. The inductive invariant is `LeakInv == TypeOK /\ NoMember(G)`: between calls no member context is allocated and `g_member_ctx` is `NULL`. It needs the lemmas that `EpidMemberDelete`, `Close`, `R6Init`, `InitResult` and `SignResult` all end with no member. In this build `EPID_Sign` deletes the member it created on every path. The MCU and SDK builds keep the member between calls, and there the property fails (findings 2 and 3). - **`SignatureValidHost`: `HostR6 => (Spec => []SignatureValid)`.** This build never marks a blob available, so re-initialisation cannot leave a stale blob. The inductive invariant is `HostSigInv == TypeOK /\ ~is_precompute_available /\ SignatureValid`. The key lemma is `R6InitNoAvail`: the host R6 init never sets the flag.
- **`DeinitClearsHolds`: `Spec => DeinitClears`**, in every build and with re-initialisation. `DeinitClears` is the action property `[][ClearedOnDeinit]_vars`: a step that turns `g_epidInitialized` from true to false also zeroes `g_priv_key`, clears `is_precompute_available` and sets `g_member_ctx` to `NULL`. Such a step can only be `EPID_Close`, or an `EPID_Init` or `EPID_Sign` whose failure path runs `EPID_Close`. The proof states `KeepsOrClears(s, t)`: the result `t` either has the same flag as `s` or is fully cleared. Lemmas show this for `Close`, `EpidMemberDelete`, `R6Init`, `InitResult` and `SignResult`. `InitResult` also allows a result that is initialised. `NextCleared` lifts them to every step, given `TypeOK`. Only `TypeCorrect` is needed as an invariant.

`EpidRefinement` proves the refinement for the host R6 build (`HostR6`):

- **`HostInvariance`: `HostR6 => (Spec => []HostInv)`**, where `HostInv == LeakInv /\ HostSigInv`. This is the conjunction of the two inductive invariants above. TLC checked it on `MCEpidLinuxR6` before the proof.
- **`RefinementHostR6`: `HostR6 => (Spec => ImplementsEpidAbstract)`.** The proof shows `Init => EpidAbs!Init`. It then shows `HostInv /\ HostInv' /\ [Next]_vars => [EpidAbs!Next]_absVars` (lemma `NextRefines`), with one step per action:
  - A successful `EPID_Init` is `Initialize`.
  - A failed `EPID_Init` is also `Initialize`. The new key stays stored and `ready` is unchanged, as in finding 4. The abstract `Initialize` allows this, because the spec does not say that a failed init clears the key.
  - An `EPID_Sign` that returns a signature is `SignOk`. `HostSigInv'` says the signature is made with the stored keys.
  - An `EPID_Sign` that fails is `SignFail`. When its `epid_r6_init` fails while initialised, the `EPID_Close` it runs clears the backend (`R6InitFailClears`), which is the closing branch of `SignFail`. `R6InitOkKeeps` covers the `epid_r6_init` that succeeds.
  - `EPID_Close` is `Close`.
  - `heap` stays empty between calls by `LeakInv`, so `members` never changes.

  The theorem combines these with `HostInvariance` by PTL. In the MCU build the refinement fails. There a failed `epid_r6_init` leaves a member allocated (finding 2), so `members` would change.

### Protocol

`ProtocolProofs` holds the proofs for the DI driver. They hold for every message alphabet, every `Order` of the five DI states and every session bound, under the assumptions of `Protocol`. `TypeOK` and `NoPartialSend` are not inductive on their own. A state in phase `send` whose state is still `SDO_STATE_DI_APP_START` would let a send advance the state outside the order. The inductive invariant is therefore `IInv == TypeOK /\ NoPartialSend /\ PhaseStates`, where `PhaseStates` ties each phase to the states it can hold:

- `build`: DI.AppStart or DI.SetHMAC;
- `send`: DI.SetCredentials or DI.SetHMAC;
- `recv`: DI.SetCredentials or DI.Done.

The proof rests on these lemmas:

- `SuccValues` and `AbsValues` compute `Succ`, `Order` and the abstract `Position` on the five states;
- `AdvanceStep` says that a move to the successor is an abstract `Advance`;
- `MsgTypes` says that the full messages are well typed;
- `InitIInv` and `NextIInv` give `Init => IInv` and one case per action for preservation;
- `NextLinear` says a step within a session keeps or advances the state;
- `NextRefines` maps every step to an `Advance`, a `StartOver` or a stutter of `DIAbstract`.

The theorems are `Invariance` (`Spec => []IInv`), `TypeCorrect`, `CompleteSends` (`[]NoPartialSend`), `LinearOrderHolds` (the action property `LinearOrder`) and `Refinement` (`Spec => ImplementsDI`). The refinement proof shows `Init => Abs!Init` and `IInv /\ [Next]_vars => [Abs!Next]_<<state, sessions>>`, then combines them with `Invariance` by PTL.

### Transport

`TransportProofs` holds the proofs about the mbed OS transport. The theorems hold for every non-empty request header and body, every header size, every response and every set of chunk sizes.

- **`SendFaithfulPlain`: `PlainOnly => (Spec => []SendFaithful)`.** On plain sockets, a send that returned the body length delivered exactly the header followed by the body. The inductive invariant `SendInv` adds that before `sdoConSendMessage` returns, nothing was delivered and `sendRet` is still -2. The lemmas are `PlainWriteOk` (an "ok" plain write wrote the whole buffer) and `FullSend` (two full writes deliver `HdrOut \o MsgOut`). TLC checked `SendInv` on `MCTransportPlain` before the proof.
- **`SendInvariance`: `PlainOnly => (Spec => []SendInv)`** states the inductive invariant itself. `SendFaithfulPlain` and `RefinementPlain` follow from it.
- **`CloseOnceTls`: `TlsOnly => (Spec => []CloseOnce)`.** On TLS, the handle is closed exactly once when the session is done. The inductive invariant `CloseInv` says that after connect the connection is TLS, and that nothing was closed before `done`. It rests on `TlsWriteKeeps`: a TLS write never asks for a close. TLC checked `CloseInv` on `MCTransportTls` before the proof. `CloseInvariance` (`TlsOnly => (Spec => []CloseInv)`) states the invariant itself.
- **`HeaderLineFaithful`** is the per-line step of `HeaderFaithful`, for every header size. The line has any length, with or without a CR, and the header accumulated so far is any `h`. It shows that one iteration of `sdoConRecvMsgHeader` (`readUntilNewLine` followed by the room checks of `Accumulate`) either refuses the header or appends exactly `h \o content \o "\n"`. When the line fits with room to spare, it always appends. Two lemmas give what `readUntilNewLine` returns:
  - `ReadShortLine`: a line shorter than `size-1` loses its LF and then its CR.
  - `ReadLongLine`: a longer line keeps exactly `size-1` bytes, a full buffer, which `Accumulate` always refuses.

  `ReadUntilNewLineStrip` and `ReadUntilNewLineKeep` unfold the two branches of `readUntilNewLine`. Together these show that the off-by-one at the `size-1` boundary never lets a cut line or a stray CR or LF into the header.
- **`RefinementPlain`: `PlainOnly => (Spec => ImplementsExchange)`.** The client implements `ExchangeAbstract`. The proof shows `Init => Exchange!Init` and `SendInv /\ [Next]_vars => [Exchange!Next]_<<Stage(pc), toPeer, sendRet>>` (lemma `NextRefines`), then combines them with the invariance of `SendInv` by PTL. A successful send is `SendOk` by `FullSend`. A failed send is `SendFail`: lemma `FailedSendPrefix`, with `HdrPrefix` and `MsgPrefix`, shows that any partial pair of writes delivers a prefix of `HdrOut \o MsgOut`. These lemmas use `SubSeq` and `\o` facts from `SequenceTheorems`.

### Rsa

`RsaProofs` holds **`QueryThenFillHolds`: `NoSha1 => (Spec => []QueryThenFill)`**, for every modulus size and call bound. It says that the last `sdoCryptoRSAEncrypt` call made with valid arguments and no library failure kept the two-phase contract. Without a buffer it returned `RSA_size`, and with a buffer of at least that size it returned 0. The property is about the last call only, so every step re-establishes it from any state (lemma `NextQueryThenFill`), and no strengthening is needed. `EncryptContract` states the contract of one call. With SHA1 the property fails (finding 9), hence `NoSha1`.

## What is only model-checked

TLAPS cannot reach the following, so they stay with TLC:

- **Liveness:** `SessionEnds` and `Terminates` rely on fairness and ENABLED.
- **`HeaderFaithful`, `BodyExact` and `Transport`'s `TypeOK`:** they state what the recursive functions `ConcatLines` and `ExpectedHdr` compute on every response. That is induction over data, which the provers cannot do, and they do not unfold recursive function definitions. The step of one header line is proved (`HeaderLineFaithful`); its composition over the stream is checked by TLC only.
- **`ImplementsEpidAbstract` outside the host R6 build:** in the MCU build it is violated (finding 2), and the SDK build keeps a member between calls.
- **`SendFaithful`, `CloseOnce` and the refinement on mixed plain/TLS runs:** the theorems fix the mode (`PlainOnly`, `TlsOnly`). They do not hold in the other mode: with TLS a short write is reported as success, so `SendFaithful` fails (finding 6), and on plain sockets a failed write closes the handle twice (finding 5). TLC checks each mode on its own run.
- **`Rsa`'s `TypeOK`, `NoLeak` and `NoDoubleFree`:** they rest on the heap fold (`FoldLeft` over a call's trace), which is induction over data.
- **`NoMemberLeak` in the MCU and SDK builds:** it is violated there (findings), so only the host R6 build has a theorem.

## Not modelled

- **Transport.** `sdoConSetup`/`sdoConTeardown` only set up the REST context. Also left out are `sdoConDnsLookup`, `sdoSleep`, the byte-order and address conversions, the device-string getters and `sdoRandom`, which are I/O or constant getters. The `int sz = length` conversion at line 300 needs lengths above `INT_MAX`, which is beyond TLC.
- **EPID.** The PRNG callback, `SetMemberParams`, the CA-certificate stub (it always returns true) and `random_init`/`random_close` change no state the properties observe. Concurrent callers are also out of scope: the SDK runs one session on one thread.
- **msg10, TPM path.** The size arithmetic is not modelled; the m-string file is abstracted to success or failure.

## Plan for later work

- Model the REST header parsing (`getRESTContentLength`) from the spec.

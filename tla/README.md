# libtropic-go in TLA+

libtropic-go drives the TROPIC01 secure element over SPI. It is a stack of
three protocol layers under the methods of one struct, `Device`, on top of one
of three transports. This directory holds models of the stack, the TLC runs
that check them and the proofs that TLAPS checks.

## The system

| Part | State | Operations | What makes it correct | Model |
|---|---|---|---|---|
| L1 (`l1.go`) | `d.l2buf`, the chip-select line | `l1Write`, `l1Read` | the chip acts on the caller's frame at most once per call; the chip is released on every path; calls end | `L1`, `L1Exchange` |
| L2 (`l2.go`) | locals of `l2SendRecv` | `l2SendRecv`, `l2Receive`, `l2Send`, `l2FrameCheck` | an answer belongs to its request; a request is repeated only when that is harmless; damage is an error | `L2`, `L2System` |
| L3 (`l3.go`, `session.go`) | `d.session`: status, two keys, two nonces | `l3SessionStart`, `l3SessionAbort`, `l3EncryptSend`, `l3DecryptReceive`, `l3IncrementIV` | no nonce is used twice with a key; a result is the one of this call; host and chip agree on the session | `L3`, `IVCounter`, `Handshake`, `CommandService` |
| API (`api.go`) | none of its own | 23 L3 commands, `SessionStart`, `SessionAbort`, `Startup`, `Sleep`, `GetInfo*`, `GetInfoCertStore`, `GetLogReq`, `FirmwareUpdate` | the same control for all commands; sizes that fit | `Api`, `L3` |
| Device (`device.go`, `options.go`) | `Device` | `NewDevice`, `Init`, `Deinit` | no session survives `Deinit` | `L3`; `Init` with the transports |
| Transport (`transport.go`) | | the interface L1 calls | a `Transfer` that returns nil returns the bytes of its own exchange | `Transport` |
| USB dongle (`hal/usbdongle`) | the port, a reader with what it buffered | `Init`, `Deinit`, `Transfer`, `CSNHigh` | a line is the answer to the command that waits for it; calls end | `UsbDongle` |
| Linux SPI (`hal/linux`) | three file descriptors | `Init`, `Deinit`, `CSNLow`, `CSNHigh`, `Transfer` | fields name the transport's own files; none leaks; the chip starts released | `LinuxSPI` |
| Simulator (`hal/sim`) | queue, transaction flag, phase, a mutex | `EnqueueResponse`, the interface | one frame per selection, in order | `Sim`, `SimL1` |
| Certificates (`internal/asn1der`, `extractChipPublicKey`, `GetInfoCertStore`, `extractDERCerts`) | none | readers of DER and of the store | slices stay inside; the right key is found; both readers of the store agree | `Asn1Der`, `CertStore` |
| `crc16.go` | none | `crc16` | it is the remainder; damage that leaves LEN intact is seen | `Crc16` |
| `crypto.go`, `keys` | none | `noiseHKDF`, hashes, AES-GCM; constants | the keys of two directions, and of two sessions, differ | `Handshake`; AES-GCM symbolic in `L3` |
| Example program (`cmd`) | the files it writes | four sequences of calls | what one run leaves behind does not harm the next | `Devkit`, `CertStore` |
| TROPIC01 itself | external | | | `Chip`, second part of `L3` |

A method of `Device` runs in the caller's goroutine and calls down: API to L3
to L2 to L1 to the transport; nothing calls up, and there is no goroutine, and
no lock but the simulator's. All layers share `Device`. What makes the stack hard is the other
side: a chip that may be busy, restart, answer with an error status or leave an
answer unread, a line that damages frames, a transport that fails between any
two calls, and two nested retry loops in between, while the two ends of a
session have to keep their nonces in step.

`PROJECT.json` lists the components, the hazards with their lines, and for each
definition the lines of the source that it models.

## The modules

`L1` has one action per call of the transport in `l1Write` and `l1Read`, each
of which may succeed or fail, and one for the inspection of the status bytes.
`pc` is the place in the loop. The chip's answer to a transfer is any
combination of READY, ALARM and an empty STATUS (0xFF). A failing transfer may
or may not have reached the chip, and a failing `CSNHigh` may or may not have
released the line; the code ignores the latter after a failed transfer. The
histories `taken`, `clocked` and `unreleased` record what the chip acted upon.

`L1Exchange` is what L2 needs of it: in one call the chip takes the caller's
frame, or gives its answer, at most once; a read that returns nil got an
answer; a write that returns nil promises nothing. `L1` implements it
(`ImplementsExchange`), and it is why L2 may take a whole L1 call as one step.

`L2` holds the steps of `l2SendRecv` and `l2Receive` on the host: `cur` and
`tries` are the locals of the loop, a frame is a record of STATUS, LEN, whether
its CRC is right, and data. `l2FrameCheck` is an operator on frames, with the
index that LEN takes out of the buffer as the value `"panic"`. The module has
no next-state relation: each of its steps on the wire is conjoined with what
the chip makes of it.

`Chip` is external. It says what the driver's code expects of the chip: one
output register, whose unread contents a request that is taken replaces; frames given
out in order; the last frame, or an answer withheld by a general error, given
again on RESEND; requests that are refused, garbled, or missed while it is
busy. `Noise` names what the line does to a frame: damage its data, change its
STATUS to one that the driver recovers from, or its LEN. A changed frame has a
wrong CRC, as `crcOK` says; the frame check sees that for two of the statuses only. That
a changed frame may have a right checksum by chance is left to `Crc16`, and with
another LEN it takes one flipped bit (see `FlipsAreSeen`).

`L2System` closes L2 with this chip and a caller that sends one request after
the other or reads without a request.

`L3` composes L2 and the chip with the methods of `Device`. `op` is the method
that runs and how far it has got, `session` is `Device.session`. A key is the
pair of ephemeral keys of a handshake (numbered as they are generated), a
ciphertext opens under its own key and nonce and no other. That is what the
Noise tag and AES-GCM provide; their computation is not modelled. The chip
keeps the other end of the session, carries out the commands it can open, and
seals its results. Histories: `sealed` (every ciphertext the host made),
`executed` (every call the chip carried out), `etEph` and `eph`, `unseen`, and `sizeError`
(a command of the session at hand ended with one).
`Restart` ends the process in the middle of a method; `ChipRestarts` may
happen at any time.

`Api` has the 23 commands as the lengths of their plaintext, of the documented
response and of the shortest response that the method takes. All of them have
the same control in the source; the lengths decide which of them can succeed,
since L2 neither splits requests nor joins responses. `MCL3` checks, as an
assumption, that those of fixed length fit in their frames and that no method refuses
the documented layout.

`IVCounter` is `l3IncrementIV` on its four bytes with the radix of a byte as a
parameter. `L3` uses the same increment as a number modulo `IVMod`, which
`AddsOne` and the theorem `Counting` justify.

`CommandService` is what a caller of L3 commands may count on, on one page: calls one after the
other, each carried out at most once and only while it runs, results in
order, each at most once, and one of an earlier call only in a session in which
a write was lost. `L3Service` adds the history `given` to `L3` and shows that
every step of driver, chip and line is a step of it.

`Handshake` is the part of `l3SessionStart` that `L3` takes as one key:
the hash chain and the four steps of `noiseHKDF`, as terms (a hash is the tuple
of its inputs, an X25519 secret the set of the two keys). A request may reach
any chip, with any slot, and any tag made by any chip may be the answer. `Start`
and `Accept` are the two halves of the function around `l2SendRecv`; the history
`ended` keeps how the last call ended, and with which keys.

`Transport` is what L1 expects of `Transfer`. `UsbDongle` has one action for
each write, each line read, each time limit of the port that passes, and for the dongle's
lines, which come in up to `LinePieces` pieces: a piece is a read with progress, after which
bufio starts to count its empty reads anew. The limits are in `UsbBounds`. `due` is the order of calls
that `l1Write` and `l1Read` make; the process may end in a call or between a `Transfer` and
its `CSNHigh`. `LinuxSPI` has one action per step
of `Init`, each of which may fail; `files` is what the kernel has open on each
number, and the rest of the program opens and closes files in between.
`Sim` is both simulators; `SimL1` conjoins each call that `L1` makes with the one
of `Sim`, while frames are enqueued at any time.

`Crc16` sends response frames byte by byte through `crc16` to a `d.l2buf` which is filled to its
end, as `l1Read` does it, over a line that flips bits of STATUS, LEN, data and checksum.
`Accepted` is `l2FrameCheck`: it finds the checksum, and the bytes under it, by the LEN that
arrived. A word is the set of its ones; `syndrome`, `damage` and `flips` are histories.
`Asn1Der` has the functions on sequences of bytes, with the radix of a byte and the
width of an int as parameters; `findBitString` is a recursive function. The
reference (`FirstWithContent`) goes by positions in the input with lengths of any
size: the places where an element may begin are those reached from the content of
the certificate in steps of `PlacesAfter`. The two agree as long as lengths have fewer
octets than an int, which `LengthsFit` asks only of the bytes that are reached as
lengths. (To ask it of all bytes would be far too much: a byte of a signature may look like
a length of any size.) `CertStore` reads, splits and writes the store and calls
`Asn1Der` for the key.

`Devkit` runs the four example commands, which are sequences of calls, on a chip
that keeps its mode, its session and what is in slot 0 from run to run.

The `MC` modules hold the constants of the runs. `MCFrames`, `MCHandshake`,
`MCTransports` and `MCExample` each put models side by side that concern the same
part of the code and share no state; one of them is chosen in the initial state
and runs, the others stand still, so that a state of the instance is a
state of the chosen model. Their cfgs list the properties of all. `SystemTypeOK`, `TransportsTypeOK` and
`ExampleTypeOK` are the type invariants of the models of one run together;
`SelectionsServed` and `ReportsAreTrue` join the two properties of `Sim` and of
`Devkit`, and `CallReturns` of `MCTransports` is that of `UsbDongle`.
`SimL1` is different: there L1 runs on the hardware or on the simulator, by the
same actions, or a test calls the simulator directly (`setup`).
Operators that no action refers to, placed before the definition they resemble
(`RefillOnceMore`, `DescendsSequence`, ...), are the faulty variants with which each
property was tested; `PROJECT.json` pairs them under "mutants".

## The runs

| Run | Question | Bounds |
|---|---|---|
| `SimL1` | is the SPI exchange right under every failure, on the hardware and on the simulators? what does a selection serve? | 3 polls instead of 50: a first, a middle and a last; 2 requests; 3 simulated frames; buffers of 0, 1 and 2 bytes, at which the simulator branches |
| `MCFrames` | do retries and RESEND return the right answer? does the checksum see damage? | the 4 attempts of the source; 3 requests, one too long; all noise. The real polynomial and width; `l2buf` with room for 1 byte of data, so that LEN is 0 or 1; 3 values of a byte; 3 flipped bits anywhere in the frame |
| `MCL2Damage` | violated: damaged frames are reported | as `MCFrames` |
| `MCL3` | what may the ends of a session assume of each other? | 1 handshake, 3 commands, nonces modulo 3, 2 attempts, all noise, 1 certificate block |
| `MCL3Sessions` | nonces and keys across two sessions | 2 handshakes, 2 commands, nonces modulo 2, STATUS noise, 2 blocks |
| `MCL3Reboot` | violated: a reboot ends the session | no noise needed |
| `L3Service` | does L3 keep what `CommandService` promises, and does every method return? | 1 handshake, 3 commands, 2 attempts, all noise, 2 blocks |
| `MCHandshake` | who can make a host accept a session? does the carry add one? | 2 chips, 2 slots, 2 host keys, 4 ephemeral keys; one chip has the same key in both slots. All 256 values of a counter of radix 4 |
| `MCTransports` | whose files do the fields name, which are left open? which line does a call take for its answer? | 6 descriptors: the three of the transport, those of a second `Init`, and the program's. 4 exchanges, lines of up to 3 pieces, 2 empty reads before bufio gives up instead of 100 |
| `UsbDongleStale` | violated: `Transfer` returns the received bytes | 3 exchanges; nothing fails but reads that time out (`SlowSpec`) |
| `MCExample` | can one run of the example spoil the next? do the two readers of the store agree? which BIT STRING is found? | 3 runs of any command, faults at any call. Stores with four certificates of two sizes, damaged and short ones, tables; blocks of 40 bytes, radix 16. DER with two levels of containers, five kinds of leaves, all lengths; every string of up to 4 bytes |
| `MCAsn1DerOverflow` | violated: a total covers its header | every string of up to 6 bytes of radix 8, with ints of two bytes, so that an overflow fits the input |

Why the bounds are enough. Two attempts of `l2SendRecv` give a first and a
repeated sending, and one more adds no new pair of "sent" and "sent again";
`MCFrames` has all four. Three commands let an unread answer of the first meet the
third. Nonces modulo 3 and 2 bring the counter to its end, where the properties
that need unused nonces stop (`NonceUnique`, `NoncesOrdered`, `SizeErrorBreaksSession`);
`AtMostOnce` goes on, since it needs only that the counter moves. The source has 2^32, and
the theorems have any number above one. `MaxHandshakes` and `MaxCalls` are the only bounds
that are guards, in `SessionStart` and `Encrypt`.

What the runs show:

* `ActsOnCallersFrameOnce`, `SelectDiscipline`: the restore at the head of
  `l1Write`'s loop and the release on each return path do what they should.
* `AnswerIsForThisRequest`, `AnswerIsForThisCall`: data returned without an
  error is the answer to this very call, with one exception: `l1Write` returns
  nil when the chip was never READY (`l1.go:52`), and then an answer of an earlier
  call that nobody read passes, at L3 too, because its nonce is the next one: a `Ping`
  may return the data of an earlier one.
* `RepeatedOnlyWhenMisled`: the chip carries out a request twice only when the
  CRC_ERR that made the driver repeat it was not about the request. `AtMostOnce`:
  an L3 command is never carried out twice, since the chip has moved on from the nonce
  of a ciphertext that is repeated.
* `NoncesOrdered`: within a session the host is never behind with commands nor
  ahead with responses. `SizeErrorBreaksSession`: once a command ended with a size error,
  the counters of the two ends differ for as long as that session lasts, whatever calls
  follow (the history `sizeError` goes back to FALSE with the next handshake that succeeds).
* `NonceUnique`, `KeyIsLatest`: see the proofs below; a handshake that is
  repeated by L2 does not leave the host with keys that the chip replaced.
* `ImplementsService`: retries, answers asked for again, restarts and unread
  answers add up to no more than a late result, which needs a lost write.
* `Agreement`, `KeysAreOwn`, `SessionIsOfLastCall`: the tag binds the slot only
  through the hash of its number (`l3.go:67`), without which a chip that holds the
  same key twice would do for either slot; the last HKDF step is what keeps
  the two directions apart. `SessionIsOfLastCall`: a session that is on is the one of the
  call that returned last; a handshake that fails, before its request or after, leaves
  none, not even the one before.
* `ImplementsTransport`: an answer is that of the exchange until a call fails or
  is kept from ending; after that it may be any earlier one. `OddSlipIsDetected`:
  since answers to `Transfer` and `CSNHigh` differ, an odd number of late lines
  fails at every call; an even number is not noticed. In the trace of
  `UsbDongleStale` a `Transfer` and its `CSNHigh` time out, both lines come late, and the next
  `Transfer` returns the first. The rest of a line that lost its first pieces can pass as a short
  answer in both cases.
* `FieldsNameOwnFiles`, `NothingLeaks`, `LineIsNotLost`: every
  failing step of `Init` gives back what was opened, no number is used after it
  was closed, and even a second `Init`, which loses two files, gives back the line.
* `SelectionsServed`: a selection serves one frame at most, in the order
  in which they were enqueued, whatever is enqueued meanwhile; the stateful
  simulator serves a response within one selection or not at all.
* `FlipsAreSeen`: if LEN is intact, up to three flipped bits are seen, and every odd number
  of them. A flipped LEN is another matter, since `l2FrameCheck` looks for the
  checksum where that LEN says (`l2.go:30-35`): what is accepted then depends on the data. The
  frame 02 02 03 8C with its checksum is accepted as an empty one when the one bit of its LEN
  flips, because 03 8C is the checksum of 02 00. The run has such a frame (three flips
  turn 01 01 47 into an empty one), so the premise cannot be dropped. A LEN above 252
  is `MCL2Damage`.
  `IsRemainder`: the byte-wise code computes the remainder of the polynomial division.
  The swapped bytes (`crc16.go:27`) do not weaken the first, but they do cost
  some bursts: see `BurstsSeen` and `BoundaryIsOpen` below.
* `FindsFirstWithContent`: dropped errors of nested searches (`asn1der.go:44`)
  do no harm but one: a BIT STRING without content is passed over for a later one.
* `ReadersAgree`: the header of a real store, read as a table of another format,
  is never taken for one. The scan knows lengths of two bytes only (0x30 0x82), so
  this is about certificates of 256 bytes of content and more.
* `EarlierRunsDoNotMatter`, `ReportsAreTrue`: because each
  command reboots the chip first and the slot is erased whatever is in it.
* The violated runs each quote a comment of the source that the code does not
  keep; `PROJECT.json` lists them as findings.

Comments and code disagree in more places, which the models make plain without a run:

* "WithTimeout sets the L1 polling timeout" (`options.go:14`): nothing reads
  `timeoutMS`; `l1Read` polls 50 times, 25 ms apart (`l1.go:72`).
* The nonce is "incremented per message" (`session.go:17`): `l3EncryptSend` increments
  it before `l2Send` may refuse the frame as too long (`l3.go:201`); this is the first
  half of `SizeErrorBreaksSession`.
* "RandomValueGet requests n random bytes" (`api.go:487`): with n above 230 the chip
  splits the result, and the method returns `ErrL2ResCont`; this is the other half.
* "Ping ... returns the echoed data" (`api.go:116`): see `AnswerIsForThisCall` above.
* "Deinit releases all hardware resources opened by Init" (`spi.go:264`): not those
  of an `Init` that a second one followed (the premise of `NothingLeaks`).
* The stateful simulator is "sufficient for exercising the L1/L2 framing layers"
  (`sim.go:51`): it serves READY, STATUS and data in three Transfers of one selection,
  `l1Read` makes one and selects anew, so it never sees a response.
* A frame "will be returned on the next Transfer" (`sim.go:85`): not one that is
  enqueued in a selection in which nothing was served, which `CSNHigh` drops.
* "the first BIT STRING" (`asn1der.go:12`): see `FindsFirstWithContent`.

**Fairness.** The liveness runs assume weak fairness of the host's steps inside a call
(in `SimL1` those of L1 and of the calls it makes; `HostStep` in `L3` and `UsbDongle`;
`Step` in `CertStore`). `CallReturns` in `SimL1`, `L3Service` and `MCTransports` and
`Ends` in `MCExample` rest on it. A call of
a transport is one step that succeeds or fails: spidev ioctls, sleeps, and serial
reads with a time limit all return. A line has finitely many pieces: a dongle that sends
bytes for ever and never ends its line does hold a call for ever, in the code as well, and is
outside of `CallReturns`. No fairness is assumed of the chip
or of callers, so `CallReturns` holds with a chip that never answers. Runs check
deadlock: a chip may always restart, and in `Devkit` and `CertStore` the end of
the program is a step of its own. In `UsbDongle` the fair step is a read that returns,
with a line, or when the 5 s that `Init` sets have passed; none is assumed of the
dongle.

## The proofs

There are seven modules of proofs, one for each part of the system, and `Induction`,
with what they need of induction: a set of naturals that has 0 and the successor of each
member is `Nat`, from the well-foundedness of the naturals (`SetInduction`), a
function that is defined step by step exists (`Recursion`), and a set of naturals
that is not empty has a least member (`Least`).

The five about parts that loop also say how much a call can do. That a call returns (`CallReturns`,
`Ends`) is liveness, but what could go wrong with it in this code is not
the scheduling: it is a counter that is reset in a loop, or a branch that
goes back without counting. So each loop has a number of steps left, which
starts within a stated bound, which every step of the host lowers and no step of chip, line,
dongle or caller raises. These are action properties, proved as such; only that a
step which can be taken is taken some time remains with TLC.

### L1 and the simulator: `L1Proofs`

For every number of polls and every set of requests. `BufferInv`
says what the buffer and the history hold at each point of the loop: no frame
taken where the loop starts, the caller's frame where a transfer starts, and
after it the chip's bytes, which tell whether the frame was taken. It is what
`ActsOnCallersFrameOnce` lacks to be inductive. From it follow the types, that
property (`CallersFrameOnce`) and the refinement of `L1Exchange`
(`Refinement`); `LineInv` gives `SelectDiscipline` (`Discipline`). `SilentWrite`:
a write that returns nil with nothing taken has gone through all its polls.
`BoundedCalls`: at most `6 * l1MaxRetries + 1` steps.

`SimL1` takes steps of `L1` on either transport (`OnEitherTransport`: `SystemSpec`
implies the `Spec` of `L1`), so that all of this holds for both. For the simulator itself,
with any queue and under L1 or a test that calls it as it likes: `RulesKept`
(`NoMisuse`), because the simulator is in a selection exactly where L1 is in
a transfer or about to release (`UseInv`); `BoundedSystemCalls`, `12 * l1MaxRetries + 2`
steps with those of the transport's calls; and `Served` (`SelectionsServed`). That
serving follows the order of the queue is not inductive without the numbers of the
frames that wait, all behind those served (`QueueInv`), and the order of parts not without
the phase that says how many were given (`PartsInv`).

### Frames and retries: `FrameProofs`

The checksum, for every LEN and content that fit `l2buf`: `ComputesRemainder`
(`IsRemainder`) by induction on the message, since the division of a message with one more
byte begins as that of the message without it, eight places higher. `ArrivedInv` says what of
the frame is where in `l2buf`, and so what `l2FrameCheck` finds there if LEN is intact;
`Linearity` (`DependsOnDamageOnly`) follows with the linearity of one round: with that LEN,
damage is judged alike in every message. `OddDamage`, for any number of flips: no frame
with an intact LEN and an odd number of flipped bits is accepted. The polynomial
has an even number of terms, so that a round keeps the parity of the word; `ParityInv`
relates the number of flips to the parities of the syndrome and of the damaged checksum.

`FlipsSeen` (`FlipsAreSeen`) adds two flips. One flip under the checksum leaves the power of
x that belongs to its place, which must not be that of a place in the checksum or
of another flip. The polynomial is (x + 1)(x^15 + x + 1), and the powers of x modulo the
second factor repeat after 2^15 - 1 places and no earlier: the least period divides 2^15 - 1
(`LeastDivides`), and for the quotients of that number by its three prime factors the
power is computed, by squaring, and is not one (`SomePowers`, `NoShorterPeriod`). A LEN
is one byte, so that no frame reaches the period. `PairInv` keeps the flips under the
checksum apart from those in it.

`BurstsSeen`: the usual promise of such a checksum, that damage within 16 neighbouring
places is seen however many bits of it are wrong, holds within the message and within the
checksum, for frames of any LEN that arrives intact. `BurstSpec` is the line with the places of the
flips as a history; `BurstInv` says that the register holds damage as it is as long as
none of it is older than 16 places (`Recent`), and that a burst leaves something in it
(`Traces`), since eight rounds undo nothing (`NothingVanishes`) and cannot take what began
16 places ago to the byte that ends it (`Window`). Across the boundary of data and
checksum the promise does not hold, and the exception cannot be dropped:
`BoundaryIsOpen` shows four flips within nine places that turn any frame into another
right one. It is the swap that brings the high byte of the checksum next to the data; sent
in order, the same flips would span 17 places.

The exchange, for any requests and number of attempts: `OwnAnswer`
(`AnswerIsForThisRequest`) and `NoNeedlessRepetition` (`RepeatedOnlyWhenMisled`).
Neither says anything about the chip's register, which decides both. `ExchangeInv`
does: in the loop the chip takes no more than was sent (`LoopInv`); once it has taken a
request of this call, no frame of an earlier call is left, except the one kept for RESEND,
which is replaced by the first frame that is read (`CurrentInv`); and once it has carried one
out, only its answer or a general error can come, so that the driver asks for the answer
again and never sends the request again (`ServedInv`). `BoundedTransfers`: a call takes
at most `2 * l2TransferRetries + 1` steps, since a RESEND counts as an attempt.

### The session: `L3Proofs`

For all values of the constants, under `L2Assumption`,
`ChipAssumption` and `L3Assumption`:

* `Typing`: `Spec => []TypeOK`, with one lemma per group of actions. Most of
  the work is in the frames: what the chip may answer and what the line makes
  of it stays a frame, so that what the host takes from one has the type it
  needs as a key, a nonce or a call number.
* `NonceUniqueness`: `Spec => []NonceUnique`. `NonceUnique` is not inductive:
  a session might start with a key that sealed before, or with a nonce below
  one in use. `NonceInv` adds that a running handshake has dropped the session and
  that its host key sealed nothing (`HandshakeIsNew`), that every key in use
  belongs to a handshake of the past and the session's to the last one
  (`KeysAreOld`), and that the session's next nonce is above all it used and
  not above the number of ciphertexts (`NonceIsNew`), which keeps the counter
  from wrapping below `IVMod` commands. Only `Handshake`, `Established` and
  `Encrypt` touch this state; all other steps are shown to be `Quiet`.

The second part is about what L2's retries and the
chip's output register can do to a session. `SessionInv` relates four things:

* the request in hand to the method that runs (`RequestInv`): a command in flight is
  the last that was sealed, with the nonce before the session's next, and the chip opens
  it only if it has not carried it out (`InFlight`);
* the frames to the chip (`KnownInv`): a result in the register, kept for RESEND or
  handed to the host is that of a call carried out, sealed with the nonce of
  its command and below the chip's next;
* the frames to the method (`CurrentInv`): once the request was taken, only current
  answers can be met, and what is kept is replaced before a RESEND can ask for it.
  This is where a lost write matters: `Current` demands nothing of results
  when `unseen`;
* the two ends (`ChipInv`): the chip's two counters are equal, and a key that it agreed
  to in the running handshake is unused.

None of them is inductive without the others. `CarriedOutOnce` (`AtMostOnce`),
`AnswersBelong` (`AnswerIsForThisCall`), `LatestKey` (`KeyIsLatest`) and
`OrderOfNonces` (`NoncesOrdered`) are conjuncts. There is one lemma for each step of L2
and each kind of method; the chip's part of a write goes through `ChipStep`, the four ways
in which a request can change the chip's session.

`OutOfStep` (`SizeErrorBreaksSession`) is about the two ways in which the ends lose each
other for good, and that they stay lost. A result in two parts has cost the chip a nonce that
the host never uses (`Behind`): `SplitInv` says so of a part in the register, since the driver
decrypts neither part, and `ContInv` once the part was seen. A command too long for its frame has
cost the host a nonce that the chip never sees (`TooLongInv`), so that the host is `Ahead`:
of the chip's counter by one more than a command in flight accounts for. Neither comes back:
the host uses a response nonce only with a frame that bears it, and the chip opens only the
command that is in flight. `ApartInv` keeps one or the other from the size error to the end of
the session. `FreshInv` keeps parts of one session out of the next: when the chip agrees
to a new key, they are gone from the register before the handshake can return. `LiveInv` ties
commands to a session that is on.

`ServiceRefinement`, `ServiceSpec => ImplementsService`, under
`ServiceAssumption`, by which the counter does not come to its end. That results come in
the order of their calls needs `ServiceInv`: nonces ascend in the history of a
session (`SealedInOrder`), and results that the session can still open belong to calls
after the last one returned (`ResultsAhead`).

`BoundedMethods`: a method takes at most `certBlocks + 1` times the steps of the longest L2
call. Only the certificate store needs more than two calls, and nothing around L2
repeats what L2 gave up.

### The hardware transports: `UsbDongleProofs`, `TransportProofs`

The dongle, for any number of exchanges and any limit of bufio. Lines are
outstanding when they are received and not read, or on their way. At most two are for each
exchange, and each is of an exchange that was begun (`CountInv`, `OwnLines`). Before the
first failure nothing is outstanding between calls and only the own answer during one
(`LateInv`); from this follows the refinement, `Promise` (`ImplementsTransport`). After
a failure any number may be. `SlippedInv` says that, as long as L1's order of commands
is kept, the outstanding lines answer the last commands of that order, so that the
first of them is of the kind that is due exactly if their number is even: `OddSlip`
(`OddSlipIsDetected`). `BoundedCalls`: a call makes at most `LinePieces * EmptyReads`
reads, for any number of pieces of a line: each read without a byte uses one up, and a
piece that comes gives up what was left of its own.

The Linux transport, for every set of descriptors. `FilesInv` adds to the checked
properties in what order `Init` fills the fields (`FieldsFillInOrder`), as long as it
is not called twice: without it, `OpenSPI` might overwrite a field that names an
open file. `OwnFiles`, `LineKept`, `NoLeak` follow; `Released` stands on its own.
`TransportProofs` also brings the results on the dongle to `MCTransports`, the instance
in which the program has one transport or the other.

### The handshake and its counter: `HandshakeProofs`

For any chips, slots, host keys and pairings, under
`HandshakeAssumption`: all three properties. The lemmas take the terms
apart: two outputs of HKDF are equal only if their inputs are (`FirstOutput`,
`SecondOutput`), a first output is never a second one (`OutputsDiffer`), and so a tag
fits only the chip that made it (`TagAgrees`). `HandshakeInv` says how chips make
answers (`AnswersFit`), that sessions have the keys of their schedule
(`EstablishedFit`), and that calls do not share ephemeral keys (`OneEach`).

`Counting` proves `AddsOne` for every radix above one, by the byte at which the carry
stops.

### The example program: `ExampleProofs`

* The commands, for any number of runs: `NothingLeftMatters` (`EarlierRunsDoNotMatter`)
  and `ReportsTrue` (`ReportsAreTrue`). `ChipFits` says, for each call that depends on
  it, what mode, session and slot the chip has when the call is next; what one call leaves
  is what the next one in the sequence needs, and the first of each command needs nothing.
  `KeyInv` says that the key that was read stays in the slot while it signs.
* The store, for any bytes: `Inside` (`PiecesInside`), from how much of it was read at each
  point. `SameCertificates`: if the store is `Ordinary`, the first four files are its
  certificates, and the driver looks for its key in the first file. `Ordinary` means
  that the store is laid out as the comments say, fits in the blocks that are read,
  and that no length in it can be taken for the beginning of a certificate. With the
  bytes of the source: certificates are shorter than 0x3000 bytes, the store is
  not longer than 0x8200. `BoundedSplitting`: reading, splitting and writing end
  within a number of steps that depends on the size of the store only. `SameKey`
  (`ReadersAgree`) adds to `Ordinary` that nothing behind the four looks like a fifth,
  that lengths in the first certificate have fewer octets than an int, and that it has
  a key; all of it together is `Complete`. Every well-formed store of the run is
  `Complete`, so the theorem covers the run. Others are outside of it for good reason:
  0x30 0x82 in what follows the last certificate is one more file.
* The search in DER, for strings of any length and nesting: `FindsFirst`
  (`FindsFirstWithContent`). Lengths of fewer octets than an int do not wrap; the function is
  the one that its recursive definition describes, by induction on the length (`SearchIs`);
  and by a second one it finds the earliest BIT STRING with a content among the places
  from which it was started, which from the start are those of the reference.

### Only model-checked

* Liveness, `CallReturns` and `Ends`: fairness and ENABLED are out of the prover's reach.
  The bounds above are the part of them that is about the code.
* The violated runs, which are counterexamples.

## Not modelled

* Cryptography below its terms: AES-GCM, SHA-256, HMAC and X25519 are symbolic.
  Forged ciphertexts and colliding hashes do not exist in the models. `incrementIV`
  of `crypto.go` has no caller.
* Layout: ioctl structures, key material, texts of errors, log lines.
* Concurrent use of one `Device`: it is the caller's responsibility
  (`transport.go:5`) and no caller in the repository does it. The simulator is the
  one part with a lock, and `Sim` has its interleavings.
* A second `Init` of the dongle's transport without a `Deinit`; `LinuxSPI` has the case.
* Firmware update, which the source does not implement.
* Time: a poll and a delay are steps.
* What the chip does with its slots, counters and configuration: a command is
  carried out or fails, and its data are its length.
* More than two parts of a split result: a first and a last one stand for all,
  since the driver refuses the first.
* In `L3` a transport that fails before a frame is given is the same step as
  a read that times out; the errors differ in name only (`L2System` has both).

## Plan

All modules of the plan are there, and each safety property of the passing runs
is a theorem. What is left:

1. An abstract specification of the session as a whole, with `CommandService` for its
   calls, which would say in one place what a caller sees of a size error.

# JT1078Server in TLA+

JT1078Server takes the real-time audio and video of vehicle terminals (JT/T 1078 over
TCP) and publishes it to an RTMP server. A terminal's connection carries packets of a
30-, 26- or 18-byte header and a body; packets are gathered to frames; a frame of video
is written to an RTMP stream as it is, a frame of audio is decoded to PCM, staged and
encoded to AAC first.

## Inventory

| Part | State | Operations | What makes it correct |
|---|---|---|---|
| Decoder (`CDecoder.cpp`, `JT1078Header.h`) | parser phase `m_eSkip`, wanted length `m_iRecvLen`, receive state `m_eCurrentStat`, mark, type and coding of the last header, `m_eErr`, gathered body `m_sData` | `Decode` (called for every read), which calls `DecodeHeader`, `__Paser16`, `__PaserTheRestData`, `DecodeBody` | frames are exactly the packets of the stream, in order; nothing is read before it has come; a call always returns |
| Handler (`CRealTimeVideoServer::__OnMessage`, `WriteDataToStream`) | none of its own; half-closes the connection | decode, assert, `Init` the stream on the first frame, write, back to `eInit` | what is written is a whole frame, as the medium of its packets; no assertion fails before the connection is half-closed |
| Connection table (`m_iConnectionBuckets`, `Entry`) | circular buffer of `nIdleSeconds` sets of `shared_ptr<Entry>`; a `weak_ptr` in each connection | `__OnConnection`, the insertion in `__OnMessage`, `__OnTimer`, `~Entry`, `__DumpConnectionBuckets` | a silent connection is half-closed in time and never early; its decoder lives as long as it is needed and no longer |
| RTMP stream (`CRtmpStream.cpp`) | FFmpeg contexts, `m_bIsPushing`, staging buffer `pcmencodebuf`, audio clocks | `Init`, `WriteData` with the key-frame scan `isIdrFrame1`, destructor | it pushes only when complete; the staging never overflows; the clock counts the PCM; key frames are marked; what was begun is ended and freed |
| Audio codec selection (`CCodec.cpp`) | one result buffer of 2048 bytes and its length | `DecodeAudio`, destructor | the stream is handed the PCM of the frames and no other; the buffer is freed |
| ADPCM (`Adpcm.cpp`) | `valprev`, `index` of coder and decoder | `adpcm_coder`, `adpcm_decoder` | decoder in step with coder; error within the step |
| G.711 (`G711.cpp`) | none | conversions of two laws | error within half a step; stable when repeated |
| G.726 (`G726.cpp`) | `g726_state_t` of each side: predictor, scale factors, speed control, bits between bytes | `g726_init`, `g726_encode`, `g726_decode` (included by `CCodec.cpp`, never called) | decoder in step with coder; the adaptation bounded; a code survives decoding and coding |
| `Log.cpp`, `main.cpp`, `CFFmpeg.h` | none | output, start-up, includes | |

How they interact. `main` starts the server with four IO threads and `nIdleSeconds = 2`.
muduo gives each connection to one IO loop, which calls `__OnConnection` and
`__OnMessage` for it; `__OnTimer` runs every second on the base loop. All three use the
one table, without a lock. An `Entry` owns a `CDecoder`, which owns a `CRtmpStream` and
a `CCodec`; the table and a running `__OnMessage` share ownership of the entry. The
handler calls the decoder and the stream synchronously, so a slow RTMP server holds up
the loop.

What is hard here: reads that end anywhere; a loop condition with a strict `>`; one
frame per call whatever the buffer holds; `shutdown()`, which closes the sending half
only, so that a connection that has been given up goes on delivering; state that early
returns leave behind; the unlocked table; eviction racing a late message; `Init`
failing half way and being called again. `PROJECT.json` lists each at its line.

## Modules

| Module | Models | Correspondence |
|---|---|---|
| `JT1078Wire` | header layout and the `switch` conversions | a stream is its length and the packets at the offsets where the frame-head mark stands; a body is named by its packet's offset |
| `FrameAssembly` | abstract: what the decoder promises | `Take` a packet, `Emit` a frame, `GiveUp` |
| `VideoSession` | `CDecoder` and the handler for one connection | `pc` is the place in the call; one action per return of `__Paser16`, `__PaserTheRestData`, `DecodeBody`, `Decode` and per outcome of the dispatch; variables have the members' names |
| `IdleTimer` | abstract: a countdown per connection | `Open`, `Hear`, `HearLate`, `Close`, `Tick` |
| `IdleWheel` | the table on one loop (`nNumThreads = 0`) | one action per callback; an entry is named by its connection and is alive while a bucket holds it |
| `IdleWheelThreads` | the table with IO threads | callbacks cut at `back()`, `insert`, the dump, decoding, the release of the `shared_ptr`; `push_back` as its two moves; a race ends with both effects, a lost insertion, or the end of the process |
| `RtmpStream` | `CRtmpStream` for any caller that keeps to its protocol | `CallInit(passed)` is `Init` ending after `passed` of its eleven steps; an FFmpeg object is named by its member and its `Init` call; `StageAudio`, `EncodeAudio`, `ConvertFails` are the outcomes of `write_audio_frame`. What a call does (`Call...`) is apart from when it may be made |
| `CCodec` | the result of the audio decoders | `DecodeAudio(type, n)` sets the length or leaves it; `Free` is the destructor |
| `MediaPath` | `__OnMessage` from a finished frame on, with `CCodec` and `RtmpStream` | `pc` is the place in `__OnMessage` and `WriteDataToStream`; `DropEntry` is `~CDecoder` |
| `KeyFrame` | `isIdrFrame1` and `isIdrFrame2` | one action per outcome of a turn of the loop; `i` and `last` are its locals |
| `Adpcm` | `adpcm_coder`, then `adpcm_decoder`, over one frame, with the state `__DecodeAdpcm2Pcm` takes from the frame | one action per turn of a loop; `Code` and `Decoded` are the loop bodies; an index outside the table reads any of `JunkSteps` |
| `G711` | the four conversions | `RelayA`, `RelayU` encode and decode a sample; a code is its three fields |
| `G726` | coder and decoder at 16, 24, 32 and 40 kbit/s | one action per turn of the loops of `g726_encode` and `g726_decode`; `update` is put together of one operator per part (`NextYu`, `NextA1`, `NextB`, ...); a `short` is cut to 16 bits where a sum may not fit; what follows a code is defined twice, for the encoders (`Coded`) and for the decoders (`Adapted`), as the source has a copy in each; `Init` starts from a bit rate that `g726_init` knows, as of another it returns NULL |

`VideoSession` implements `FrameAssembly`, and `IdleWheel` implements `IdleTimer`, by
the `INSTANCE` at the end of each. The mapping of `VideoSession`: a packet counts as
taken when its body joins `m_sData`, so while a header has been parsed and its body has
not (`InPacket`) the abstract reading position is the start of that packet; the
connection is degraded once it has been half-closed. The mapping of `IdleWheel` adds a
history variable, `silent`.

`MediaPath` extends `RtmpStream`, takes `CCodec` by `INSTANCE`, and puts the handler's
program counter in the place of the guards `MayInit` and `Writing`. That it makes no
call these guards would have forbidden is its property `ImplementsRtmpStream`, which is
`RtmpStream!Spec` itself.

A definition commented as a faulty variant is a plausible mistake in the code
that the definition below it models; no specification uses it. It shows that
a property can fail: put in the place of the definition below it, it makes TLC find a
counterexample, which `PROJECT.json` pairs with the property under "mutants".

`MC*` modules hold the constants of the runs.

## Runs

| Run | Bounds | Shows |
|---|---|---|
| `VideoSession` | streams of two to four good packets, and each of nine kinds of bad packet or noise first, after a frame, and inside one; a read may end at any byte | types (no byte read too early), nothing workable left over but after a frame, `Lossless`, `InOrder`, `AbortOnlyAfterShutdown`, `CompletedIsSound`, `SentAsItsLastPacket`, `HandlerReturns`, implementation of `FrameAssembly` |
| `IdleWheel` | 3 connections, 3 buckets | the wheel counts silence exactly; implementation of `IdleTimer`; silent terminals are closed in the end |
| `IdleWheelThreads` | 2 connections, on 2 loops or both on one, 2 buckets as in `main` | with no race a heard connection is kept and the process dies of a late message only; with any race decoders are freed and an `up` connection has one |
| `MediaPath` | 3 `Init` calls, 12 kinds of frame (video, H.264 as audio, G.711 and ADPCM from empty to too long, ADPCM too short), 26 bytes of PCM, 1 video frame | readiness, clock, trailer, destruction; the PCM handed over is that of the frames; the leak of the buffer; implementation of `RtmpStream` |
| `KeyFrame` | all frames of up to 8 bytes of {0, 1, 65, 101} | a frame is marked a key frame exactly when it holds a unit of one |
| `Adpcm` | 3 samples from {±extremes, quiet, moderate}, all 89 steps, 3 predictions; 6 wrong indices, 4 values around the table | lockstep across bytes and odd counts, error bound, a wrong index fades |
| `G711` | all 65536 samples, any number of relays | error bounds, stability |
| `G726` | 4 rates, 5 signals in blocks of 200 samples, 2 blocks, the decoder up to 2 bytes behind | lockstep across bytes, bounded adaptation, stable codes |

Why the bounds are enough. A parser phase depends on the readable bytes only through
the comparison with `m_iRecvLen`; bodies of 0, 1 and 2 bytes, with and without bytes
behind them, meet both sides of each comparison, and four packets are enough for a frame
of three packets to be followed by another. The wheel needs more buckets than
one to tell a refreshed entry from an old one, and a third connection to have two
entries in one bucket and one in another. After the second `Init` the third repeats
its pattern. The encoder's frame is scaled from 1024 samples to 4 and the staging buffer
with it; lengths up to a whole frame keep their relation to it. Eight bytes hold two
start codes with a unit behind each, a start code at the end, and the overlap of a
four-byte start code with an empty unit; 65 and 101 are a unit that is not and one that
is of a key frame. The five signals of `G726` were
chosen so that tone detection sets `td`, the transition resets the predictor, `a[1]` and
`a[0]` meet their lower limits and the scale factor both of its own; the slowest of these
takes nearly 200 samples, and the transition comes in a second block. MaxInits, MaxPcm,
MaxFrames, MaxSize, MaxSamples, Block, MaxBlocks and MaxBytes bound counters that the
code does not. `G726` may stop when the signal has ended and all bytes are decoded, so
its run does not look for deadlock; all other runs do.

Four further runs each check a claim of the sources and find it broken:

- `VideoSession_header_assert`: `CDecoder.cpp:102` asserts that no error is pending. A
  packet with a bad header field (in the trace, a subpackage mark that is none)
  half-closes the connection and leaves `m_eErr` set; what the terminal had
  sent behind it runs into the assertion, and the build keeps assertions.
- `VideoSession_frame_assert`: `CRealTimeVideoServer.cpp:93` asserts the same of a
  completed frame. A failed `Init` leaves the frame completed; a packet with a bad
  header field, again the subpackage mark, then sets the error and one more short read dispatches the stale frame.
- `RtmpStream_codecs`: "Close each codec." (`CRtmpStream.cpp:37`) closes those of the
  last `Init` only.
- `G711_alaw`: `linear2alaw` turns the samples -7 to -1 into -248.

## Fairness

`VideoSession`: weak fairness of the handler's steps, for a loop that has entered a
callback runs it to its end. Nothing is asked of the terminal or the RTMP server.
`IdleWheel`: weak fairness of `OnTimer`, which `runEvery` repeats.
`IdleWheelThreads`: the same of both moves of the timer, and of the steps of each loop's
callback, but not of the arrival of messages. That a callback's `Decode` step ends takes
for granted that FFmpeg's calls return. `MediaPath`, `KeyFrame`, `Adpcm`, `G711` and
`G726` have no liveness property and assume nothing.

## Proofs

For all values of the constants (any set of streams; any number of connections, loops and
buckets; any frame size and any staging buffer that `SizeAssumption` admits; any set of
bytes and size of frame; any signals):

- `FrameAssemblyProofs`: `FramesLossless` and `FramesInOrder` of the abstract assembly.
  The strengthening says that what has been taken stands behind the reading position
  and that only the last packet gathered may end the frame.
- `VideoSessionProofs`: the type invariant, `AbortOnlyAfterShutdown`,
  `CompletedIsSound`, and `SessionImplementsFrameAssembly`; `SessionLossless` and
  `SessionInOrder` follow from it and the theorems about `FrameAssembly`. The inductive invariant `IInv` ties
  what the decoder remembers of a header to the packet it was read from (`PacketInv`),
  the wanted length to the phase (`PhaseInv`), an error to the half-closing
  (`ErrorInv`), the completed state to the place in the handler (`CompletedInv`) and
  the gathered data to the receive state (`DataInv`). Without `PacketInv` one cannot
  show that the body appended is that of the packet taken; without `CompletedInv`, that
  no packet is taken while a finished frame waits. `IdleLeavesNoWork` and
  `SentAsItsLastPacket` need one step more each: that `Decode` returns true only with a
  frame or for want of bytes (`DispatchInv`), and that the decoder's fields describe the
  last packet of a frame for as long as it may be written (`LastPacketInv`).
- `IdleWheelProofs`: `WheelCounts`, `UpHasItsDecoder`, `WheelImplementsIdleTimer`.
  `WheelCountsSilence` is nearly inductive: it also needs that an `up` connection was
  heard recently (`UpInv`). `AliveIsRecent` is the heart of the refinement.
- `IdleWheelThreadsProofs`: `ThreadsTypeCorrect`, `ConnectedHasDecoder`,
  `HeardConnectionIsKept`, `DeathHasItsReason`, for any number of loops, connections and
  buckets. `HeardIsKept` alone is not inductive, for it does not say in which set a
  connection lies: `PutInv` adds that the set is no older than the connection has been
  silent, where the age of a set counts from the place of `back()` and grows by one when
  `push_back` replaces the oldest set and not when it moves its end (`PutReplaceOldest`,
  `PutMoveEnd`). `PollInv` says that only a loop in `poll` has no connection.
  `DeathExplained` follows from the other invariants in the state before the death.
- `MediaPathProofs`: first the type invariant and six safety invariants of `RtmpStream`
  under any caller that keeps to its protocol. The strengthening says that a header
  belongs to the last `Init` (`HeaderInv`), and what the last `Init` made is still pointed
  to and will be freed (`LastInv`). Then `PathImplementsRtmpStream`, by the invariant that
  the place in the handler agrees with `m_bIsPushing` and that the PCM in hand is a length
  of `AudioLens`; with it the theorems about `RtmpStream` hold of the composition
  (`PathAudioClock` and `PathStagingFits` spell out two), whose `SizeAssumption` about the
  PCM is thereby traced to the size of `CCodec`'s buffer. Further `PathHandsOverAllPcm`,
  `PathLeaksOnlyAfterEmptyFrame` and `PathTypeCorrect`. The last says, besides types, that
  the length `CCodec` keeps is within its buffer until a frame overruns that, and that the
  PCM decoded is ahead of the PCM handed over by at most one such buffer: between
  `DecodeAudio` and `WritePcm` by the frame in hand, else by nothing (`OwedInv`).
- `KeyFrameProofs`: `ScanIsRight` for frames of any length over any bytes. `Passed` says
  what is known after `i` bytes: `last` lies behind the latest start code, and no earlier
  one begins a unit of a key frame.
- `G726Proofs`, for any signal, rate and interleaving of the two sides:
  - `AdaptationIsBounded`, and `ShiftIsLegal`, which draws from it that `reconstruct`
    never shifts by a negative count. `StreamsOK` adds what makes the code taken an
    integer. The heart is `UpdateKeepsLimits`, with a lemma for each part of `update`; the
    ranges are stated as inequalities (`Within`).
  - `EncoderMovesAsDecoder`: the two copies of what follows a code agree, at each rate
    and from every state, once the encoder's is known to be a code of the rate's bits
    (`EncodersGiveCodes`). All below, and the limits above, rest on it.
  - `SidesInStep`. `InStep` says where the two sides are and how many bits lie between
    them, not that those bits are the right ones. The invariant `LockStep` adds a string of
    bits (`InFlight`): its first bits are what the decoder has not yet used, then come the
    bytes, the last are what the coder has not yet put out, and each code in it takes the
    coder from one state of the history to the next. A coded sample lengthens the string
    by a code (`CodeHasBits`), wherever the byte ends; a decoded one drops a code from its
    front. `Num` is the number some of the bits are, `NumSplit` cuts it at any place.
  - `TypeCorrect`, from both: the limits make poles fit a `short`, the bit string the
    waiting bits and bytes their width; `FloatRange` bounds the internal floating point.
  - `CodesAreStable`: `quantize` is the inverse of `reconstruct`. `LogOfMagnitude` bounds
    what the logarithm of a reconstructed magnitude loses by the length of its mantissa,
    `TablesAreSpaced` shows that every entry of a rate's table is at least that far above
    its threshold at the smallest scale, and `Passed` that then as many thresholds are
    passed as the code says. At 40 kbit/s that takes a scale of 1288, below which it is
    false.
- `AudioCodecProofs`, for any signal:
  - `TypeCorrect`, `DecoderInStep`, `MisstartsFade` and `InputTracked` of `Adpcm`, for frames
    of any length and any contents of the memory around the step table. `InStep` speaks of
    samples already decoded; the invariant has to speak of those to come. `CodesInv` says
    that each code put out, wherever it lies in bytes and `outputbuffer`, takes the coder
    from one state of its history to the next, and `DecoderInv` that the decoder is at the
    state of that history its sample count names, or no further from it than the frame's
    claim was from the truth. `CodeIsDecoded` shows that the two loop bodies agree on a
    code and bounds what the code leaves of the difference; `ClampedIndex` that clamping
    brings no two indices apart, which is what makes a misstart fade.
  - `ULawAccuracy`, `ALawAccuracy` and `RelaysAreStable` of `G711`: the invariant says that
    the sample is what the last relay made of the one before. `Segment` says what `search`
    finds; then each bound is linear in each of the eight segments. The relay is stable as
    a decoded sample has the code it was decoded from, or, for the two codes of zero in
    the u-law, one that decodes to the same (`ULawMagnitude`, `ALawMagnitude`). `NearSilenceIsLoud` is the
    rest, the samples `ALawIsAccurate` leaves out: -7 to -1 all become -248.

Assumptions: `StreamsAssumption` (a stream is well formed), `IdleAssumption`
(`nIdleSeconds` is positive), `ConnAssumption` (`NoConn` is no connection), `SizeAssumption` (PCM comes in lengths of at most one
encoder frame, and one more fits the staging buffer), `PathAssumption` (those lengths are
what fits `CCodec`'s buffer: 2048 bytes, with encoder frames of 2048 and a staging buffer
of 4096), `ByteAssumption`, `SignalAssumption`, `AdpcmAssumption` and `PcmAssumption` (bytes are
bytes, samples 16 bits, states those of their types).

Only model-checked: all liveness (`HandlerReturns`, `DecoderFreed`, `SilentIsClosed`),
which is out of the prover's reach. Every invariant of a passing run is also a theorem.
`Lossless` in a run with bad packets speaks of what comes before the half-closing.

## Not modelled

- The contents of bodies and header fields that no branch reads (SIM number, sequence
  number, time stamps): the code never compares them.
- FFmpeg, muduo and boost beyond how they are used; the RTMP protocol.
- What happens after memory has been overwritten: an audio frame whose PCM does not fit
  the 2048 bytes of `CCodec`, or an ADPCM frame of less than 8 bytes. `MediaPath` stops
  there (`"overrun"`), `VideoSession` takes the short frame for the end of the process.
- Five hazards that the code does not guard against are listed in `PROJECT.json` with no
  property, since one that forbade them would fail and no comment of the sources denies
  them: the two overruns above, the eviction of terminals whose loop is blocked by RTMP
  (`CRtmpStream.cpp:128`), a trailer without a header (`:35`) and `fmt` without a context
  (`:44`). The models contain the last three, and properties say how far they reach:
  `UpHasDecoder` and `DeathExplained` of an evicted terminal, `PublishedIsSafe` of
  streams that never were published.
- The values of codec settings and the rescaling of time stamps: arguments to FFmpeg.
- `Log.cpp` and `main.cpp`: they keep no state. `Log.cpp` only writes, and `main` has the
  call that would install it commented out.

## Plan

Done, in order of importance: `VideoSession` and `FrameAssembly` with their proofs;
`IdleWheel` and `IdleTimer` with their proofs; `IdleWheelThreads`, with loops that
connections share, and its proofs; `RtmpStream` with its proofs; `CCodec` and the composition
`MediaPath` with its proofs; `KeyFrame` with its proofs; `Adpcm` and `G711` with their
proofs; `G726` with the proofs of its limits, its lockstep and its codes.

Next:

1. A composition of session and table: eviction of a connection in the middle of its
   frames.
2. A bound of the distance between sample and prediction in `Adpcm` over a whole frame,
   from `TracksInput` and the growth of the step.

# A TLA+ model of VTKStreaming

VTKStreaming encodes what a VTK application renders into video packets, and
decodes packets into frames an application can render. This directory holds
models of its core in TLA+, the TLC configurations that check them, and proofs
about them that TLAPS checks. Paths below are those of the repository, with
`src/` in front.

## 1. The system

| Component | State it keeps | Operations | Correct when |
|---|---|---|---|
| Encoder base class, `Streaming/Encode/vtkVideoEncoder` | the settings, `ForceIFrame`, `Width`, `Height`, `Initialized`, `LastSetupMTime`, the output handler | setters, `Initialize`, `Shutdown`, `Drain`, `Flush`, `Encode` | each packet belongs to its frame: size, settings, order; no frame is lost without a trace; a change of configuration can be followed by a decoder |
| VP9 encoder, `Streaming/VpxEncode` | the libvpx context, one raw image, a counter | the virtual functions of the base class | the above, and no context or image leaks, timestamps rise, a packet shows its own frame |
| NVENC encoder, `Streaming/NvEncode` | a session, a ring of input frames and bitstream buffers, send and receive counters, CUDA resources | the same, `Send`, `Receive`, buffer registration | ring slots are not reused before their packet was received; resources survive no session |
| VideoToolbox encoder, `Streaming/VTEncode` | a compression session, packets its callback delivered | the same | packets of one frame are not given to another |
| Encoder factory, `Streaming/Encode/vtkEncoderFactory` | a registry of backends, an ordered list of preferences (both process-wide) | `RegisterBackend`, `SetPreferences`, `ClearPreferences`, `CreateEncoder`, `CheckAvailability` | the strongest preference decides; only an available backend is created |
| Decoder base class, `Streaming/Decode/vtkVideoDecoder` | `Width`, `Height`, `Initialized`, the output handler | `Initialize`, `Shutdown`, `Drain`, `Flush`, `Decode` | frames come in order, once; a new size restarts the context |
| VP9 decoder, `Streaming/VpxDecode` | the libvpx context | the virtual functions of the base class | nothing is shown that was predicted from a picture it does not have |
| WebM muxer, `Streaming/WEBM` | a segment, a writer, a memory buffer | header, blocks, trailer, reading and emptying the buffer | every packet is in one recording, in a track of its size, at its time; cues point at clusters |
| Raw frames and packets, `Streaming/Core` | dimensions, strides, a data array | allocation, copies, plane offsets | planes do not overlap and lie in the data |
| OpenGL frames, capture, rendering, `Streaming/OpenGL2` | textures of a frame, shaders | capture, upload, download, render | textures are released once, in their context |
| Application: `examples/*.py`, `tests/*.py` | the picture it captures into | encodes at the end of each rendering, decodes each packet | what it shows is what it rendered |

The application calls `Encode`; the encoder calls the application back, by its
output handler with a whole result, or by one `EncodedVideoChunkEvent` for each
packet when there is no handler. The examples call `Decode` from that callback,
and the decoder calls them back in turn. `CreateEncoder` of the factory probes
the backends and makes an encoder. A packet carries the display size, which is
how a decoder learns of a resize. The muxer takes the same packets.

What is hard here is not parallelism: the library runs on one thread. It is
that (1) callbacks re-enter the library between two packets of one result;
(2) `Encode` decides on its own, from a comparison of sizes and of modification
times, whether the context of the subclass is still good, and overwrites the
size before the old context is drained; (3) setting a context up fails in the
middle, and so does each libvpx call; (4) after an error, a resize or a restart
the two ends have to agree on a key frame; (5) `Decode` goes on after it has
reported a failure. `PROJECT.json` lists these hazards at their lines.

## 2. The modules

| Module | Models | Builds on |
|---|---|---|
| `VideoEncoder` | the base class: settings and modification time, the test of `UpdateEncoderContext`, `Encode`'s callbacks | |
| `EncoderContract` | an encoder of any subclass: the abstract specification | `VideoEncoder` |
| `VpxEncoder` | the VP9 encoder, down to its libvpx context, image and counter | `VideoEncoder`; refines `EncoderContract` |
| `VpxEncoderMC` | settings for TLC | `VpxEncoder` |
| `NvEncoder` | the NVENC encoder: session, ring, CUDA resources, render window | `VideoEncoder`; refines `EncoderContract` while it is sound |
| `NvEncoderMC` | settings for TLC, and an application | `NvEncoder` |
| `VideoDecoder` | the base class of decoders: sizes, `Decode`'s callbacks | |
| `VpxDecoder` | the VP9 decoder | `VideoDecoder` |
| `StreamPipeline` | an encoder, the application, a decoder | `EncoderContract`, an instance of `VpxDecoder` |
| `WebmMuxer` | the muxer, its writer, and libwebm's segment as far as they reach it | |
| `Recording` | a muxer that is given the packets of an encoder | `WebmMuxer` |
| `EncoderFactory` | registry, preferences, the choice of a backend | |
| `EncoderFactoryMC` | backends and preferences for TLC | `EncoderFactory` |
| `FrameLayout` | where the bytes of a frame, of its texture and of a libvpx image are: operators only | |
| `EncoderContractProofs` | theorems and proofs: types and configuration; the order of packets and reports, and where each frame is | `EncoderContract` |
| `VpxDecoderProofs` | theorems and proofs | `VpxDecoder` |
| `StreamPipelineProofs` | theorems and proofs | `StreamPipeline`, `EncoderContractProofs`, an instance of `VpxDecoderProofs` |
| `FrameLayoutProofs` | theorems and proofs | `FrameLayout` |
| `VpxEncoderProofs` | theorems and proofs; that `VpxEncoder` implements `EncoderContract`, and what follows | `VpxEncoder`, an instance of `EncoderContractProofs` |
| `NvEncoderProofs` | theorems and proofs; that `NvEncoder` implements `EncoderContract` while it is `Sound`, and what follows | `NvEncoder`, an instance of `EncoderContractProofs` |
| `RecordingProofs` | theorems and proofs about `WebmMuxer` and `Recording` | `Recording` |
| `EncoderFactoryProofs` | theorems and proofs | `EncoderFactory` |

Operators that a comment calls a fault are what the code does with one mistake
put in. No specification uses them: they are there to see that a property
notices the mistake.

### Encoder

`width`, `height`, `params`, `forceIFrame` and `handlerSet` are `Width`,
`Height`, every other member that a `vtkSet` macro sets, `ForceIFrame`, and
whether `OutputHandler` is set. `mtime` is `GetMTime()`. `SetWidth`,
`SetHeight` and `SetParams` are the macros: they do nothing for the value in
force and otherwise bump the modification time; `SetForceIFrame` is written by
hand in the code and does not. `UpToDate` is the test of
`UpdateEncoderContext`, `Submit` is what `NeedsNewEncoderFrame` leaves.

A call of `Encode` is one action up to its callback. `calls` is the stack of
calls that are inside a callback, each with the packets whose events are still
to come; every operation may happen while it is not empty, which is what a
callback can do, and `CallBackReturns` goes on with the call on top. The
application does not replace the handler from inside the handler, which C++
does not allow (the function object would be destroyed while it runs).

`submitted`, `reports`, `stream`, `failed`, `dropped`, `touched` and
`reentered` are history: the frames given, the callbacks made, the packets they
carried, the frames that were refused and those that Drain or Shutdown gave up,
whether a setter ran since the context was set up, and whether `Encode` was
called between two events of one result. No action but a bound reads them.

What a subclass may do is the nondeterminism of `EncoderContract`: setting up
may fail; `EncodeInternal` takes the frame in and gives out the packets of any
number of the frames it holds, oldest first, with either status, or refuses the
frame. That covers NVENC, which may hold frames, report
`NV_ENC_ERR_NEED_MORE_INPUT` as a failure and give the packet with a later
result. None of the three subclasses changes settings while it is set up (the
statement of `vtkNvEncoderInternals::TweakFromEncoderObject` that would is
behind a test that has already refused the codec). `Lengths` are sizes a
subclass encodes as they are: NVENC rounds 4:2:0 sizes down to even ones.

`VpxEncoder` has the same actions with the state of `vtkVpxEncoder`. Of the
bundled libvpx it has what the class relies on, not how libvpx comes to it:
without lookahead, a frame is one packet or an error; the first frame
of a context is a key frame, and so is one that is asked to be. A setting the
encoder reads at each frame (`KeyFramesOnly`) is distinguished from those that
libvpx was initialized with. The pixels of an image are the number of the frame
copied into it. `Contract` is the refinement: `AbstractContext` maps the libvpx
context to that of the contract, which never holds frames here, and
`AbstractPacket` forgets what the contract does not know of.

### NVENC encoder

`nv` is the state of `vtkNvEncoderGL` and `vtkNvEncoderInternals`, and of the
driver as far as it matters: the session with the parameters it was opened
with, `NvEncInitialized`, the ring (`count` for `NvEncBufferCount`, `slots` for
the bitstream buffers with the picture the driver has coded into each, or `Stale`
for the handle of a buffer of a former session),
`NvEncSendCounter` (the length of `accepted`, the frames sent) and
`NvEncRecvCounter` (`recv`), `CUDADriverAvailable`, the CUDA resources, each
with the session it was registered for, and whether the window knows the
encoder's release callback. `lost`, `live` and `dropped` are history.

`Encode` runs several operations of the subclass in a row: Drain, teardown,
shutdown, the setup in its steps, the encoding, each of which may fail. So each
of these is a function from a state to the set of states it may leave, and
`Then` puts one after another; a crash ends the row. The window is an actor of
its own: `WindowReleases` calls the encoder back from any state.

Of the driver it is assumed that it keeps at most `frameIntervalP` plus its
lookahead, less one, frames in a row waiting for more input; that a picture
that begins a stream, the one after an end of stream included, is a key frame;
that a driver that refuses the end of the stream gives out none of the frames
that wait; and that packets can be received in order. Any of its calls may
fail. `NvBitstreamBuffers` is resized with the ring and never cleared, so where
a setup cannot make a buffer (which it overlooks) the handle of a former session
stays in its slot. The driver is assumed to refuse such a handle as it does a
null one: no frame is coded into either, no packet comes from either, and a
session whose buffers cannot all be released is not destroyed. A failure to
receive ends what can be said of packets: from then on a packet may be given out
twice, or show the later frame that has overwritten it.
`receiveFailed` says that it has happened, and `Sound` (no such failure, no
crash, a ring that is there) is the condition under which the encoder honours
`EncoderContract`. Setups that fail leave sessions that nothing will close:
`lost` has them, and `SessionsAccountedFor` says that there are no others.

### Decoder

`Decode` is one action up to its first callback. When there is no context it
reports that, and when that callback returns `DecodeGoesOn` decodes the packet
all the same, in whatever context there is then: `stage` tells the two kinds of
waiting calls apart. `Decodable` is the test of `decode_one` and `check_resync`
in the bundled libvpx (`vp9/vp9_dx_iface.c`): a context needs a key frame first,
and again after an error. `LibvpxFails` is any other error `init_decoder`,
`decode_one` and `decoder_decode` may return, counted by `faults`;
`Drains` lets the application call `Drain`, which reads through a null pointer:
`crashed` stops the model.

### Pipeline

The application of `examples/resize_encoder_decoder.py`, which decodes each
packet in the callback that carries it, or later, in order and without loss.
It resizes, changes a setting, drains and shuts down at will. It observes the
events of both (no output handler). The decoder takes the display size of the
packet; libvpx finds in the data whether it is a key frame. Packets do not say
which context coded them, as they do not in the code, and contexts of one size
and settings look alike. So `restarts`, which is history, has the frames whose
call of `Encode` did not keep the context it found, and `SameContext` says that
there is none of these after one frame, up to another.

### Muxer and recording

`settings` are the members of `vtkWEBMMuxer` that its `vtkSet` macros set, but
for `Framerate`, which nothing reads. `segment` and `writer` are
`Internals->segment` and `Internals->writer`. What is written is a sequence of
elements (the header of a segment, a cluster, a block, the cues), each of which
counts as one byte, so that positions are indices. libwebm writes the header
with the first block; `Accepts`, `NeedsNewCluster`, `Elements` and
`SegmentWith` are what `Segment::AddGenericFrame` does for one video track.
`files` are the files that were closed, `fetched` is what the application has
copied from `GetDynamicBuffer`; `given`, `refused`, `wasted`, `changedOpen`
are history. The application may call anything at any time: a fetch or a block
without a segment is a null pointer, and `crashed` stops the model.

What the model makes plain, and the properties are stated around:

* `AddFrame`'s result is ignored (`vtkWEBMMuxer.cxx:145`). A packet with an older timestamp than the
  last is refused, and nobody is told. That happens when an encoder restarts
  its counter without a change of size, say after a change of a setting
  (`RefusedOnlyAfterRestart`).
* A change of size starts a new segment only in memory. In a file it is logged.
* Closing a segment in memory deletes its buffer: the cues are written there
  and cannot be fetched, and bytes that were not fetched are gone. `wasted`
  says that the application has let that happen.
* `WriteFileHeader` twice, or a header for an application that closes late,
  abandons the segment in place without finalizing it.

`Recording` adds an encoder, of which it needs what packets show: contexts that
begin with a key frame, timestamps that rise in a context by one or more, and
that in the next context go on (NVENC) or start again. Frames that fail to encode
are counted too, so that any packet, the first of a context as well, may come
up to `MaxGap` frames later than the next.

### Factory

`registry` and `preferences` are the two static lists. A preference string is
given as its parts, a key with its values, which is what is left of it after
`SetPreferences` has split it at `;`, `=` and `,`; the splitting itself is left
out. Scores, ranking and the codec that is set are operators named as in the
code. `Ranked` says what `std::stable_sort` leaves: each backend comes behind
those before it in the order, and behind those level with it that registered
earlier, so its place is their number. `usable` is the machine: which of the backends with an `Available`
function answer yes, and that may change between calls. The properties do not
use the scores: `ServesBetter` and `Preferred` are the meaning that
`vtkEncoderFactory.h:86-100` gives to a preference string, by quantifiers over
values and keys. `asked`, a history, is the string that was set last, and
`AsAsked` what `vtkEncoderFactory.h` and `SetPreferences` say of a key that is
repeated: it keeps its first position and takes the last values. (The comment of `CreateEncoder` at line 113 speaks of backends
that satisfy every preference; the code ranks softly, as the comment of
`SetPreferences` says.) A word that means neither yes nor no, as a value of
`Hardware`, asks for software.

### Frame layout

`FrameLayout` has no state. It has the functions of `vtkRawVideoFrame` that say
how long a row is and where a plane begins, the texture that
`vtkOpenGLVideoFrame` allocates for them and the place `UploadData` puts each
row, the image of libvpx with the number of bytes the encoder copies to it, and
the address from which the VideoToolbox encoder takes rows. Nothing is checked
here by TLC: the statements are about all sizes, and are proved.

## 3. What is checked

| Run | Question | Bounds |
|---|---|---|
| `encoder_config` | Are stale contexts found, do contexts and packets have the configuration of their frames, and can a decoder follow? `TypeOK`, `StaleIffTouched`, `ContextIsCurrent`, `PacketsMatchTheirFrame`, `NewConfigurationStartsWithKey` | two lengths (four sizes), two settings, one setter call that changes something, 2 frames |
| `encoder_events` | Where is each frame, and does its packet come? `EveryFrameInOnePlace`, `DeliveredInOrder`, `OneReportPerFrame`, `ChunksAreDelivered` | 3 frames, calls nested 3 deep |
| `vpx` | What becomes of contexts, image and counter, and is this an encoder? `TypeOK`, `NothingLeaks`, `TimestampsRise`, `PacketsShowTheirFrame`, `ImplementsContract` | four sizes, two settings, 2 frames, 2 contexts, 2 deep |
| `nvenc` | What becomes of ring, session and resources, and when is this an encoder? `TypeOK`, `NextSlotIsFree`, `PacketsShowTheirFrame`, `SessionsAccountedFor`, `ResourcesMatchSlots`, `CrashesOnlyWithoutRing`, `ImplementsContract` | one, odd, length, rings of one slot and of two, one setter call, 3 frames, 2 sessions, one first failure, no nesting |
| `decoder` | Does a decoder that restarts, fails and is re-entered keep its order? `TypeOK`, `ShownInOrder`, `OneOrTwoReports`, `ShownPredictsFromShown` | four sizes, 3 packets, key frames or not, 2 deep, 2 failures |
| `pipeline` | Do the two ends agree? `EveryPacketDecodes`, `ShownAtSubmittedSize`, `NothingPredictedFromLost`, `EveryPacketIsDecoded` | four sizes, 3 frames, calls nested 2 deep, 1 failure in the decoder |
| `recording` | Which segment is a packet in, at what time, and what is lost? `TypeOK`, `NothingReadLateIsLost`, `BlocksFitTheirTrack`, `BlocksKeepTheirTime`, `CuesPointAtClusters`, `CrashesOnlyWithoutHeader`, `RefusedOnlyAfterRestart`, `DeltasFollowTheirReference` | two widths, two time scales, 3 packets, timestamps up to 3, 2 segments, one setter call, one frame missing between two |
| `factory` | Is the documented preference what decides? `TypeOK`, `ChosenIsBest`, `StrongestCodecHonoured` | 4 backends, 8 parts, strings of up to two parts |

Two lengths give frames that differ in width, in height, in both and in
neither. Two frames are enough for a context to be kept, replaced or lost
between them, and the third, where there is one, for what a nested call does
between two events of a result (a result can carry several packets, of frames
held before). The run of `NvEncoder` leaves sizes and nesting to the others; a
restart comes from a setting, between the first frame and the second, that
takes the ring from one slot to two or back. Its bound on faults counts the
first failure to receive (any number may follow), to make a bitstream buffer, or
to destroy a session; setups and encodings fail as often as they like. In `recording` a block may be one unit from the
start of its cluster (`MaxBlockTimecode`, 32767 in libwebm) and a cluster three
nanoseconds long (`MaxClusterDuration`, 30 s in libwebm), so that three packets
reach both limits; with two segments, one of them can be the one that a change
of size begins. In `factory` two parts are enough for a key to be repeated, to
come second, and to break the tie of the first; the values are chosen so that
every pair of backends is told apart by some part and tied by another. That a
repeated key keeps its place shows only when another key stands between its two
parts, which strings of two parts do not have: no run has `AsAsked`, which is
proved for strings of any length.

The histories make every run but `factory` finite only by their bounds:
`MaxFrames`, `MaxMTime`, `MaxDepth`, `MaxContexts`, `MaxPackets`,
`MaxDecodes`, `MaxFaults`, `MaxSessions`, `MaxPTS`, `MaxSegments`, `MaxChanges`,
`MaxGap`; each appears in one guard. `MaxGroups` bounds a preference string.
Deadlock is checked in `factory` only: at the bounds of the other runs
an application has nothing left to do, as it may stop at any time.

Four runs find a violation, of what the repository says of itself:

* `encoder_drain_eos`: `vtkVideoEncoder.h:62` says that Drain does not send an
  end of stream; `vtkVideoEncoder.cxx:175` calls `SendEOS`, drops what it
  returns, and the context stays in use.
* `vpx_unsupported_format`: for an RGB pixel format `SetupEncoderFrame` logs
  that it is unsupported, and goes on with an uninitialized image format
  (`vtkVpxEncoder.cxx:235-256`).
* `nvenc_is_initialized`: `vtkNvEncoderInternals.h:53` says that
  `IsInitialized` is true only of a session that is initialized for encoding;
  after a setup that failed in `AllocateInputBuffers` it is true of the next
  session as soon as that is open, and stays so when `InitializeEncodeCtx`
  returns early.
* `decoder_drain`: `Drain` of a VP9 decoder dereferences a null pointer
  (`vtkVpxDecoder.cxx:178`), as a comment of the tests warns.

Fairness is assumed for the two liveness properties only; the invariants of
the same runs do not depend on it. `FairSpec`: the callbacks of
the application return. `FairPipelineSpec`: they return, and the application
forwards the packets it was given; a call of `Decode` that has begun runs to
its end, since it is a function call on the one thread. Nothing is assumed of
libvpx, nor that the application ever encodes.

## 4. What is proved

`EncoderContractProofs` proves of `EncoderContract`, for every set of lengths
and settings and every value of the bounds (from `LengthsAssumption` and
`BoundsAssumption` only):

* `TypeCorrect`: `TypeOK` always holds.
* `StaleContextDetected`: `StaleIffTouched` always holds.
* `ContextCurrent`: `ContextIsCurrent` always holds.
* `PacketsMatch`: `PacketsMatchTheirFrame` always holds.

The type invariant is inductive. The other three are not on their own: that a
new packet matches its frame needs that the context, when `UpToDate` keeps it,
has the configuration in force, which is `ContextIsCurrent`; that holds only
if the modification time has found every setter, which is `StaleIffTouched`;
and the packets of frames held since earlier calls need the second half of
`ContextIsCurrent`. `ConfigInv` is the conjunction of the four, and is
inductive. The steps that matter are those of `Encode`, in three cases (the
context is kept, replaced, or lost), and of `CallBackReturns`, which moves
packets from a call to the stream. The proof restates the two properties of
packets as membership of sequences in sets of matching packets
(`PacketsInPacketsAs`, `HoldsFramesAs`), so that one set of lemmas on
appending, taking tails and extending `submitted` serves the types and the
configuration.

Of the order of packets it proves, from the same assumptions:

* `AlwaysDeliveredInOrder`: `DeliveredInOrder` always holds.
* `AlwaysKeyFirst`: `NewConfigurationStartsWithKey` always holds.
* `AlwaysOneReport`: `OneReportPerFrame` always holds.

The first two speak of packets that were delivered, and need to know of those
that are still to come. `OrderInv` says that the frames held rise, and that,
unless `Encode` was called between two events of one result, only the call on
top has events to come, and what is `Coming`, the stream followed by those
events, is in order, begins each configuration with a key frame, precedes the
frames held, and, when the context has begun, ends in its configuration. That
a replaced context starts with a key frame then extends `Coming` by packets
that are allowed to follow. `ReportInv` is `OneReportPerFrame` and that a call
made for an output handler has no events to come.

It also proves `NoFrameLostOrTwice`: `EveryFrameInOnePlace`
always holds. `PlacesInv` states it as a partition and adds that no two packets
in events to come are of one frame, so that an event that is delivered leaves
none of its frame behind; that the frames held are distinct comes from
`OrderInv`.

So all eight invariants that the runs of `EncoderContract` check are proved, and only
`ChunksAreDelivered`, which needs fairness, is left to TLC.

`VpxEncoderProofs` proves of `VpxEncoder`, from `LengthsAssumption`,
`VpxAssumption` and `NullAssumption` (a null pointer is no record):

* `InternalsTyped`, `NativesAccountedFor`, `TimestampsAlwaysRise`: `TypeOK`,
  `NothingLeaks` and `TimestampsRise` always hold.
* `PacketsAlwaysShowTheirFrame`: `PacketsShowTheirFrame` always holds, if all
  pixel formats are supported ones (`SupportedOnly`). The run
  `vpx_unsupported_format` shows what happens otherwise.

`NothingLeaks` is inductive only together with `ContextInv`: the encoder is
initialized exactly when it has a context and an image, because `Shutdown`
frees both and asks for neither; the context is the last one made, with which
`TimestampsRise` goes on; image and context have one size, without which
libvpx would refuse the frame. `VpxInv` is the conjunction of these and the
types. `TimestampsRise` needs `TimeInv` besides: the packets of the current
context have timestamps below `sendCounter`, and no packet is of a context that
was not made. `PacketsShowTheirFrame` needs `VpxInv`; the refinement needs
`FormatInv` as well, that the image of an initialized encoder has the format
its context was told.

It also proves `VpxImplementsContract`: with `SupportedOnly`, `Spec`
implies `ImplementsContract`. Every initial state maps to one of the contract,
and every step to the step of the same name or to none, from `VpxInv` and
`FormatInv`. That the context kept by `UpToDate` still has the size of the
frame is the part of `ContextInv` the mapping needs.

So what is proved of `EncoderContract` holds of the VP9 encoder, where it says
more than in general. An encoding gives one packet or none, so that no event is
left to come when a callback may call `Encode`, and the encoder is `Alone`: it
is never `reentered`, and no frame waits. With `SupportedOnly`:

* `VpxAnswersEveryFrame`: each frame that was submitted was delivered or refused.
* `VpxStreamCanBeFollowed`: packets come in the order of their frames, with the
  size and the settings these were given with, and a packet that differs in
  them from the one before it is a key frame, whatever callbacks call.
* `VpxReportsOnce`: a handler hears of each frame once, in that order.

`VpxIsRecordable` is what `Recording` takes for granted, and needs no assumption
on pixel formats: each packet goes on in the context and size of the one before
and is later, or begins a later context with a key frame. `RecordableInv`
adds that the last packet is of the current context if that has given one out.

`VpxDecoderProofs` proves of `VpxDecoder`, from `VpxDecoderAssumption` only:

* `TypesKept`: `TypeOK` always holds.
* `FramesInOrder` and `NothingPredictedFromUnseen`: `ShownInOrder` and
  `ShownPredictsFromShown` always hold.
* `ReportedOnceOrTwice`: `OneOrTwoReports` always holds.

The type invariant is inductive. For the order of frames `OrderInv` adds what
happens between two callbacks of one call: unless a callback calls `Decode`,
one call waits at most and it is for the last packet; if it has yet to decode
that packet, nothing was shown for it, and the context, which a callback may
have made meanwhile, has no picture; and a context that has a picture has that
of the last packet, which was shown. `ReportsInv` holds at any depth of nesting:
the calls that have yet to decode are for different packets, and each of these
was reported once at most, as an error.

`StreamPipelineProofs` proves of `StreamPipeline`, from the assumptions of
both its halves and `PipelineAssumption`:

* `AlwaysShownAtSubmittedSize`: `ShownAtSubmittedSize` always holds.
* `AlwaysDecodes`: `EveryPacketDecodes` always holds.
* `AlwaysPredictedFromShown`: `NothingPredictedFromLost` always holds.

Each step of the pipeline is one of the encoder, one of the decoder or neither,
so that `PipelineSpec` implies both their specifications, and the invariants
proved of each half hold here. `LinkInv` ties the halves: the decoder has been
given the first `nextPacket` packets of the stream, with their size and whether
they are key frames. `DecodesInv` says that a decoder that has a picture has
that of the last packet it was given, in the size of that packet, unless
libvpx has failed; with `AlwaysKeyFirst` of the encoder, the packet after it
then decodes. `RestartInv` is for the contexts of the encoder: of two packets in
a row, with a frame in `restarts` after the first's, up to the second's, the
second is a key frame (`Within`), and so is the next packet of a context that
has given none (`Past`). It follows step by step from what `EncodeEffectBy` says
of `Encode`, which is that the packets of a call are those of a context that it
kept, or that it made for this frame; a packet that is no key frame is therefore
predicted from its own context. The application may call `Encode` between two events of one
result; the order of packets, and with it the last two properties, is claimed
up to then only.

`NvEncoderProofs` proves of `NvEncoder`, from `LengthsAssumption`,
`NvAssumption` and `NullAssumption` (a null pointer is no context and no
record), for every lookahead, every setting and any number of sessions and
faults:

* `TypeCorrect`: `TypeOK` always holds.
* `SlotFree`: `NextSlotIsFree` always holds.
* `PacketsRight`: `PacketsShowTheirFrame` always holds.
* `SessionsRight` and `ResourcesRight`: `SessionsAccountedFor` and
  `ResourcesMatchSlots` always hold.
* `CrashesExplained`: `CrashesOnlyWithoutRing` always holds.

All these follow from `NvInv`, which is inductive (`NvInvariant`). Each function
of the model has a lemma of what its results have in common with the state it
was called in (`FlushEnds`, `ShutDownEnds`, `SetUpEnds`, `SetUpFailsEnds`,
`EncodeInternalKeeps` and those below them), because `Encode` is several of
them in a row; an action then needs little more than their composition. The
parts of `NvInv` that no property states say when each of these functions may
be called. `IdleInv`: without a context, every frame that was sent was received
or receiving has failed, so the counters, which no setup resets, begin equal on
a ring of any size; and the resources that are still there are of sessions
that nothing will close. `ReadyInv`: with a context the ring is gone only if the
window has taken it; otherwise (`RingFits`) it has as many slots as its
parameters ask for, more than the frames in flight, its pictures have the size
of the session, and the slot of a frame in flight shows that frame or, after a
failure to receive, a later one. `CrashInv` says what a crash leaves. That the
driver holds fewer frames than the ring has slots is arithmetic on
`BufferCount` and `DriverHolds` (`RingSizes`), and that frames in flight then
have slots of their own is `RemaindersDiffer`.

It also proves `NvImplementsContract`: `Spec` implies `ImplementsContract`.
Every initial state maps to one of the contract, and every step that ends in a
`Sound` state to the step of the same name or to none. `Encode` is
several functions in a row but one step of the contract, so each has a lemma of
what it adds to the mapped state: `GivesUp` says which waiting frames are
dropped by a Drain or a teardown that receives everything, and `MappedStable`
that the packets given out before are seen as before when `Encode` submits one
more frame. Beyond `NvInv` the mapping needs `HeldInv`, which is inductive with
it: every frame that waits in the driver was submitted with the size and the
parameters of the session and, when it was to be a key frame, its picture is one
(`HeldFits`); and as long as a session gave no packet out, the next it gives is
a key frame (`FirstKey`).

So what is proved of `EncoderContract` holds of the NVENC encoder up to the first
state that is not `Sound`. `SoundImplementsContract` says that a behaviour that
stays `Sound` is one of the contract, and `SoundKeepsContract` which promises it
keeps: the packets match their frames, each frame is in one place, packets are
delivered in order, a new configuration starts with a key frame, and a handler
hears of each frame once. (A behaviour that will be unsound is, up to there
and standing still from then on, one that stays `Sound`.)

`RecordingProofs` proves of `WebmMuxer`, whose packets may then be any, from
`MuxerAssumption` and `NoneAssumption` (a null pointer is no segment and no
writer):

* `MuxerTypeCorrect` and `MuxerCrashesExplained`: `TypeOK` and
  `CrashesOnlyWithoutHeader` always hold.
* `CuesRight`: `CuesPointAtClusters` always holds.
* `ReadInTimeIsKept`, `MemoryFitsTheTrack` and `PlayedAtTheirTime`:
  `NothingReadLateIsLost`, `BlocksFitTheirTrack` and `BlocksKeepTheirTime`
  always hold.

`RecordingIsMuxer` adds that every behaviour of `Recording` is one of the muxer,
so that these hold of a recording too; and of `Recording` it proves
`RefusedOnlyAfterAContext` and `DeltasAfterTheirReference`:
`RefusedOnlyAfterRestart` and `DeltasFollowTheirReference` always hold.

`TypeInv` is the types and that no more
of the buffer was read than is in it. Cues: `CueInv` says that of an open file
the segment's header is the first element, from which positions count, and that
the points collected so far are right already; that nothing is moved later is
the part of it that `Flush` could break, were it to empty a file's buffer.

The other three are about recordings as they can be played, a block with the
header and the cluster before it. In memory these grow only when the
application reads, so the invariant is about `MemoryStream`, what was read
followed by what waits, of which a recording is a prefix (`StreamPrefix`).
`StreamInv`: every stream is `Good`, its blocks are numbered in order and each
is timed right with respect to its header and cluster, and together the
streams hold the packets taken; `SegmentInv`: the stream that the segment in
place is a part of `Ends` with a header and a cluster that are the segment's,
and the cluster does not start after the last block; `FitInv` ties the size of
the segment in memory to the muxer's and compares each block with its header.
`AddPlays` is what `AddFrame` does to such a stream, a header when there is
none, a cluster when one is due (`ReadyForBlock`), the block (`OneMoreBlock`);
`LetGoPlays` is what becomes of it when a writer is let go.

The two of `Recording` add what an encoder's packets have in common. `GivenInv`:
the last packet given is the encoder's last, contexts never come back, and
times rise in each; `TakenInv`: the last time of the segment in place, which
decides what libwebm refuses, is that of a packet in it, of the segment's size
when it is in memory. A packet that is refused is older than this one, so it
is of a later context. `KeyInv`: a packet that is not a key frame continues the
context of the packet before. `FollowInv`: as long as nothing was refused, lost
or cut (`Whole`), in every stream each such block follows the packet before it
in a segment, and the last packet given is in the segment in place, whose size
in memory is the encoder's. So a packet that starts a segment there has another
size, is the first of its context, and is a key frame.

`FrameLayoutProofs` proves statements about `FrameLayout` for all sizes:

* `SizesAgree`: the size computed with strides, without them, and the size of
  the texture are the same number of bytes.
* `PlanesTile`: planes follow each other without gap or overlap, and end where
  the picture does.
* `UploadedWhereExpected`: `UploadData` puts each row where
  `GetPlanePointerIdx` looks for it, also of the chroma planes of which two
  rows share one of the texture.
* `CopyFillsImage`: the three block copies of `EncodeInternal` stay in the
  frame's bytes and in the plane of libvpx's image, have rows of the same
  length on both sides, and fill the image, whose lines the encoder asks libvpx
  to align to 8 bytes.
* `NothingOverflows`: a picture of up to 8k by 8k pixels needs at most 256 k^2
  bytes.
* `ChromaOffsetsOfAlignedHeight`: `GetChromaOffsets` agrees with
  `GetPlanePointerIdx` exactly for heights that are multiples of 8.
* `VideoToolboxMisreadsNV12`: the VideoToolbox encoder reads rows of the chroma
  of NV12 half as far apart as they are (`vtkVideoToolboxEncoder.cxx:712`).
* `SizeDoesNotTellShape`: two sizes whose sides are exchanged need as many
  bytes but not the same texture, which `AllocateDataStore`
  (`vtkOpenGLVideoFrame.cxx:333`) then does not replace.

The last three say of the code that it is right only under a condition. They
are not findings: no comment or test of the repository says otherwise.

`EncoderFactoryProofs` proves of `EncoderFactory`, for any set of backends, with
any attributes, and preference strings of any length (from
`DescriptorAssumption`, that no two backends have one name and each declares
the codec it begins with; `GroupsAssumption`, that a preference is a key with
values; `BoundAssumption`; and `NullAssumption`, a null pointer is no encoder):

* `FactoryTypeCorrect`: `TypeOK` always holds.
* `PreferencesAreAsAsked`: `AsAsked` always holds (which no run checks).
* `BestIsChosen` and `StrongestCodecIsSet`: `ChosenIsBest` and
  `StrongestCodecHonoured` always hold.
* `PreferredIsStrictTotalOrder`: what is documented of strength orders any
  backends strictly and totally, so `BestIsChosen` leaves one choice.

`FactoryInv` is inductive: the types, that the preferences list the parts of
the string (`Asked`), and the two properties of what was chosen. The work is in
what the operators compute. A rank, which the code finds by counting values, is
lower exactly when the documented words say that the backend serves the
preference better (`LowerServesBetter`), so the order of scores is the
documented one (`BeforeIsPreferred`), and it is strict and total
(`BeforeIsAsymmetric`, `BeforeIsTransitive`, `BeforeIsTotal`). The place of a
backend is the number of those ahead of it; these numbers differ and are below
the number of backends, so there is one backend for each place, and `Ranked` is
sorted (`RankedIsSorted`). The first available backend of a sorted list is
preferred to all that are available.

The preferences are a fold over the string, whose library definition chooses a
recursive function on sets of indices. That there is such a function
(`FoldExists`) and that it puts the parts in one after the other
(`FoldIsStepwise`) is shown without an induction rule: a number of parts for
which it failed would have a least one (`LeastExists`, from the well-foundedness
of the naturals), and that one follows from its predecessor. The same way,
`Lists`, what the first n parts of a string leave, extends to all of them
(`FoldLists`).

So every invariant and every refinement that a passing run checks is proved for all values of the
constants. Only model-checked: the two liveness properties,
`ChunksAreDelivered` and `EveryPacketIsDecoded`, which rest on fairness, and
with it on `ENABLED`, where TLAPS does not reach. No recursive operator is used.

## 5. What is not modelled

* The VideoToolbox encoder, but for the address it reads rows from. It is built
  on macOS only. Its output callback looks like an actor of its own, but
  `EncodeInternal` waits in `VTCompressionSessionCompleteFrames` until it was
  called, so what the application sees is what `EncoderContract` allows of a
  subclass that holds no frame. With one exception: a frame that VideoToolbox
  drops, or whose sample buffer is not ready, is reported as a success without
  a packet (`vtkVideoToolboxEncoder.cxx:413`), and is in no place of the
  contract.
* Capture, rendering, shaders, and the life of textures in their OpenGL
  context.
* libvpx, libwebm and the NVENC header are vendored. Of them the models reach
  what the library asks of them: the parts of `mkvmuxer.cc` and `vpx_image.c`
  that `WebmMuxer` and `FrameLayout` name, and what a codec or a driver may
  answer. Codecs proper, the parser, and everything no function of this
  repository calls stay out; they are most of the lines under `src/`.
* The loaders of shared libraries, tables of names, build and packaging,
  `PrintSelf` and logging, timings (`GetLastEncodeTimeNS` and the like).
* Inside the factory the splitting of a preference string; inside the muxer
  `Framerate`, which nothing reads.

Simplifications inside the modules: frames given to the VP9 encoder have the
pixel format it was told, as in the examples; `vpx_img_alloc` does not run out
of memory; the application does not give the encoder another graphics context;
destruction is `Shutdown`. The pipeline loses no packet. Of the NVENC encoder:
the mapping of single inputs, whose failures are logged and ignored; the
`abort()` of `RegisterResource`; `SupportsCodec` and codecs it denies;
`CheckAvailability`, which belongs to the factory. The muxer is given a file
name of its own for each file, and a write to an open file succeeds; packets
have data; each element of a file counts as one byte.

## 6. Plan

Done: the encoder, its VP9 and NVENC subclasses, the decoder, the pipeline, the
muxer and a recording, the factory, the layout of frames; the proofs of section
4. Left, in this order:

1. `NvEncoder`: mapped inputs, and another graphics context.
2. `GLVideoFrame`: the textures of a frame and the window that owns them.
3. `VideoToolboxEncoder`: the drops above, and the Annex B search for parameter
   sets.

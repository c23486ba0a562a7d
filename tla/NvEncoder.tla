----------------------------- MODULE NvEncoder -----------------------------
(***************************************************************************)
(* vtkNvEncoderGL and vtkNvEncoderInternals: the H.264 and H.265 encoder   *)
(* on NVENC.  A session of the driver encodes from a ring of input frames, *)
(* each an OpenGL texture that CUDA has registered, into a ring of         *)
(* bitstream buffers.  A frame may wait in the driver for later ones.      *)
(*                                                                         *)
(* NVENC, CUDA and the render window are external: their calls fail, the   *)
(* driver asks for more input, the window releases its resources or goes   *)
(* away.  What the encoder does is a function from a state to the set of   *)
(* states its calls can leave, so that Encode can be one after the other.  *)
(***************************************************************************)
EXTENDS VideoEncoder

CONSTANTS
  LookaheadDepth,   (* Frames the preset of NVENC looks ahead.              *)
  Null,             (* No session, or no bitstream buffer.                  *)
  Stale,            (* A bitstream buffer destroyed with a former session.  *)
  MaxSessions,      (* Bound on the sessions opened.                        *)
  MaxFaults         (* Bound on first failures to receive, to make a
                       bitstream buffer, and to destroy a session.          *)

NvParams ==
  [inputPixelFormat : {"NV12", "IYUV", "RGBA32"}, lowDelayMode : BOOLEAN,
   keyFramesOnly : BOOLEAN, maximumBFrames : Int]

ASSUME NvAssumption ==
  /\ Params \subseteq NvParams
  /\ LookaheadDepth \in Nat
  /\ MaxSessions \in Nat
  /\ MaxFaults \in Nat

(* A null pointer is no window, no session and no bitstream buffer, and the
   handle of a buffer that was destroyed holds no picture. *)
ASSUME NullAssumption ==
  /\ Null # "context"
  /\ Null \notin [id : Nat, w : Nat, h : Nat, params : NvParams, usable : BOOLEAN,
                  fresh : BOOLEAN, started : BOOLEAN, eos : BOOLEAN]
  /\ Null \notin [frame : Nat, key : BOOLEAN]
  /\ Stale \notin [frame : Nat, key : BOOLEAN]
  /\ Stale # Null

VARIABLES
  nv,               (* the members of both classes, and the driver's state  *)
  window            (* the GraphicsContext: "kept", "released" its resources
                       or "destroyed"                                       *)

vars == <<baseVars, nv, window>>

(* cuda: CUDADriverAvailable, with a context or, "failed", without;
   session: NvEncSession with the parameters it was initialized with (usable),
   whether the next picture begins a stream (fresh), a packet was given out
   (started) and the end was announced (eos); ready: NvEncInitialized;
   registered: the window knows ResourceCallback; resources: the session each
   of the CUDA resources was made for; count: NvEncBufferCount;
   slots: the handles of the bitstream buffers, with the picture coded into
   each;
   accepted: the frames sent, so that NvEncSendCounter is its length;
   recv: NvEncRecvCounter.  The rest is history: live are the sessions open in
   the driver, lost those that nothing will close. *)
NoNv ==
  [cuda |-> "none", session |-> Null, ready |-> FALSE, registered |-> FALSE,
   resources |-> <<>>, count |-> 0, slots |-> <<>>, accepted |-> <<>>, recv |-> 0,
   opened |-> 0, live |-> {}, lost |-> {}, dropped |-> {},
   receiveFailed |-> FALSE, faults |-> 0, crashed |-> FALSE]

Init == BaseInit /\ nv = NoNv /\ window = "kept"

IsInitialized(s) == s.session # Null /\ s.ready
Sent(s) == Len(s.accepted)
Crash(s) == [s EXCEPT !.crashed = TRUE]
WithinFaults(S) == {s \in S : s.faults <= MaxFaults}

(* One step of the code after another, unless the first crashed. *)
Then(S, Step(_)) == UNION {IF s.crashed THEN {s} ELSE Step(s) : s \in S}
-----------------------------------------------------------------------------
(* Receive locks the buffers from recv on, in order.  A lock that fails leaves
   the rest to the next call; when unlocking or unmapping fails the packet is
   given out, but recv stays before it.  Once that has happened the driver may
   fail at any time. *)

(* The slot of the n-th frame sent, from 1. *)
Slot(s, n) == ((n - 1) % s.count) + 1

Empty == [frame |-> 0, key |-> FALSE]

(* There is nothing to lock in such a slot. *)
NoPicture == {Empty, Null, Stale}

Received(s) ==
  {o \in [upTo : s.recv..Sent(s), recv : s.recv..Sent(s)] :
     /\ o.recv = o.upTo \/ o.recv = o.upTo - 1
     /\ \A n \in (s.recv + 1)..o.upTo : s.slots[Slot(s, n)] \notin NoPicture
     /\ o.recv < Sent(s) => s.receiveFailed \/ s.faults < MaxFaults}

(* Fault: a packet counts twice. *)
AfterReceiveCountsTwice(s, o) ==
  [s EXCEPT !.recv = IF o.recv > @ THEN o.recv + 1 ELSE @]

AfterReceive(s, o) ==
  LET complete == o.recv = Sent(s)
  IN [s EXCEPT !.recv = o.recv,
               !.receiveFailed = @ \/ ~complete,
               !.faults = IF complete \/ s.receiveFailed THEN @ ELSE @ + 1]

(* Fault: the frames an output delay would leave are left. *)
ReceiveAndDropDelayed(s) ==
  LET end == Sent(s) + 1 - s.count
  IN IF s.count = 0
     THEN {IF s.recv < Sent(s) THEN Crash(s) ELSE s}
     ELSE {[s EXCEPT !.recv = IF end > @ THEN end ELSE @,
                     !.dropped = @ \cup Range(SubSeq(s.accepted, s.recv + 1, end))]}

(* Nobody gets the packets.  Without a ring the slot of a frame that is left is
   a remainder modulo zero. *)
ReceiveAndDrop(s) ==
  IF s.count = 0
  THEN {IF s.recv < Sent(s) THEN Crash(s) ELSE s}
  ELSE {[AfterReceive(s, o) EXCEPT
           !.dropped = @ \cup Range(SubSeq(s.accepted, s.recv + 1, o.recv))] :
        o \in Received(s)}

(* The driver takes the end of the stream, after which a new one begins, or
   refuses it and gives out no frame that waits. *)
EndTaken(s) ==
  ReceiveAndDrop([s EXCEPT !.session.fresh = TRUE, !.session.eos = TRUE])

EndRefused(s) ==
  WithinFaults({AfterReceive([s EXCEPT !.session.eos = TRUE],
                             [upTo |-> s.recv, recv |-> s.recv])})

(* SendEOS of vtkNvEncoderGL receives in either case, and so needs a ring;
   Flush of vtkNvEncoderInternals receives in the first. *)
SendEOS(s) == EndTaken(s) \cup (IF s.count = 0 THEN {} ELSE EndRefused(s))
Flush(s) == EndTaken(s) \cup EndRefused(s)
-----------------------------------------------------------------------------
(* Teardown. *)

(* Fault: the CUDA resources stay in their list. *)
ReleaseGLResourcesOnly(s, context) ==
  IF ~IsInitialized(s)
  THEN {s}
  ELSE Then(Flush(s), LAMBDA t :
         {[t EXCEPT !.count = 0, !.crashed = (context = Null)]})

(* ReleaseGLResources(context): UnregisterInputResources, then the context is
   made current, which a null one is not. *)
ReleaseGLResources(s, context) ==
  IF ~IsInitialized(s)
  THEN {s}
  ELSE Then(Flush(s), LAMBDA t :
         {[t EXCEPT !.count = 0, !.resources = <<>>, !.crashed = (context = Null)]})

(* ResourceCallback->Release(), by the encoder or by the window: nothing, once
   it was called. *)
Release(s) ==
  IF ~s.registered
  THEN {s}
  ELSE Then(ReleaseGLResources(s, "context"), LAMBDA t : {[t EXCEPT !.registered = FALSE]})

(* Shutdown of vtkNvEncoderInternals: the bitstream buffers and the session are
   destroyed, or an error leaves the session as it is.  NVENC refuses to destroy
   a buffer of a former session. *)
DestroySession(s) ==
  LET left == [s EXCEPT !.lost = @ \cup {s.session.id}]
  IN IF ~IsInitialized(s)
     THEN {s}
     ELSE IF Stale \in Range(s.slots)
     THEN {left}
     ELSE {[s EXCEPT !.live = @ \ {s.session.id}, !.session = Null, !.ready = FALSE]}
          \cup WithinFaults({[left EXCEPT !.faults = @ + 1]})

(* Fault: the session is left to the next one. *)
ShutdownInternalLeavesSession(s) ==
  Then(Release(s), LAMBDA t : {[t EXCEPT !.cuda = "none"]})

ShutdownInternal(s) ==
  Then(Then(Release(s), DestroySession), LAMBDA t : {[t EXCEPT !.cuda = "none"]})

GraphicsContext == IF window = "destroyed" THEN Null ELSE "context"

(* Shutdown: Drain, TearDownEncoderFrame, ShutdownInternal. *)
ShutDown(s) ==
  Then(Then(SendEOS(s), LAMBDA t : ReleaseGLResources(t, GraphicsContext)),
       ShutdownInternal)
-----------------------------------------------------------------------------
(* Setup. *)

(* TweakFromEncoderObject. *)
FrameIntervalP(p) ==
  CASE p.keyFramesOnly -> 0
    [] ~p.keyFramesOnly /\ p.maximumBFrames > 0 -> 3
    [] ~p.keyFramesOnly /\ p.maximumBFrames <= 0 -> IF p.lowDelayMode THEN 1 ELSE 2

(* Fault: one buffer for each frame that waits. *)
BuffersWaiting(p) ==
  LET waiting == FrameIntervalP(p) + LookaheadDepth - 1
  IN IF waiting <= 0 THEN 1 ELSE waiting

(* NvEncBufferCount of InitializeEncodeCtx. *)
BufferCount(p) ==
  LET frames == FrameIntervalP(p) + LookaheadDepth
  IN IF frames = 0 THEN 1 ELSE frames

(* 4:2:0 formats have even sizes. *)
Coded(length, p) ==
  IF p.inputPixelFormat = "RGBA32" THEN length ELSE length - (length % 2)

(* CUDA is loaded and initialized unless that was done, or has been tried: a
   failure after the library was loaded is not tried again. *)
CudaReady(s) ==
  IF s.cuda = "failed" THEN {} ELSE {[s EXCEPT !.cuda = "context"]}

CudaNotReady(s) == {s} \cup IF s.cuda = "none" THEN {[s EXCEPT !.cuda = "failed"]} ELSE {}

(* OpenEncodeSession.  A session that is there is forgotten. *)
Open(s, w, h) ==
  IF s.opened = MaxSessions
  THEN {}
  ELSE {[s EXCEPT !.opened = @ + 1,
                  !.live = @ \cup {s.opened + 1},
                  !.session = [id |-> s.opened + 1, w |-> w, h |-> h, params |-> params,
                               usable |-> FALSE, fresh |-> TRUE, started |-> FALSE,
                               eos |-> FALSE]]}

Opened(s, w, h) == Then(CudaReady(s), LAMBDA t : Open(t, w, h))

(* InitializeBitstreamBuffers fills the ring up to the first buffer that cannot
   be made.  The ring was resized, not cleared: behind, it has the handles that
   it had. *)
Ring(s, n, made) ==
  [i \in 1..n |->
     IF i <= made THEN Empty
     ELSE IF i \in DOMAIN s.slots /\ s.slots[i] # Null THEN Stale
     ELSE Null]

(* InitializeEncodeCtx.  It does not look whether the bitstream buffers could
   all be made. *)
InitializeEncodeCtx(s) ==
  LET n == BufferCount(s.session.params)
  IN WithinFaults(
       {[s EXCEPT !.session.usable = TRUE, !.ready = TRUE, !.count = n,
                  !.slots = Ring(s, n, made),
                  !.faults = IF made = n THEN @ ELSE @ + 1] : made \in 0..n})

(* It refuses the codec or the size, or NVENC refuses to initialize. *)
EncodeCtxFails(s) == {s, [s EXCEPT !.ready = FALSE]}

(* AllocateInputBuffers, after the registration of its first n resources. *)
Allocate(s, n) ==
  [s EXCEPT !.registered = TRUE,
            !.resources = @ \o [i \in 1..n |-> s.session.id]]

InputBuffersAllocated(s) ==
  IF GraphicsContext = Null THEN {} ELSE {Allocate(s, s.count)}

InputBuffersFail(s) ==
  IF GraphicsContext = Null THEN {s} ELSE {Allocate(s, n) : n \in 0..s.count}

(* Initialize succeeds, and fails; a session that was opened stays open. *)
SetUp(s, w, h) ==
  Then(Then(Opened(s, w, h), InitializeEncodeCtx), InputBuffersAllocated)

SetUpFails(s, w, h) ==
  LET started == Opened(s, w, h)
  IN CudaNotReady(s) \cup CudaReady(s)
     \cup {[t EXCEPT !.lost = @ \cup {t.session.id}] :
             t \in Then(started, EncodeCtxFails)
                   \cup Then(Then(started, InitializeEncodeCtx), InputBuffersFail)}
-----------------------------------------------------------------------------
(* The operations of an encoder. *)

Initialize ==
  /\ ~nv.crashed
  /\ ~initialized
  /\ \/ SetupSucceeded /\ nv' \in SetUp(nv, width, height)
     \/ SetupFailed /\ nv' \in SetUpFails(nv, width, height)
  /\ UNCHANGED <<width, height, forceIFrame, handlerSet, output, window>>

Shutdown ==
  /\ ~nv.crashed
  /\ initialized
  /\ nv' \in ShutDown(nv)
  /\ initialized' = nv'.crashed
  /\ UNCHANGED <<config, mtime, lastSetupMTime, touched, output, window>>

Drain ==
  /\ ~nv.crashed
  /\ initialized
  /\ nv' \in SendEOS(nv)
  /\ UNCHANGED <<baseVars, window>>

(* The window releases its graphics resources, as when it goes away. *)
WindowReleases ==
  /\ ~nv.crashed
  /\ window # "destroyed"
  /\ window' \in {"released", "destroyed"}
  /\ nv' \in Release(nv)
  /\ UNCHANGED baseVars

(* A packet has the size of the session and is stamped with recv, which is
   not reset for a new session. *)
Packet(s, n) ==
  LET picture == s.slots[Slot(s, n)]
  IN [frame |-> s.accepted[n],
      w |-> Coded(s.session.w, s.session.params),
      h |-> Coded(s.session.h, s.session.params),
      params |-> s.session.params, key |-> picture.key, ts |-> n - 1,
      pixels |-> picture.frame]

(* Fault: the frame goes to the slot before its own. *)
AcceptInSlotBefore(s, key) ==
  [s EXCEPT !.accepted = Append(@, NextFrame),
            !.slots[Slot(s, Sent(s))] = [frame |-> NextFrame, key |-> key],
            !.session.fresh = FALSE]

(* Send: the driver takes the frame in.  A picture that begins a stream is a
   key frame, and so is one that is asked to be. *)
Accept(s, key) ==
  [s EXCEPT !.accepted = Append(@, NextFrame),
            !.slots[Slot(s, Sent(s) + 1)] = [frame |-> NextFrame, key |-> key],
            !.session.fresh = FALSE]

(* At most so many frames in a row wait for more input. *)
DriverHolds(p) == FrameIntervalP(p) + LookaheadDepth - 1

EncodeAccepted(s) ==
  \/ /\ Sent(s) - s.recv <= DriverHolds(s.session.params) \/ s.receiveFailed
     /\ nv' = s
     /\ ReportResult("Error", <<>>)
  \/ \E o \in Received(s) :
       /\ nv' = [AfterReceive(s, o) EXCEPT !.session.started = @ \/ o.upTo > s.recv]
       /\ ReportResult(IF o.recv = Sent(s) THEN "Success" ELSE "Error",
                       [i \in 1..(o.upTo - s.recv) |-> Packet(s, s.recv + i)])

EncodeInternal(s) ==
  \/ /\ s.count = 0
     /\ nv' = Crash(s)
     /\ UNCHANGED <<calls, reports, stream, failed>>
  \/ /\ s.count > 0
     /\ nv' = s
     /\ failed' = failed \cup {NextFrame}
     /\ ReportResult("Error", <<>>)
  \/ /\ s.count > 0
     /\ s.slots[Slot(s, Sent(s) + 1)] \notin {Null, Stale}
     /\ \E key \in BOOLEAN :
          /\ s.session.fresh \/ forceIFrame => key
          /\ EncodeAccepted(Accept(s, key))
     /\ UNCHANGED failed

Encode(w, h) ==
  /\ ~nv.crashed
  /\ Submit(w, h)
  /\ UNCHANGED window
  /\ \/ /\ UpToDate(w, h)
        /\ EncodeInternal(nv)
        /\ UNCHANGED <<params, setup>>
     \/ /\ ~UpToDate(w, h)
        /\ \E s \in (IF initialized THEN ShutDown(nv) ELSE {nv}) :
             \/ /\ s.crashed
                /\ nv' = s
                /\ UNCHANGED <<params, setup, calls, reports, stream, failed>>
             \/ /\ ~s.crashed
                /\ SetupSucceeded
                /\ \E t \in SetUp(s, w, h) : EncodeInternal(t)
             \/ /\ ~s.crashed
                /\ SetupFailed
                /\ nv' \in SetUpFails(s, w, h)
                /\ ReportNoContext

Next ==
  \/ Setter /\ ~nv.crashed /\ UNCHANGED <<nv, window>>
  \/ Initialize
  \/ Shutdown
  \/ Drain
  \/ WindowReleases
  \/ \E w, h \in Lengths : Encode(w, h)
  \/ CallBackReturns /\ ~nv.crashed /\ UNCHANGED <<nv, window>>

Spec == Init /\ [][Next]_vars
-----------------------------------------------------------------------------
(* An encoder on NVENC honours the contract as long as every packet could be
   received and the window keeps its resources. *)

Sound == ~nv.receiveFailed /\ ~nv.crashed /\ (initialized => nv.count > 0)

AbstractContext ==
  IF ~initialized
  THEN Null
  ELSE [w |-> nv.session.w, h |-> nv.session.h, params |-> nv.session.params,
        held |-> SubSeq(nv.accepted, nv.recv + 1, Sent(nv)),
        started |-> nv.session.started, eos |-> nv.session.eos]

(* A coded length stands for the length it was rounded from. *)
Exact(coded, length, p) == IF coded = Coded(length, p) THEN length ELSE coded

AbstractPacket(p) ==
  [frame |-> p.frame,
   w |-> Exact(p.w, submitted[p.frame].w, p.params),
   h |-> Exact(p.h, submitted[p.frame].h, p.params),
   params |-> p.params, key |-> p.key]

AbstractPackets(s) == [i \in DOMAIN s |-> AbstractPacket(s[i])]

Contract == INSTANCE EncoderContract WITH
  NoContext <- Null,
  stream <- AbstractPackets(stream),
  calls <- [i \in DOMAIN calls |->
              [frame |-> calls[i].frame, rest |-> AbstractPackets(calls[i].rest)]],
  context <- AbstractContext,
  dropped <- nv.dropped

(* Every step of vtkNvEncoderGL, setups that fail included, is one that the
   contract allows: frames that wait in the driver come out in order, once,
   with the settings they were submitted with. *)
ImplementsContract == Contract!Init /\ [][Sound' => Contract!Next]_(Contract!vars)
-----------------------------------------------------------------------------
(* Properties. *)

SessionIds == 1..MaxSessions
Sessions ==
  [id : SessionIds, w : Lengths, h : Lengths, params : Params, usable : BOOLEAN,
   fresh : BOOLEAN, started : BOOLEAN, eos : BOOLEAN]
Pictures == [frame : Frames \cup {0}, key : BOOLEAN]

(* The members hold values of their types. *)
TypeOK ==
  /\ nv.cuda \in {"none", "failed", "context"}
  /\ nv.session \in Sessions \cup {Null}
  /\ nv.ready \in BOOLEAN
  /\ nv.registered \in BOOLEAN
  /\ nv.resources \in Seq(SessionIds)
  /\ nv.count \in Nat
  /\ nv.slots \in Seq(Pictures \cup {Null, Stale})
  /\ nv.accepted \in Seq(Frames)
  /\ nv.recv \in 0..Sent(nv)
  /\ nv.lost \subseteq SessionIds
  /\ nv.dropped \subseteq Frames
  /\ nv.faults \in 0..MaxFaults

(* The slot GetNextInputFrame returns is free, so long as receiving never
   failed: its last packet was received, since the driver holds fewer frames
   than the ring has slots, also over Drain and restarts, which never reset the
   counters. *)
NextSlotIsFree ==
  ~nv.receiveFailed /\ nv.count > 0 => Sent(nv) - nv.recv < nv.count

(* A packet has the size of the frame it shows or, for 4:2:0, the even size
   below, and that is the frame it is the packet of.  After a failure to receive
   it may be a later one, which has overwritten it; never an earlier one. *)
PacketsShowTheirFrame ==
  \A i \in DOMAIN stream :
    LET p == stream[i]
        f == submitted[p.pixels]
    IN /\ p.w = Coded(f.w, p.params) /\ p.h = Coded(f.h, p.params)
       /\ p.pixels >= p.frame
       /\ ~nv.receiveFailed => p.pixels = p.frame

(* An initialized encoder has an open session and the CUDA context it was
   opened with.  Any other session still open in the driver is one whose setup
   or whose destruction failed: nothing will close it. *)
SessionsAccountedFor ==
  /\ initialized => /\ IsInitialized(nv)
                    /\ nv.session.id \notin nv.lost
                    /\ nv.cuda = "context"
  /\ nv.live = nv.lost \cup (IF initialized THEN {nv.session.id} ELSE {})

(* The CUDA resource mapped for a slot is the one of the slot's input frame,
   unless an earlier setup has failed and left resources in front. *)
ResourcesMatchSlots ==
  initialized /\ nv.count > 0 =>
    \/ \A i \in 1..nv.count : nv.resources[i] = nv.session.id
    \/ nv.resources[1] \in nv.lost

(* An index into the ring is computed modulo zero, or a null context made
   current, only after a failure to receive, or after the window has released
   its resources behind the back of the encoder. *)
CrashesOnlyWithoutRing == nv.crashed => nv.receiveFailed \/ window # "kept"

(* IsInitialized() is true only if a session is open and initialized for
   encoding. *)
IsInitializedMeansUsable == IsInitialized(nv) => nv.session.usable
=============================================================================

--------------------------- MODULE StreamPipeline ---------------------------
(***************************************************************************)
(* An encoder, the packets it has given to the application, and a decoder  *)
(* the application gives them to, in order: the round trip of the examples *)
(* and of the tests.  The application decodes in the callback that carries *)
(* the packet, or later, as if the packet had travelled over a network     *)
(* that loses none.                                                        *)
(*                                                                         *)
(* The encoder is any that honours EncoderContract, so what is said here   *)
(* holds for vtkVpxEncoder, which implements it.                           *)
(***************************************************************************)
EXTENDS EncoderContract

CONSTANTS MaxFaults (* Bound on the failures of libvpx in the decoder.      *)

(* A packet has a size, and libvpx makes contexts, not their absence. *)
ASSUME PipelineAssumption ==
  /\ Lengths \subseteq Nat \ {0}
  /\ MaxFaults \in Nat
  /\ NoContext \notin [w : Lengths, h : Lengths, keyed : BOOLEAN]

VARIABLES
  dWidth, dHeight, dInitialized, dHandlerSet, dCalls,
  received, dReports, shown, dReentered, ctx, crashed, faults,
  restarts          (* history: frames whose call of Encode did not keep the
                       context it found                                     *)

D == INSTANCE VpxDecoder WITH
  MaxPackets <- MaxFrames, MaxDecodes <- 1, Null <- NoContext, Drains <- FALSE,
  width <- dWidth, height <- dHeight, initialized <- dInitialized,
  handlerSet <- dHandlerSet, calls <- dCalls, reports <- dReports,
  reentered <- dReentered

encoder == vars
decoder == <<dWidth, dHeight, dInitialized, dHandlerSet, dCalls,
             received, dReports, shown, dReentered, ctx, crashed, faults>>

PipelineInit == Init /\ D!Init /\ restarts = {}

(* The application resizes, changes settings, drains and shuts down at will;
   it observes the events of both. *)
EncoderStep ==
  /\ \/ /\ \/ \E p \in Params : SetParams(p) /\ UNCHANGED <<context, dropped>>
           \/ Shutdown
           \/ Drain
           \/ CallBackReturns /\ UNCHANGED <<context, dropped>>
        /\ UNCHANGED restarts
     \/ \E w, h \in Lengths :
          /\ Encode(w, h)
          /\ restarts' = restarts \cup (IF UpToDate(w, h) THEN {} ELSE {NextFrame})
  /\ UNCHANGED decoder

(* The decoder reads the display size of a packet; libvpx reads in its data
   whether it is a key frame. *)
Arriving == Len(received) + 1

Forward ==
  /\ Arriving \in DOMAIN stream
  /\ LET p == stream[Arriving]
     IN D!Decode([w |-> p.w, h |-> p.h, key |-> p.key])
  /\ UNCHANGED <<encoder, restarts>>

DecoderStep ==
  /\ D!DecodeGoesOn \/ (D!DecodeReturns /\ UNCHANGED <<ctx, crashed, faults>>)
  /\ UNCHANGED <<encoder, restarts>>

PipelineNext == EncoderStep \/ Forward \/ DecoderStep

pipeline == <<encoder, decoder, restarts>>

PipelineSpec == PipelineInit /\ [][PipelineNext]_pipeline

(* Callbacks return, and what the encoder gives out is decoded some time. *)
FairPipelineSpec ==
  /\ PipelineSpec
  /\ WF_pipeline(CallBackReturns /\ UNCHANGED <<context, dropped, restarts, decoder>>)
  /\ WF_pipeline(Forward \/ DecoderStep)
-----------------------------------------------------------------------------
(* Properties. *)

(* A frame is shown at the size its frame was submitted with, whatever resizes
   there were meanwhile. *)
ShownAtSubmittedSize ==
  \A i \in DOMAIN shown :
    LET s == submitted[stream[shown[i].packet].frame]
    IN shown[i].w = s.w /\ shown[i].h = s.h

(* As long as libvpx has not failed in the decoder, every packet it was given
   has decoded: a decoder that restarts at a resize always finds a key frame,
   also when the encoder failed or was shut down around it.  The order of the
   packets is that of their frames only as long as Encode is not called between
   two events of one result. *)
EveryPacketDecodes ==
  faults = 0 /\ ~reentered =>
    /\ \A i \in DOMAIN dReports : dReports[i].status = "Success"
    /\ [i \in DOMAIN shown |-> shown[i].packet] = [i \in 1..Len(received) |-> i]

(* Frames f and g, f before g, were encoded in the same context. *)
SameContext(f, g) == ~\E r \in restarts : f < r /\ r <= g

(* When it has failed, a frame shown is never predicted from one that was not,
   nor from one of another context of the encoder, also when a resize and its
   undoing, or Shutdown, made contexts of one size and settings, unless Encode
   was called between two events of one result. *)
NothingPredictedFromLost ==
  ~reentered =>
    \A i \in DOMAIN shown :
      LET n == shown[i].packet
          p == stream[n]
          q == stream[n - 1]
      IN p.key \/ (/\ i > 1
                   /\ shown[i - 1].packet = n - 1
                   /\ SameContext(q.frame, p.frame))

(* What the encoder has given out is decoded in the end: shown, or reported to
   have failed. *)
EveryPacketIsDecoded ==
  \A n \in 1..MaxFrames : Len(stream) >= n ~> (Len(received) >= n /\ dCalls = <<>>)
=============================================================================

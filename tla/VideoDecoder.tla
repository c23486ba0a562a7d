---------------------------- MODULE VideoDecoder ----------------------------
(***************************************************************************)
(* vtkVideoDecoder: the base class of the decoders.  It makes the context  *)
(* of the subclass again when a packet comes with another display size, or *)
(* when there is none, and reports results to the application.             *)
(*                                                                         *)
(* As in the encoder, Decode calls the application back and a callback may *)
(* call the decoder again.  Unlike the encoder, Decode goes on after it    *)
(* has reported that there is no context: it decodes the packet when that  *)
(* callback has returned, with whatever context there is by then.          *)
(***************************************************************************)
EXTENDS Integers, Sequences, Functions

CONSTANTS
  Lengths,          (* Display widths and heights, in pixels.               *)
  MaxPackets,       (* Bound on the number of packets given to Decode.      *)
  MaxDecodes        (* Bound on the nesting of Decode calls.                *)

ASSUME DecoderLengthsAssumption == Lengths \subseteq Nat \ {0}
ASSUME DecoderBoundsAssumption == MaxPackets \in Nat /\ MaxDecodes \in Nat

VARIABLES
  width, height,    (* Width, Height                                        *)
  initialized,      (* Initialized                                          *)
  handlerSet,       (* OutputHandler # nullptr                              *)
  calls,            (* stack of Decode calls inside a callback, top first   *)
  received,         (* history: the packets given to Decode                 *)
  reports,          (* history: the callbacks made                          *)
  shown,            (* history: the frames they gave to the application     *)
  reentered         (* history: Decode was called from a callback           *)

size == <<width, height>>
output == <<calls, received, reports, shown, reentered>>
baseVars == <<size, initialized, handlerSet, output>>

BaseInit ==
  /\ width = 0
  /\ height = 0
  /\ initialized = FALSE
  /\ handlerSet = FALSE
  /\ calls = <<>>
  /\ received = <<>>
  /\ reports = <<>>
  /\ shown = <<>>
  /\ reentered = FALSE

(* The application does not replace the handler while it runs. *)
SetOutputHandler(set) ==
  /\ calls = <<>>
  /\ handlerSet' = set
  /\ UNCHANGED <<size, initialized, output>>
-----------------------------------------------------------------------------
(* What UpdateDecoderContext asks before it keeps the context. *)
UpToDate(p) == p.w = width /\ p.h = height /\ initialized

(* Decode begins: in the history, the packet arrives. *)
Receive(p) ==
  /\ Len(calls) < MaxDecodes
  /\ Len(received) < MaxPackets
  /\ received' = Append(received, p)
  /\ reentered' = (reentered \/ calls # <<>>)
  /\ UNCHANGED handlerSet

(* UpdateDecoderContext takes the size of the packet before it initializes. *)
TakeSize(p) == width' = p.w /\ height' = p.h

(* One call of the handler, or one event, of the call for packet n, which goes
   on with the given stage when it returns; the other calls wait. *)
CallBack(n, status, frames, stage, waiting) ==
  /\ reports' = Append(reports, [packet |-> n, status |-> status, handler |-> handlerSet,
                                 frames |-> Len(frames)])
  /\ shown' = shown \o frames
  /\ calls' = <<[packet |-> n, stage |-> stage]>> \o waiting

(* There is no context: the handler gets the error, an event carries a null
   frame; then Decode goes on to decode. *)
ReportNoContext(n) == CallBack(n, "Error", <<>>, "decode", calls)

(* The handler gets the result; without it a frame is an event, and a result
   without one is not reported.  A decoder gives one frame at most. *)
ReportResult(n, status, frames, waiting) ==
  \/ /\ handlerSet \/ frames # <<>>
     /\ CallBack(n, status, frames, "return", waiting)
  \/ /\ ~handlerSet /\ frames = <<>>
     /\ calls' = waiting
     /\ UNCHANGED <<reports, shown>>

(* The last callback of a call returns, and the call with it. *)
DecodeReturns ==
  /\ calls # <<>>
  /\ Head(calls).stage = "return"
  /\ calls' = Tail(calls)
  /\ UNCHANGED <<size, initialized, handlerSet, received, reports, shown, reentered>>
=============================================================================

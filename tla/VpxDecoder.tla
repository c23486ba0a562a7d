----------------------------- MODULE VpxDecoder -----------------------------
(***************************************************************************)
(* vtkVpxDecoder: the VP9 decoder on libvpx.  Its only state is the libvpx *)
(* context.  Of libvpx, which the repository bundles, this has what its    *)
(* decode_one returns: a context needs a key frame before any other frame, *)
(* again after an error, and gives one frame for each packet it decodes.   *)
(***************************************************************************)
EXTENDS VideoDecoder

CONSTANTS
  Null,             (* A context that does not exist.                       *)
  MaxFaults,        (* Bound on the number of failures of libvpx.           *)
  Drains            (* The application calls Drain on an initialized decoder.*)

ASSUME VpxDecoderAssumption == MaxFaults \in Nat /\ Drains \in BOOLEAN

VARIABLES
  ctx,              (* Internals->Ctx: the size it was initialized with, and
                       whether it has a frame to predict from               *)
  crashed,          (* a null pointer was dereferenced                      *)
  faults            (* history: failures of libvpx                          *)

vars == <<baseVars, ctx, crashed, faults>>

Init == BaseInit /\ ctx = Null /\ crashed = FALSE /\ faults = 0

(* libvpx fails to initialize, or finds data wrong that are not. *)
LibvpxFails == faults < MaxFaults /\ faults' = faults + 1

(* Fault: a context goes on from the pictures of the one before. *)
NewCtxGoesOn(w, h) == [w |-> w, h |-> h, keyed |-> TRUE]

NewCtx(w, h) == [w |-> w, h |-> h, keyed |-> FALSE]
-----------------------------------------------------------------------------
(* InitializeInternal succeeds or vpx_codec_dec_init fails. *)
Initialize ==
  /\ ~crashed
  /\ ~initialized
  /\ \/ initialized' = TRUE /\ ctx' = NewCtx(width, height) /\ UNCHANGED faults
     \/ LibvpxFails /\ UNCHANGED <<initialized, ctx>>
  /\ UNCHANGED <<size, handlerSet, output, crashed>>

(* Fault: Shutdown leaves the context. *)
ShutdownLeavesCtx ==
  /\ ~crashed
  /\ initialized
  /\ initialized' = FALSE
  /\ UNCHANGED <<size, handlerSet, output, ctx, crashed, faults>>

Shutdown ==
  /\ ~crashed
  /\ initialized
  /\ initialized' = FALSE
  /\ ctx' = Null
  /\ UNCHANGED <<size, handlerSet, output, crashed, faults>>

(* Drain: SendEOS decodes a null packet, whose data DecodeInternal reads. *)
Drain ==
  /\ ~crashed
  /\ Drains
  /\ initialized
  /\ crashed' = TRUE
  /\ UNCHANGED <<baseVars, ctx, faults>>
-----------------------------------------------------------------------------
(* libvpx has a context and, unless the packet is a key frame, one before. *)
Decodable(p, c) == c # Null /\ (c.keyed \/ p.key)

(* DecodeInternal of packet p, the n-th received, in context c. *)
DecodeInternal(n, p, c, waiting) ==
  \/ /\ \/ ~Decodable(p, c) /\ UNCHANGED faults
        \/ Decodable(p, c) /\ LibvpxFails
     /\ ctx' = IF c = Null THEN Null ELSE [c EXCEPT !.keyed = FALSE]
     /\ ReportResult(n, "Error", <<>>, waiting)
  \/ /\ Decodable(p, c)
     /\ ctx' = [c EXCEPT !.keyed = TRUE]
     /\ UNCHANGED faults
     /\ ReportResult(n, "Success", <<[packet |-> n, w |-> p.w, h |-> p.h]>>, waiting)

(* UpdateDecoderContext keeps the context, replaces it, or is left without. *)
Decode(p) ==
  LET n == Len(received) + 1
  IN /\ ~crashed
     /\ Receive(p)
     /\ \/ /\ UpToDate(p)
           /\ DecodeInternal(n, p, ctx, calls)
           /\ UNCHANGED <<size, initialized>>
        \/ /\ ~UpToDate(p)
           /\ TakeSize(p)
           /\ initialized' = TRUE
           /\ DecodeInternal(n, p, NewCtx(p.w, p.h), calls)
        \/ /\ ~UpToDate(p)
           /\ LibvpxFails
           /\ TakeSize(p)
           /\ initialized' = FALSE
           /\ ctx' = Null
           /\ ReportNoContext(n)
     /\ UNCHANGED crashed

(* Fault: the call decodes its packet again after each of its callbacks. *)
DecodeGoesOnAgain ==
  /\ ~crashed
  /\ calls # <<>>
  /\ Head(calls).stage = "decode"
  /\ LET n == Head(calls).packet
     IN DecodeInternal(n, received[n], ctx, calls)
  /\ UNCHANGED <<size, initialized, handlerSet, received, reentered, crashed>>

(* Fault: the call waits for a context. *)
DecodeGoesOnWithContext ==
  /\ ~crashed
  /\ calls # <<>>
  /\ Head(calls).stage = "decode"
  /\ ctx # Null
  /\ LET n == Head(calls).packet
     IN DecodeInternal(n, received[n], ctx, Tail(calls))
  /\ UNCHANGED <<size, initialized, handlerSet, received, reentered, crashed>>

(* The callback that reported that there was no context returns. *)
DecodeGoesOn ==
  /\ ~crashed
  /\ calls # <<>>
  /\ Head(calls).stage = "decode"
  /\ LET n == Head(calls).packet
     IN DecodeInternal(n, received[n], ctx, Tail(calls))
  /\ UNCHANGED <<size, initialized, handlerSet, received, reentered, crashed>>
-----------------------------------------------------------------------------
PacketInputs == [w : Lengths, h : Lengths, key : BOOLEAN]

Next ==
  \/ \E set \in BOOLEAN : SetOutputHandler(set) /\ UNCHANGED <<ctx, crashed, faults>> /\ ~crashed
  \/ Initialize
  \/ Shutdown
  \/ Drain
  \/ \E p \in PacketInputs : Decode(p)
  \/ DecodeGoesOn
  \/ DecodeReturns /\ UNCHANGED <<ctx, crashed, faults>> /\ ~crashed

Spec == Init /\ [][Next]_vars
-----------------------------------------------------------------------------
(* Properties. *)

PacketNumbers == 1..Len(received)

(* Every variable holds a value of its type; there is a context exactly when
   the decoder is initialized, and it has the size of the decoder. *)
TypeOK ==
  /\ width \in Lengths \cup {0}
  /\ height \in Lengths \cup {0}
  /\ initialized \in BOOLEAN
  /\ handlerSet \in BOOLEAN
  /\ calls \in Seq([packet : PacketNumbers, stage : {"decode", "return"}])
  /\ received \in Seq(PacketInputs)
  /\ reports \in Seq([packet : PacketNumbers, status : {"Success", "Error"},
                      handler : BOOLEAN, frames : 0..1])
  /\ shown \in Seq([packet : PacketNumbers, w : Lengths, h : Lengths])
  /\ reentered \in BOOLEAN
  /\ ctx \in (IF initialized THEN [w : {width}, h : {height}, keyed : BOOLEAN]
                             ELSE {Null})
  /\ crashed \in BOOLEAN
  /\ faults \in 0..MaxFaults

(* The frames come out in the order of their packets, each once, unless a
   callback calls Decode: the frame of the inner call then precedes that of a
   call that goes on after it has reported that it has no context. *)
ShownInOrder ==
  ~reentered =>
    \A i, j \in DOMAIN shown : i < j => shown[i].packet < shown[j].packet

(* A packet given to the handler is reported once, or twice: that there was no
   context, and then the result of decoding it all the same. *)
OneOrTwoReports ==
  \A n \in PacketNumbers :
    LET its == {i \in DOMAIN reports : reports[i].packet = n /\ reports[i].handler}
    IN \A i, j \in its : i < j =>
         /\ reports[i].status = "Error"
         /\ \A k \in its : k \in {i, j}

(* A frame that is not a key frame is shown only after the packet before it
   was: nothing is predicted from a frame the decoder does not have. *)
ShownPredictsFromShown ==
  ~reentered =>
    \A i \in DOMAIN shown :
      LET n == shown[i].packet
      IN received[n].key \/ (i > 1 /\ shown[i - 1].packet = n - 1)

(* No call of the public interface dereferences a null pointer. *)
NeverDereferencesNull == ~crashed
=============================================================================

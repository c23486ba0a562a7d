-------------------------- MODULE EncoderContract ---------------------------
(***************************************************************************)
(* What vtkVideoEncoder promises its application, given what it may rely   *)
(* on from the pure virtual functions of any subclass: setting a context   *)
(* up may fail; a context remembers the configuration it was set up with,  *)
(* takes frames in, and gives their packets out in the order of the        *)
(* frames, now or at a later call.                                         *)
(***************************************************************************)
EXTENDS VideoEncoder

CONSTANTS NoContext (* The subclass holds no context.                       *)

VARIABLES
  context,          (* what the subclass holds                              *)
  dropped           (* history: frames whose packets SendEOS gave up        *)

vars == <<baseVars, context, dropped>>

(* Fault: a context goes on from the pictures of the one before. *)
NewContextGoesOn(w, h, p) ==
  [w |-> w, h |-> h, params |-> p,
   held |-> <<>>, started |-> TRUE, eos |-> FALSE]

(* held: frames taken in whose packets are still to come; started: a packet
   was given out; eos: the end of the stream was announced. *)
NewContext(w, h, p) ==
  [w |-> w, h |-> h, params |-> p,
   held |-> <<>>, started |-> FALSE, eos |-> FALSE]

Init ==
  /\ BaseInit
  /\ context = NoContext
  /\ dropped = {}
-----------------------------------------------------------------------------
(* A subclass fails for settings it does not support, or for any other
   reason, and keeps nothing. *)
SetupFails ==
  /\ SetupFailed
  /\ context' = NoContext

(* Initialize() does nothing when a context exists. *)
Initialize ==
  /\ ~initialized
  /\ \/ SetupSucceeded /\ context' = NewContext(width, height, params)
     \/ SetupFails
  /\ UNCHANGED <<width, height, forceIFrame, handlerSet, output, dropped>>

(* SendEOS ends the stream; what it returns, the packets of every frame still
   held, is dropped. *)
DropHeld ==
  dropped' = IF initialized THEN dropped \cup Range(context.held) ELSE dropped

Drain ==
  /\ initialized
  /\ context' = [context EXCEPT !.held = <<>>, !.eos = TRUE]
  /\ DropHeld
  /\ UNCHANGED baseVars

(* Fault: Shutdown leaves the context. *)
ShutdownLeavesContext ==
  /\ initialized
  /\ initialized' = FALSE
  /\ DropHeld
  /\ UNCHANGED <<config, mtime, lastSetupMTime, touched, output, context>>

(* Shutdown drains and releases everything. *)
Shutdown ==
  /\ initialized
  /\ initialized' = FALSE
  /\ context' = NoContext
  /\ DropHeld
  /\ UNCHANGED <<config, mtime, lastSetupMTime, touched, output>>
-----------------------------------------------------------------------------
(* A chunk carries the Width and Height of the encoder. *)
Packet(c, f, key) ==
  [frame |-> f, w |-> width', h |-> height', params |-> c.params, key |-> key]

(* EncodeInternal in context c takes the frame in, and the packets of the
   oldest k frames come out, with any status: an encoder that asks for more
   frames gives none, one that fails later may give some.  The first packet of
   a context, and that of a frame submitted while ForceIFrame was set, are key
   frames. *)
EncodeTakesIn(c) ==
  LET waiting == Append(c.held, NextFrame)
  IN \E k \in 0..Len(waiting), status \in {"Success", "Error"} :
     \E keys \in [1..k -> BOOLEAN] :
       /\ \A i \in 1..k :
            submitted'[waiting[i]].forced \/ (i = 1 /\ ~c.started) => keys[i]
       /\ context' = [c EXCEPT !.held = SubSeq(waiting, k + 1, Len(waiting)),
                               !.started = @ \/ k > 0]
       /\ ReportResult(status, [i \in 1..k |-> Packet(c, waiting[i], keys[i])])
       /\ UNCHANGED failed

(* It refuses the frame, and gives no chunk. *)
EncodeRefuses(c) ==
  /\ context' = c
  /\ failed' = failed \cup {NextFrame}
  /\ ReportResult("Error", <<>>)

EncodeInternal(c) == EncodeTakesIn(c) \/ EncodeRefuses(c)

(* UpdateEncoderContext keeps the context, replaces it (Shutdown, then
   Initialize), or is left with none. *)
Encode(w, h) ==
  /\ Submit(w, h)
  /\ \/ /\ UpToDate(w, h)
        /\ UNCHANGED <<params, setup, dropped>>
        /\ EncodeInternal(context)
     \/ /\ ~UpToDate(w, h)
        /\ DropHeld
        /\ SetupSucceeded
        /\ EncodeInternal(NewContext(w, h, params))
     \/ /\ ~UpToDate(w, h)
        /\ DropHeld
        /\ SetupFails
        /\ ReportNoContext
-----------------------------------------------------------------------------
Next ==
  \/ Setter /\ UNCHANGED <<context, dropped>>
  \/ Initialize
  \/ Drain
  \/ Shutdown
  \/ \E w, h \in Lengths : Encode(w, h)
  \/ CallBackReturns /\ UNCHANGED <<context, dropped>>

Spec == Init /\ [][Next]_vars

(* The application's callbacks return. *)
FairSpec == Spec /\ WF_vars(CallBackReturns /\ UNCHANGED <<context, dropped>>)
-----------------------------------------------------------------------------
(* Properties. *)

Held == IF initialized THEN Range(context.held) ELSE {}

Packets ==
  [frame : Frames, w : Lengths, h : Lengths, params : Params, key : BOOLEAN]

Contexts ==
  [w : Lengths, h : Lengths, params : Params,
   held : Seq(Frames), started : BOOLEAN, eos : BOOLEAN]

(* Every variable holds a value of its type; there is a context exactly when
   the encoder is initialized. *)
TypeOK ==
  /\ width \in Lengths
  /\ height \in Lengths
  /\ params \in Params
  /\ forceIFrame \in BOOLEAN
  /\ handlerSet \in BOOLEAN
  /\ mtime \in 1..MaxMTime
  /\ lastSetupMTime \in 0..mtime
  /\ initialized \in BOOLEAN
  /\ calls \in Seq([frame : Frames, rest : Seq(Packets)])
  /\ submitted \in Seq([w : Lengths, h : Lengths, params : Params,
                        forced : BOOLEAN, toHandler : BOOLEAN])
  /\ reports \in Seq([frame : Frames, status : {"Success", "Error"}])
  /\ stream \in Seq(Packets)
  /\ failed \subseteq Frames
  /\ touched \in BOOLEAN
  /\ reentered \in BOOLEAN
  /\ context \in (IF initialized THEN Contexts ELSE {NoContext})
  /\ dropped \subseteq Frames

(* The modification time tells exactly whether a setter changed a setting
   since the context was set up: neither the ForceIFrame setters nor a frame of
   another size touch it. *)
StaleIffTouched == initialized => (touched <=> lastSetupMTime < mtime)

(* Frame f was submitted for this size while these settings were in force. *)
SubmittedAs(f, w, h, p) ==
  LET s == submitted[f]
  IN s.w = w /\ s.h = h /\ s.params = p

(* A context that no setter made stale has the configuration of the encoder,
   and any context that of the frames it holds. *)
ContextIsCurrent ==
  initialized =>
    /\ ~touched => context.w = width /\ context.h = height /\ context.params = params
    /\ \A i \in DOMAIN context.held :
         SubmittedAs(context.held[i], context.w, context.h, context.params)

(* Every packet, delivered or about to be, carries the size its frame was
   submitted with, and was encoded with the settings in force then: a resize
   or a setter never reaches a frame submitted before it. *)
PacketsMatchTheirFrame ==
  /\ \A i \in DOMAIN stream :
       SubmittedAs(stream[i].frame, stream[i].w, stream[i].h, stream[i].params)
  /\ \A c \in DOMAIN calls : \A i \in DOMAIN calls[c].rest :
       LET p == calls[c].rest[i]
       IN SubmittedAs(p.frame, p.w, p.h, p.params)

(* Each frame is in one place: delivered, in a result whose events go on, held
   by the context, refused, or given up by Drain or Shutdown. *)
EveryFrameInOnePlace ==
  LET places == <<Delivered, InEvents, Held, failed, dropped>>
  IN /\ \A i, j \in DOMAIN places : i # j => places[i] \cap places[j] = {}
     /\ UNION Range(places) = Frames

(* The packets reach the application in the order of their frames and once
   each, unless it calls Encode from an event that other events follow. *)
DeliveredInOrder ==
  ~reentered =>
    \A i, j \in DOMAIN stream : i < j => stream[i].frame < stream[j].frame

(* A packet whose configuration differs from that of the packet before it is
   a key frame: a decoder can follow a resize or a setter. *)
NewConfigurationStartsWithKey ==
  ~reentered =>
    \A i \in DOMAIN stream :
      LET p == stream[i]
          q == stream[i - 1]
      IN i = 1 \/ p.w # q.w \/ p.h # q.h \/ p.params # q.params => p.key

(* The handler hears of every frame exactly once, in the order of the calls. *)
OneReportPerFrame ==
  \A f \in Frames : submitted[f].toHandler =>
    \E i \in DOMAIN reports :
      /\ reports[i].frame = f
      /\ \A j \in DOMAIN reports :
           reports[j].frame >= f /\ j # i => i < j /\ reports[j].frame > f

(* Drain leaves the stream open: no live context was told of its end. *)
DrainKeepsStreamOpen == initialized => ~context.eos

(* Once the subclass has returned a chunk, its event comes, whatever the
   observers of the events before it call. *)
ChunksAreDelivered ==
  \A f \in 1..MaxFrames : f \in InEvents ~> f \in Delivered
=============================================================================

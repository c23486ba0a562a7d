---------------------------- MODULE VideoEncoder ----------------------------
(***************************************************************************)
(* vtkVideoEncoder: the base class every encoder of the library derives    *)
(* from.  It owns the configuration, decides when the encoding context of  *)
(* the subclass is out of date, and reports results to the application.    *)
(* What the pure virtual functions of a subclass do is left to the modules *)
(* that extend this one: EncoderContract for any subclass, VpxEncoder for  *)
(* one of them.                                                            *)
(*                                                                         *)
(* The library is single-threaded, but Encode calls the application back,  *)
(* and a callback may call any function of the encoder again: calls is the *)
(* stack of Encode calls that wait for their callback to return.           *)
(***************************************************************************)
EXTENDS Integers, Sequences, Functions

CONSTANTS
  Lengths,          (* Widths and heights of frames, in pixels.             *)
  Params,           (* Values of the other settings made with vtkSet macros.*)
  DefaultLength,    (* Width and height of a new encoder.                   *)
  MaxMTime,         (* Bound on the modification time.                      *)
  MaxFrames,        (* Bound on the number of frames submitted.             *)
  MaxDepth          (* Bound on the nesting of Encode calls.                *)

ASSUME LengthsAssumption == Lengths \subseteq Nat /\ DefaultLength \in Lengths
ASSUME BoundsAssumption ==
  /\ MaxMTime \in Nat \ {0}
  /\ MaxFrames \in Nat
  /\ MaxDepth \in Nat

VARIABLES
  width, height,    (* Width, Height                                        *)
  params,           (* every other setting a vtkSet macro changes           *)
  forceIFrame,      (* ForceIFrame                                          *)
  handlerSet,       (* OutputHandler # nullptr                              *)
  mtime,            (* GetMTime()                                           *)
  lastSetupMTime,   (* LastSetupMTime                                       *)
  initialized,      (* Initialized                                          *)
  calls,            (* stack of Encode calls inside a callback, top first   *)
  submitted,        (* history: the frames given to Encode                  *)
  reports,          (* history: the callbacks made                          *)
  stream,           (* history: the packets they gave to the application    *)
  failed,           (* history: frames the subclass did not take in         *)
  touched,          (* history: a setter changed a setting since the setup  *)
  reentered         (* history: Encode was called between two chunk events  *)

config == <<width, height, params, forceIFrame, handlerSet>>
setup == <<mtime, lastSetupMTime, initialized, touched>>
output == <<calls, submitted, reports, stream, failed, reentered>>
baseVars == <<config, setup, output>>

BaseInit ==
  /\ width = DefaultLength
  /\ height = DefaultLength
  /\ params \in Params
  /\ forceIFrame = FALSE
  /\ handlerSet = FALSE
  /\ mtime = 1
  /\ lastSetupMTime = 0
  /\ initialized = FALSE
  /\ calls = <<>>
  /\ submitted = <<>>
  /\ reports = <<>>
  /\ stream = <<>>
  /\ failed = {}
  /\ touched = TRUE
  /\ reentered = FALSE
-----------------------------------------------------------------------------
(* The setters.  A vtkSet macro that changes the value updates the
   modification time; the ForceIFrame setters must not. *)

Modified ==
  /\ mtime < MaxMTime
  /\ mtime' = mtime + 1
  /\ touched' = TRUE

SetWidth(w) ==
  /\ w # width
  /\ width' = w
  /\ Modified
  /\ UNCHANGED <<height, params, forceIFrame, handlerSet>>
  /\ UNCHANGED <<lastSetupMTime, initialized, output>>

SetHeight(h) ==
  /\ h # height
  /\ height' = h
  /\ Modified
  /\ UNCHANGED <<width, params, forceIFrame, handlerSet>>
  /\ UNCHANGED <<lastSetupMTime, initialized, output>>

SetParams(p) ==
  /\ p # params
  /\ params' = p
  /\ Modified
  /\ UNCHANGED <<width, height, forceIFrame, handlerSet>>
  /\ UNCHANGED <<lastSetupMTime, initialized, output>>

(* Fault: ForceIFrame is set by a vtkSet macro. *)
SetForceIFrameAsSetting(on) ==
  /\ on # forceIFrame
  /\ forceIFrame' = on
  /\ mtime < MaxMTime
  /\ mtime' = mtime + 1
  /\ UNCHANGED <<width, height, params, handlerSet>>
  /\ UNCHANGED <<lastSetupMTime, initialized, touched, output>>

SetForceIFrame(on) ==
  /\ forceIFrame' = on
  /\ UNCHANGED <<width, height, params, handlerSet, setup, output>>

(* The application does not replace the handler while it runs. *)
SetOutputHandler(set) ==
  /\ calls = <<>>
  /\ handlerSet' = set
  /\ UNCHANGED <<width, height, params, forceIFrame, setup, output>>

Setter ==
  \/ \E l \in Lengths : SetWidth(l) \/ SetHeight(l)
  \/ \E p \in Params : SetParams(p)
  \/ \E on \in BOOLEAN : SetForceIFrame(on) \/ SetOutputHandler(on)
-----------------------------------------------------------------------------
(* The life of the context. *)

(* Fault: a frame of another size keeps the context. *)
UpToDateAtAnySize(w, h) == lastSetupMTime >= mtime /\ initialized

(* Fault: a setter keeps the context. *)
UpToDateForAnySettings(w, h) == w = width /\ h = height /\ initialized

(* What UpdateEncoderContext asks before it keeps the context. *)
UpToDate(w, h) ==
  /\ w = width
  /\ h = height
  /\ lastSetupMTime >= mtime
  /\ initialized

(* The end of Initialize(), when the subclass has set the context up and when
   it could not. *)
SetupSucceeded ==
  /\ initialized' = TRUE
  /\ lastSetupMTime' = mtime
  /\ touched' = FALSE
  /\ UNCHANGED <<params, mtime>>

SetupFailed ==
  /\ initialized' = FALSE
  /\ UNCHANGED <<params, mtime, lastSetupMTime, touched>>
-----------------------------------------------------------------------------
(* Encode. *)

(* The parameters of NeedsNewEncoderFrame become the Width and Height of the
   encoder.  In the history, the call comes from an event that other events
   of the same result follow, or not. *)
Submit(w, h) ==
  /\ Len(calls) < MaxDepth
  /\ Len(submitted) < MaxFrames
  /\ width' = w
  /\ height' = h
  /\ submitted' = Append(submitted, [w |-> w, h |-> h, params |-> params,
                                     forced |-> forceIFrame, toHandler |-> handlerSet])
  /\ reentered' = (reentered \/ \E i \in DOMAIN calls : calls[i].rest # <<>>)
  /\ UNCHANGED <<forceIFrame, handlerSet>>

(* The frame of the Encode call under way. *)
NextFrame == Len(submitted) + 1

(* One call of the handler, or one event; rest are the chunks whose events
   follow when it returns. *)
CallBack(status, packets, rest) ==
  /\ reports' = Append(reports, [frame |-> NextFrame, status |-> status])
  /\ stream' = stream \o packets
  /\ calls' = <<[frame |-> NextFrame, rest |-> rest]>> \o calls

(* Fault: only the observers of events hear of a context that cannot be set up. *)
ReportNoContextAsEvent ==
  /\ \/ ~handlerSet /\ CallBack("Error", <<>>, <<>>)
     \/ handlerSet /\ UNCHANGED <<calls, reports, stream>>
  /\ failed' = failed \cup {NextFrame}

(* The context could not be updated: the handler gets the error, an event
   carries a null chunk. *)
ReportNoContext ==
  /\ CallBack("Error", <<>>, <<>>)
  /\ failed' = failed \cup {NextFrame}

(* Fault: the events of the chunks come in the reverse order. *)
ReportResultBackwards(status, packets) ==
  \/ handlerSet /\ CallBack(status, packets, <<>>)
  \/ /\ ~handlerSet
     /\ packets # <<>>
     /\ LET reversed == [i \in DOMAIN packets |-> packets[Len(packets) + 1 - i]]
        IN CallBack("Success", <<Head(reversed)>>, Tail(reversed))
  \/ /\ ~handlerSet
     /\ packets = <<>>
     /\ UNCHANGED <<calls, reports, stream>>

(* The handler gets the whole result.  Without it each chunk is an event, that
   says nothing of the status, and a result without chunks is not reported at
   all. *)
ReportResult(status, packets) ==
  \/ handlerSet /\ CallBack(status, packets, <<>>)
  \/ /\ ~handlerSet
     /\ packets # <<>>
     /\ CallBack("Success", <<Head(packets)>>, Tail(packets))
  \/ /\ ~handlerSet
     /\ packets = <<>>
     /\ UNCHANGED <<calls, reports, stream>>

(* Fault: only the first chunk of a result is an event. *)
CallBackReturnsToCaller ==
  /\ calls # <<>>
  /\ calls' = Tail(calls)
  /\ UNCHANGED <<config, setup, submitted, reports, stream, failed, reentered>>

(* A callback returns: the next chunk of the same call is an event, or the
   call is over. *)
CallBackReturns ==
  /\ calls # <<>>
  /\ LET top == Head(calls)
     IN \/ /\ top.rest = <<>>
           /\ calls' = Tail(calls)
           /\ UNCHANGED <<reports, stream>>
        \/ /\ top.rest # <<>>
           /\ reports' = Append(reports, [frame |-> top.frame, status |-> "Success"])
           /\ stream' = Append(stream, Head(top.rest))
           /\ calls' = <<[top EXCEPT !.rest = Tail(@)]>> \o Tail(calls)
  /\ UNCHANGED <<config, setup, submitted, failed, reentered>>
-----------------------------------------------------------------------------
(* What the application has been given, and what is on its way. *)

Frames == 1..Len(submitted)
RestPackets == UNION {Range(calls[i].rest) : i \in DOMAIN calls}
Delivered == {p.frame : p \in Range(stream)}
InEvents == {p.frame : p \in RestPackets}
=============================================================================

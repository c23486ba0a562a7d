-------------------------- MODULE VpxEncoderProofs --------------------------
(***************************************************************************)
(* Proofs about VpxEncoder, for any lengths, settings and bounds.          *)
(***************************************************************************)
EXTENDS VpxEncoder, SequenceTheorems, TLAPS

Submissions ==
  [w : Lengths, h : Lengths, params : Params, forced : BOOLEAN, toHandler : BOOLEAN]
Ctxs == [serial : 1..MaxContexts, cfg : Cfgs, coded : BOOLEAN]

(* A result of this encoder has one packet at most: no callback has events
   that follow it. *)
Calls == [frame : Nat, rest : {<<>>}]

(* The types of the base class, as far as they matter here. *)
BaseTypes ==
  /\ width \in Lengths /\ height \in Lengths /\ params \in Params
  /\ forceIFrame \in BOOLEAN /\ handlerSet \in BOOLEAN /\ initialized \in BOOLEAN
  /\ mtime \in Nat /\ lastSetupMTime \in Nat /\ lastSetupMTime <= mtime
  /\ submitted \in Seq(Submissions)
  /\ calls \in Seq(Calls)

(* The encoder has a context and an image exactly when it is initialized, the
   context is the last one made, they have one size, and, unless the
   modification time says otherwise, the configuration in force. *)
ContextInv ==
  /\ initialized <=> live
  /\ initialized <=> ctx # Null
  /\ initialized <=> rawImage # Null
  /\ initialized =>
       /\ ctx.serial = made.ctx
       /\ rawImage.w = ctx.cfg.w /\ rawImage.h = ctx.cfg.h
       /\ lastSetupMTime = mtime =>
            ctx.cfg = [w |-> width, h |-> height, params |-> params]

VpxInv == BaseTypes /\ TypeOK /\ ContextInv /\ NothingLeaks
-----------------------------------------------------------------------------
(* A context, and an image, are no null pointers. *)
LEMMA NotNull == Null \notin Ctxs /\ Null \notin Images
<1>1. Ctxs \subseteq [serial : Nat, cfg : [w : Nat, h : Nat, params : Params],
                      coded : BOOLEAN]
  <2>1. Cfgs \subseteq [w : Nat, h : Nat, params : Params]
    BY LengthsAssumption DEF Cfgs
  <2>2. 1..MaxContexts \subseteq Nat
    BY VpxAssumption
  <2> QED
    BY <2>1, <2>2 DEF Ctxs
<1>2. Frames \subseteq Nat
  BY DEF Frames
<1>3. Images \subseteq [w : Nat, h : Nat, format : {"NV12", "IYUV", "invalid"},
                        pixels : Nat \cup {Uninitialized}]
  BY <1>2, LengthsAssumption DEF Images, SupportedFormats
<1> QED
  BY <1>1, <1>3, NullAssumption

LEMMA NotNullNext == (Null \notin Images)'
<1>1. Null \notin Images
  BY NotNull
<1> QED
  BY <1>1, PTL

(* Encode submits one more frame; those before are still there. *)
LEMMA SubmitGrows ==
  ASSUME BaseTypes, NEW w \in Lengths, NEW h \in Lengths, Submit(w, h)
  PROVE  /\ submitted' \in Seq(Submissions)
         /\ width' = w /\ height' = h
         /\ UNCHANGED <<forceIFrame, handlerSet>>
         /\ NextFrame \in Nat
         /\ NextFrame \in Frames'
         /\ Frames \subseteq Frames'
<1> DEFINE r == [w |-> w, h |-> h, params |-> params,
                 forced |-> forceIFrame, toHandler |-> handlerSet]
<1>1. submitted' = Append(submitted, r) /\ r \in Submissions
  BY DEF Submit, BaseTypes, Submissions
<1>2. submitted' \in Seq(Submissions) /\ Len(submitted') = Len(submitted) + 1
  BY <1>1, AppendProperties DEF BaseTypes
<1>3. Len(submitted) \in Nat
  BY LenProperties DEF BaseTypes
<1>4. NextFrame \in Nat /\ NextFrame \in Frames' /\ Frames \subseteq Frames'
  BY <1>2, <1>3 DEF NextFrame, Frames
<1> QED
  BY <1>2, <1>4 DEF Submit

(* One call of the application. *)
LEMMA CallBackType ==
  ASSUME BaseTypes, NextFrame \in Nat, NEW status, NEW packets,
         CallBack(status, packets, <<>>)
  PROVE  calls' \in Seq(Calls) /\ stream' = stream \o packets
<1>1. [frame |-> NextFrame, rest |-> <<>>] \in Calls
  BY DEF Calls
<1>2. <<[frame |-> NextFrame, rest |-> <<>>]>> \in Seq(Calls)
  BY <1>1
<1> QED
  BY <1>2, ConcatProperties DEF CallBack, BaseTypes

(* A result with one packet, and one with none. *)
LEMMA ReportsOne ==
  ASSUME BaseTypes, NextFrame \in Nat, NEW S, stream \in Seq(S), NEW p \in S,
         NEW status, ReportResult(status, <<p>>)
  PROVE  calls' \in Seq(Calls) /\ stream' = Append(stream, p)
<1>1. stream \o <<p>> = Append(stream, p)
  BY AppendIsConcat
<1>2. CASE CallBack(status, <<p>>, <<>>)
  BY <1>1, <1>2, CallBackType
<1>3. CASE CallBack("Success", <<Head(<<p>>)>>, Tail(<<p>>))
  <2>1. Head(<<p>>) = p /\ Tail(<<p>>) = <<>>
    OBVIOUS
  <2>2. CallBack("Success", <<p>>, <<>>)
    BY <1>3, <2>1
  <2> QED
    BY <1>1, <2>2, CallBackType
<1>4. <<p>> # <<>>
  OBVIOUS
<1> QED
  BY <1>2, <1>3, <1>4 DEF ReportResult

LEMMA ReportsNone ==
  ASSUME BaseTypes, NextFrame \in Nat, NEW S, stream \in Seq(S),
         NEW status, ReportResult(status, <<>>) \/ CallBack(status, <<>>, <<>>)
  PROVE  calls' \in Seq(Calls) /\ stream' = stream
<1>1. CASE CallBack(status, <<>>, <<>>)
  BY <1>1, CallBackType, ConcatEmptySeq
<1>2. CASE UNCHANGED <<calls, reports, stream>>
  BY <1>2 DEF BaseTypes
<1> QED
  BY <1>1, <1>2 DEF ReportResult

LEMMA CopiedImage ==
  ASSUME NEW image \in Images, Frames \subseteq Frames', NextFrame \in Frames'
  PROVE  /\ Copied(image) \in Images'
         /\ Copied(image).w = image.w
         /\ Copied(image).h = image.h
         /\ Copied(image).format = image.format
BY DEF Copied, Images

LEMMA PacketType ==
  ASSUME params \in Params, width' \in Lengths, height' \in Lengths,
         NEW c \in Ctxs, NEW image \in Images', image.format # "invalid",
         NEW counter \in Nat, NEW key \in BOOLEAN, NextFrame \in Frames'
  PROVE  Packet(c, image, counter, key) \in Packets'
<1>1. params \in VpxParams /\ c.cfg.params \in VpxParams
  BY VpxAssumption DEF Ctxs, Cfgs
<1>2. c.serial \in Nat /\ c.cfg.w \in Lengths /\ c.cfg.h \in Lengths
  BY VpxAssumption DEF Ctxs, Cfgs
<1>3. image.format \in SupportedFormats /\ image.pixels \in Frames' \cup {Uninitialized}
  BY DEF Images
<1>4. [bitRate |-> c.cfg.params.bitRate, inputPixelFormat |-> image.format,
       keyFramesOnly |-> params.keyFramesOnly]
      \in [bitRate : BitRates, inputPixelFormat : SupportedFormats, keyFramesOnly : BOOLEAN]
  BY <1>1, <1>3 DEF VpxParams
<1> QED
  BY <1>2, <1>3, <1>4 DEF Packet, Packets

(* EncodeInternal keeps the context and the image, but for what it has coded
   and what was copied, and adds at most a packet of the two, a key frame if it
   is the first of the context. *)
Encoded(c, image, counter) ==
  \E key \in BOOLEAN :
    LET p == Packet(c, Copied(image), counter, key)
    IN /\ p \in Packets'
       /\ ~c.coded => key
       /\ ctx' = [c EXCEPT !.coded = TRUE]
       /\ stream' = Append(stream, p)
       /\ image.w = c.cfg.w /\ image.h = c.cfg.h
       /\ image.format # "invalid"

LEMMA StreamBefore ==
  ASSUME TypeOK, Frames \subseteq Frames'
  PROVE  stream \in Seq(Packets')
<1>1. Packets \subseteq Packets'
  BY DEF Packets
<1> QED
  BY <1>1, SeqMonotonic DEF TypeOK

LEMMA EncodeInternalKeeps ==
  ASSUME BaseTypes, TypeOK, NEW w \in Lengths, NEW h \in Lengths, Submit(w, h),
         NEW c \in Ctxs, NEW image \in Images, NEW counter \in Nat,
         EncodeInternal(c, image, counter)
  PROVE  /\ ctx' \in Ctxs /\ ctx'.serial = c.serial /\ ctx'.cfg = c.cfg
         /\ rawImage' = Copied(image) /\ rawImage' \in Images'
         /\ rawImage'.w = image.w /\ rawImage'.h = image.h
         /\ sendCounter' = counter + 1
         /\ calls' \in Seq(Calls)
         /\ stream' \in Seq(Packets')
         /\ (stream' = stream /\ ctx' = c) \/ Encoded(c, image, counter)
<1>1. /\ width' = w /\ height' = h /\ NextFrame \in Nat
      /\ NextFrame \in Frames' /\ Frames \subseteq Frames'
  BY SubmitGrows
<1>2. /\ Copied(image) \in Images'
      /\ Copied(image).w = image.w /\ Copied(image).h = image.h
      /\ Copied(image).format = image.format
  BY <1>1, CopiedImage
<1>3. stream \in Seq(Packets')
  BY <1>1, StreamBefore
<1>4. rawImage' = Copied(image) /\ sendCounter' = counter + 1
  BY DEF EncodeInternal
<1>5. CASE EncodeSucceeds(c, Copied(image), counter)
  <2>1. PICK key \in BOOLEAN :
          /\ ~c.coded => key
          /\ ReportResult("Success", <<Packet(c, Copied(image), counter, key)>>)
    BY <1>5 DEF EncodeSucceeds
  <2> DEFINE p == Packet(c, Copied(image), counter, key)
  <2>2. /\ ctx' = [c EXCEPT !.coded = TRUE]
        /\ Copied(image).format # "invalid"
        /\ Copied(image).w = c.cfg.w /\ Copied(image).h = c.cfg.h
    BY <1>5 DEF EncodeSucceeds
  <2>3. p \in Packets'
    BY <1>1, <1>2, <2>2, PacketType DEF BaseTypes
  <2>4. calls' \in Seq(Calls) /\ stream' = Append(stream, p)
    <3> HIDE DEF p
    <3>1. ReportResult("Success", <<p>>)
      BY <2>1 DEF p
    <3> QED
      BY <1>1, <1>3, <2>3, <3>1, ReportsOne
  <2>5. stream' \in Seq(Packets')
    <3> HIDE DEF p
    <3> QED
      BY <1>3, <2>3, <2>4, AppendProperties
  <2>6. ctx' \in Ctxs /\ ctx'.serial = c.serial /\ ctx'.cfg = c.cfg
    BY <2>2 DEF Ctxs
  <2>7. Encoded(c, image, counter)
    BY <1>2, <2>1, <2>2, <2>3, <2>4 DEF Encoded
  <2> QED
    BY <1>2, <1>4, <2>4, <2>5, <2>6, <2>7
<1>6. CASE EncodeFails(c)
  <2>1. ctx' = c /\ ReportResult("Error", <<>>)
    BY <1>6 DEF EncodeFails
  <2>2. calls' \in Seq(Calls) /\ stream' = stream
    BY <1>1, <1>3, <2>1, ReportsNone
  <2> QED
    BY <1>2, <1>3, <1>4, <2>1, <2>2
<1> QED
  BY <1>5, <1>6 DEF EncodeInternal
-----------------------------------------------------------------------------
(* What a setup makes. *)
LEMMA NewNatives ==
  ASSUME NEW w \in Lengths, NEW h \in Lengths, params \in Params, TypeOK, SetupSucceeds
  PROVE  /\ NewCtx(w, h) \in Ctxs
         /\ NewCtx(w, h).serial = made.ctx'
         /\ NewCtx(w, h).cfg = [w |-> w, h |-> h, params |-> params]
         /\ \A format \in ImageFormats :
              /\ NewImage(w, h, format) \in Images
              /\ NewImage(w, h, format).w = w
              /\ NewImage(w, h, format).h = h
         /\ made' \in [ctx : Nat, image : Nat]
         /\ made'.ctx = made.ctx + 1 /\ made'.image = made.image + 1
         /\ live' = TRUE /\ initialized' = TRUE
         /\ UNCHANGED <<params, mtime>> /\ lastSetupMTime' = mtime
<1>1. made \in [ctx : Nat, image : Nat] /\ made.ctx < MaxContexts
  BY DEF TypeOK, SetupSucceeds
<1>2. /\ made' = [ctx |-> made.ctx + 1, image |-> made.image + 1]
      /\ live' = TRUE /\ initialized' = TRUE
      /\ UNCHANGED <<params, mtime>> /\ lastSetupMTime' = mtime
  BY <1>1 DEF SetupSucceeds, SetupSucceeded
<1>3. made.ctx + 1 \in 1..MaxContexts
  BY <1>1, VpxAssumption
<1>4. NewCtx(w, h) \in Ctxs
  BY <1>3 DEF NewCtx, Ctxs, Cfgs
<1>5. \A format \in ImageFormats : NewImage(w, h, format) \in Images
  BY DEF ImageFormats, NewImage, Images
<1> QED
  BY <1>1, <1>2, <1>4, <1>5 DEF NewCtx, NewImage

(* What a shutdown destroys. *)
LEMMA Releases ==
  ASSUME VpxInv, Release
  PROVE  /\ destroyed' \in [ctx : Nat, image : Nat]
         /\ destroyed'.ctx = made.ctx /\ destroyed'.image = made.image
<1>1. /\ made \in [ctx : Nat, image : Nat] /\ destroyed \in [ctx : Nat, image : Nat]
      /\ FreesCtx <=> initialized
      /\ FreesImage <=> initialized
  BY DEF VpxInv, TypeOK, ContextInv, FreesCtx, FreesImage
<1>2. /\ made.ctx - destroyed.ctx = (IF initialized THEN 1 ELSE 0)
      /\ made.image - destroyed.image = (IF initialized THEN 1 ELSE 0)
  BY DEF VpxInv, NothingLeaks
<1>3. destroyed' = [ctx |-> destroyed.ctx + (IF initialized THEN 1 ELSE 0),
                    image |-> destroyed.image + (IF initialized THEN 1 ELSE 0)]
  BY <1>1 DEF Release
<1>4. /\ made.ctx \in Nat /\ destroyed.ctx \in Nat
      /\ made.image \in Nat /\ destroyed.image \in Nat
  BY <1>1
<1>5. destroyed'.ctx = made.ctx /\ destroyed'.image = made.image
  BY <1>2, <1>3, <1>4
<1> QED
  BY <1>1, <1>3, <1>5
-----------------------------------------------------------------------------
(* Every step keeps the types, the relation of the encoder to its context, and
   the accounts of what libvpx was asked for. *)

LEMMA OutputTypes ==
  ASSUME VpxInv, UNCHANGED output
  PROVE  /\ submitted' \in Seq(Submissions) /\ calls' \in Seq(Calls)
         /\ stream' \in Seq(Packets')
         /\ Packets' = Packets /\ Images' = Images
<1>1. UNCHANGED <<calls, submitted, stream>>
  BY DEF output
<1>2. Frames' = Frames
  BY <1>1 DEF Frames
<1>3. Packets' = Packets /\ Images' = Images
  BY <1>2 DEF Packets, Images
<1> QED
  BY <1>1, <1>3 DEF VpxInv, BaseTypes, TypeOK

LEMMA SetterKeeps ==
  ASSUME VpxInv, Setter, UNCHANGED <<internals, natives>>
  PROVE  VpxInv'
<1>1. /\ UNCHANGED <<lastSetupMTime, initialized>>
      /\ UNCHANGED output
  BY DEF Setter, SetWidth, SetHeight, SetParams, SetForceIFrame,
         SetOutputHandler, setup
<1>2. /\ width' \in Lengths /\ height' \in Lengths /\ params' \in Params
      /\ forceIFrame' \in BOOLEAN /\ handlerSet' \in BOOLEAN
  BY DEF VpxInv, BaseTypes, Setter, SetWidth, SetHeight, SetParams, SetForceIFrame,
         SetOutputHandler
<1>3. \/ UNCHANGED <<mtime, width, height, params>>
      \/ mtime' = mtime + 1
  BY DEF Setter, SetWidth, SetHeight, SetParams, SetForceIFrame,
         SetOutputHandler, Modified, setup
<1>4. mtime \in Nat /\ lastSetupMTime \in Nat /\ lastSetupMTime <= mtime
  BY DEF VpxInv, BaseTypes
<1>5. mtime' \in Nat /\ lastSetupMTime' \in Nat /\ lastSetupMTime' <= mtime'
  BY <1>1, <1>3, <1>4
<1>6. UNCHANGED <<ctx, rawImage, live, sendCounter, made, destroyed>>
  BY DEF internals, natives
<1>7. lastSetupMTime' = mtime' => UNCHANGED <<mtime, width, height, params>>
  BY <1>1, <1>3, <1>4
<1>8. ContextInv'
  BY <1>1, <1>6, <1>7 DEF VpxInv, ContextInv
<1>9. BaseTypes' /\ TypeOK' /\ NothingLeaks'
  BY <1>1, <1>2, <1>5, <1>6, OutputTypes DEF VpxInv, BaseTypes, TypeOK, NothingLeaks
<1> QED
  BY <1>8, <1>9 DEF VpxInv

LEMMA InitializeKeeps ==
  ASSUME VpxInv, Initialize
  PROVE  VpxInv'
<1>1. /\ UNCHANGED <<width, height, forceIFrame, handlerSet, destroyed>>
      /\ UNCHANGED output
      /\ ~initialized
  BY DEF Initialize
<1>2. CASE /\ SetupSucceeds
           /\ ctx' = NewCtx(width, height)
           /\ \E format \in ImageFormats : rawImage' = NewImage(width, height, format)
           /\ sendCounter' = 0
  <2>1. /\ ctx' \in Ctxs /\ ctx'.serial = made'.ctx
        /\ ctx'.cfg = [w |-> width', h |-> height', params |-> params']
        /\ rawImage' \in Images /\ rawImage'.w = width /\ rawImage'.h = height
        /\ made' \in [ctx : Nat, image : Nat]
        /\ made'.ctx = made.ctx + 1 /\ made'.image = made.image + 1
        /\ live' = TRUE /\ initialized' = TRUE
        /\ UNCHANGED <<params, mtime>> /\ lastSetupMTime' = mtime
    <3>1. width \in Lengths /\ height \in Lengths /\ params \in Params /\ TypeOK
      BY DEF VpxInv, BaseTypes
    <3>2. /\ NewCtx(width, height) \in Ctxs /\ NewCtx(width, height).serial = made.ctx'
          /\ NewCtx(width, height).cfg = [w |-> width, h |-> height, params |-> params]
          /\ \A format \in ImageFormats :
               /\ NewImage(width, height, format) \in Images
               /\ NewImage(width, height, format).w = width
               /\ NewImage(width, height, format).h = height
          /\ made' \in [ctx : Nat, image : Nat]
          /\ made'.ctx = made.ctx + 1 /\ made'.image = made.image + 1
          /\ live' = TRUE /\ initialized' = TRUE
          /\ UNCHANGED <<params, mtime>> /\ lastSetupMTime' = mtime
      BY <1>2, <3>1, NewNatives
    <3> QED
      BY <1>1, <1>2, <3>2
  <2>2. ctx' # Null /\ rawImage' # Null
    BY <2>1, NotNull
  <2>3. ContextInv'
    BY <1>1, <2>1, <2>2 DEF ContextInv
  <2>4. NothingLeaks'
    BY <1>1, <2>1 DEF VpxInv, NothingLeaks, TypeOK
  <2>5. BaseTypes'
    BY <1>1, <2>1, OutputTypes DEF VpxInv, BaseTypes
  <2>6. TypeOK'
    BY <1>1, <1>2, <2>1, OutputTypes DEF VpxInv, TypeOK, Ctxs
  <2> QED
    BY <2>3, <2>4, <2>5, <2>6 DEF VpxInv
<1>3. CASE SetupFails /\ UNCHANGED <<ctx, rawImage, live>>
  <2>1. /\ sendCounter' = 0 /\ UNCHANGED made /\ initialized' = FALSE
        /\ UNCHANGED <<params, mtime, lastSetupMTime>>
    BY <1>3 DEF SetupFails, SetupFailed
  <2>2. ContextInv' /\ NothingLeaks'
    BY <1>1, <1>3, <2>1 DEF VpxInv, ContextInv, NothingLeaks
  <2>3. BaseTypes' /\ TypeOK'
    BY <1>1, <1>3, <2>1, OutputTypes DEF VpxInv, BaseTypes, TypeOK
  <2> QED
    BY <2>2, <2>3 DEF VpxInv
<1> QED
  BY <1>2, <1>3 DEF Initialize

LEMMA ShutdownKeeps ==
  ASSUME VpxInv, Shutdown
  PROVE  VpxInv'
<1>1. /\ UNCHANGED <<width, height, params, forceIFrame, handlerSet>>
      /\ UNCHANGED <<mtime, lastSetupMTime, sendCounter, made>>
      /\ UNCHANGED output
      /\ initialized /\ initialized' = FALSE
  BY DEF Shutdown, config
<1>2. FreesCtx /\ FreesImage
  BY <1>1 DEF VpxInv, ContextInv, FreesCtx, FreesImage
<1>3. ctx' = Null /\ rawImage' = Null /\ live' = FALSE
  BY <1>2 DEF Shutdown, LeftReleased
<1>4. /\ destroyed' \in [ctx : Nat, image : Nat]
      /\ destroyed'.ctx = made.ctx /\ destroyed'.image = made.image
  BY Releases DEF Shutdown
<1>5. ContextInv' /\ NothingLeaks'
  BY <1>1, <1>3, <1>4 DEF VpxInv, TypeOK, ContextInv, NothingLeaks
<1>6. BaseTypes'
  BY <1>1, OutputTypes DEF VpxInv, BaseTypes
<1>7. TypeOK'
  BY <1>1, <1>3, <1>4, OutputTypes DEF VpxInv, TypeOK
<1> QED
  BY <1>5, <1>6, <1>7 DEF VpxInv

LEMMA StutterKeeps ==
  ASSUME VpxInv, UNCHANGED vars
  PROVE  VpxInv'
<1>1. /\ UNCHANGED <<width, height, params, forceIFrame, handlerSet>>
      /\ UNCHANGED <<mtime, lastSetupMTime, initialized>>
      /\ UNCHANGED <<ctx, rawImage, live, sendCounter, made, destroyed>>
      /\ UNCHANGED output
  BY DEF vars, baseVars, config, setup, internals, natives
<1> QED
  BY <1>1, OutputTypes DEF VpxInv, BaseTypes, TypeOK, ContextInv, NothingLeaks

LEMMA CallBackReturnsKeeps ==
  ASSUME VpxInv, CallBackReturns, UNCHANGED <<internals, natives>>
  PROVE  VpxInv' /\ UNCHANGED stream
<1>1. calls \in Seq(Calls) /\ calls # <<>>
  BY DEF CallBackReturns, VpxInv, BaseTypes
<1>2. Head(calls).rest = <<>>
  <2>1. Head(calls) \in Calls
    BY <1>1, HeadTailProperties
  <2> QED
    BY <2>1 DEF Calls
<1>3. calls' = Tail(calls) /\ UNCHANGED stream
  BY <1>2 DEF CallBackReturns
<1>4. calls' \in Seq(Calls)
  BY <1>1, <1>3, HeadTailProperties
<1>5. /\ UNCHANGED <<width, height, params, forceIFrame, handlerSet>>
      /\ UNCHANGED <<mtime, lastSetupMTime, initialized, submitted>>
      /\ UNCHANGED <<ctx, rawImage, live, sendCounter, made, destroyed>>
  BY DEF CallBackReturns, config, setup, internals, natives
<1>6. Frames' = Frames
  BY <1>5 DEF Frames
<1>7. Packets' = Packets /\ Images' = Images
  BY <1>6 DEF Packets, Images
<1>8. BaseTypes' /\ TypeOK'
  BY <1>3, <1>4, <1>5, <1>7 DEF VpxInv, BaseTypes, TypeOK
<1>9. ContextInv' /\ NothingLeaks'
  BY <1>5 DEF VpxInv, ContextInv, NothingLeaks
<1> QED
  BY <1>3, <1>8, <1>9 DEF VpxInv

(* The cases of Encode: the context is kept, it is replaced, or there is none
   after. *)
KeepsContext(w, h) ==
  /\ UpToDate(w, h)
  /\ EncodeInternal(ctx, rawImage, sendCounter)
  /\ UNCHANGED <<params, setup, live, natives>>

ReplacesContext(w, h) ==
  /\ Release
  /\ SetupSucceeds
  /\ \E format \in ImageFormats : EncodeInternal(NewCtx(w, h), NewImage(w, h, format), 0)

LosesContext ==
  /\ Release
  /\ LeftReleased
  /\ SetupFails
  /\ ReportNoContext

LEMMA EncodeCases ==
  ASSUME NEW w \in Lengths, NEW h \in Lengths, Encode(w, h)
  PROVE  Submit(w, h) /\ (KeepsContext(w, h) \/ ReplacesContext(w, h) \/ LosesContext)
BY DEF Encode, KeepsContext, ReplacesContext, LosesContext

(* A context that Encode keeps has the size of the frame and the settings in
   force, and so has one that it makes. *)
LEMMA KeptContext ==
  ASSUME VpxInv, NEW w \in Lengths, NEW h \in Lengths, UpToDate(w, h)
  PROVE  /\ initialized /\ ctx \in Ctxs /\ rawImage \in Images
         /\ ctx.serial = made.ctx /\ ctx.cfg = [w |-> w, h |-> h, params |-> params]
         /\ rawImage.w = w /\ rawImage.h = h
         /\ sendCounter \in Nat
         /\ lastSetupMTime = mtime
<1>1. initialized /\ w = width /\ h = height /\ lastSetupMTime >= mtime
  BY DEF UpToDate
<1>2. lastSetupMTime = mtime
  BY <1>1 DEF VpxInv, BaseTypes
<1>3. ctx # Null /\ rawImage # Null /\ ctx.serial = made.ctx
      /\ ctx.cfg = [w |-> w, h |-> h, params |-> params]
      /\ rawImage.w = ctx.cfg.w /\ rawImage.h = ctx.cfg.h
  BY <1>1, <1>2 DEF VpxInv, ContextInv
<1> QED
  BY <1>1, <1>2, <1>3 DEF VpxInv, TypeOK, Ctxs

(* What the three cases have in common. *)
LEMMA EncodeBase ==
  ASSUME VpxInv, NEW w \in Lengths, NEW h \in Lengths, Submit(w, h),
         params' \in Params, initialized' \in BOOLEAN,
         mtime' = mtime, lastSetupMTime' \in Nat, lastSetupMTime' <= mtime,
         calls' \in Seq(Calls)
  PROVE  BaseTypes'
<1>1. /\ submitted' \in Seq(Submissions) /\ width' = w /\ height' = h
      /\ UNCHANGED <<forceIFrame, handlerSet>>
  BY SubmitGrows DEF VpxInv
<1> QED
  BY <1>1 DEF VpxInv, BaseTypes

LEMMA KeepsContextKeeps ==
  ASSUME VpxInv, NEW w \in Lengths, NEW h \in Lengths, Submit(w, h), KeepsContext(w, h)
  PROVE  VpxInv'
<1>1. /\ initialized /\ ctx \in Ctxs /\ rawImage \in Images
      /\ ctx.serial = made.ctx /\ ctx.cfg = [w |-> w, h |-> h, params |-> params]
      /\ rawImage.w = w /\ rawImage.h = h
      /\ sendCounter \in Nat
  BY KeptContext DEF KeepsContext
<1>2. /\ ctx' \in Ctxs /\ ctx'.serial = ctx.serial /\ ctx'.cfg = ctx.cfg
      /\ rawImage' \in Images'
      /\ rawImage'.w = rawImage.w /\ rawImage'.h = rawImage.h
      /\ sendCounter' = sendCounter + 1
      /\ calls' \in Seq(Calls)
      /\ stream' \in Seq(Packets')
  BY <1>1, EncodeInternalKeeps DEF KeepsContext, VpxInv
<1>3. UNCHANGED <<params, mtime, lastSetupMTime, initialized, live, made, destroyed>>
  BY DEF KeepsContext, setup, natives
<1>4. BaseTypes'
  BY <1>2, <1>3, EncodeBase DEF VpxInv, BaseTypes
<1>5. width' = w /\ height' = h
  BY DEF Submit
<1>6. ctx' # Null /\ rawImage' # Null
  BY <1>2, NotNull, NotNullNext
<1>7. ContextInv'
  <2>1. live /\ initialized' /\ live'
    BY <1>1, <1>3 DEF VpxInv, ContextInv
  <2> QED
    BY <1>1, <1>2, <1>3, <1>5, <1>6, <2>1 DEF ContextInv
<1>8. NothingLeaks'
  BY <1>3 DEF VpxInv, NothingLeaks
<1>9. TypeOK'
  BY <1>1, <1>2, <1>3 DEF VpxInv, TypeOK, Ctxs
<1> QED
  BY <1>4, <1>7, <1>8, <1>9 DEF VpxInv

LEMMA ReplacesContextKeeps ==
  ASSUME VpxInv, NEW w \in Lengths, NEW h \in Lengths, Submit(w, h), ReplacesContext(w, h)
  PROVE  VpxInv'
<1> DEFINE c == NewCtx(w, h)
<1>1. params \in Params /\ TypeOK /\ BaseTypes
  BY DEF VpxInv, BaseTypes
<1>2. /\ c \in Ctxs /\ c.serial = made.ctx'
      /\ c.cfg = [w |-> w, h |-> h, params |-> params]
      /\ \A format \in ImageFormats :
           /\ NewImage(w, h, format) \in Images
           /\ NewImage(w, h, format).w = w
           /\ NewImage(w, h, format).h = h
      /\ made' \in [ctx : Nat, image : Nat]
      /\ made'.ctx = made.ctx + 1 /\ made'.image = made.image + 1
      /\ live' = TRUE /\ initialized' = TRUE
      /\ UNCHANGED <<params, mtime>> /\ lastSetupMTime' = mtime
  BY <1>1, NewNatives DEF ReplacesContext
<1>3. PICK format \in ImageFormats : EncodeInternal(c, NewImage(w, h, format), 0)
  BY DEF ReplacesContext
<1> DEFINE image == NewImage(w, h, format)
<1>4. /\ ctx' \in Ctxs /\ ctx'.serial = c.serial /\ ctx'.cfg = c.cfg
      /\ rawImage' \in Images'
      /\ rawImage'.w = w /\ rawImage'.h = h
      /\ sendCounter' = 0 + 1
      /\ calls' \in Seq(Calls)
      /\ stream' \in Seq(Packets')
  <2>1. image \in Images /\ image.w = w /\ image.h = h /\ EncodeInternal(c, image, 0)
    BY <1>2, <1>3
  <2> HIDE DEF c, image
  <2>2. 0 \in Nat
    OBVIOUS
  <2> QED
    BY <1>1, <1>2, <2>1, <2>2, EncodeInternalKeeps
<1>5. BaseTypes'
  <2>1. mtime \in Nat
    BY <1>1 DEF BaseTypes
  <2> QED
    BY <1>1, <1>2, <1>4, <2>1, EncodeBase
<1>6. width' = w /\ height' = h
  BY DEF Submit
<1>7. ctx' # Null /\ rawImage' # Null
  BY <1>4, NotNull, NotNullNext
<1>8. ContextInv'
  <2> HIDE DEF c
  <2> QED
    BY <1>2, <1>4, <1>6, <1>7 DEF ContextInv
<1>9. /\ destroyed' \in [ctx : Nat, image : Nat]
      /\ destroyed'.ctx = made.ctx /\ destroyed'.image = made.image
  BY Releases DEF ReplacesContext
<1>10. NothingLeaks'
  BY <1>1, <1>2, <1>9 DEF TypeOK, NothingLeaks
<1>11. TypeOK'
  BY <1>2, <1>4, <1>9 DEF TypeOK, Ctxs
<1> QED
  BY <1>5, <1>8, <1>10, <1>11 DEF VpxInv

LEMMA LosesContextKeeps ==
  ASSUME VpxInv, NEW w \in Lengths, NEW h \in Lengths, Submit(w, h), LosesContext
  PROVE  VpxInv' /\ stream' = stream /\ initialized' = FALSE /\ UNCHANGED made
<1>1. /\ FreesCtx <=> initialized
      /\ FreesImage <=> initialized
      /\ ~initialized => ctx = Null /\ rawImage = Null /\ live = FALSE
  BY DEF VpxInv, TypeOK, ContextInv, FreesCtx, FreesImage
<1>2. ctx' = Null /\ rawImage' = Null /\ live' = FALSE
  BY <1>1 DEF LosesContext, LeftReleased
<1>3. /\ sendCounter' = 0 /\ UNCHANGED made /\ initialized' = FALSE
      /\ UNCHANGED <<params, mtime, lastSetupMTime>>
  BY DEF LosesContext, SetupFails, SetupFailed
<1>4. /\ destroyed' \in [ctx : Nat, image : Nat]
      /\ destroyed'.ctx = made.ctx /\ destroyed'.image = made.image
  BY Releases DEF LosesContext
<1>5. NextFrame \in Nat /\ Frames \subseteq Frames'
  BY SubmitGrows DEF VpxInv
<1>6. stream \in Seq(Packets')
  BY <1>5, StreamBefore DEF VpxInv
<1>7. calls' \in Seq(Calls) /\ stream' = stream
  <2>1. CallBack("Error", <<>>, <<>>)
    BY DEF LosesContext, ReportNoContext
  <2> QED
    BY <1>5, <1>6, <2>1, ReportsNone DEF VpxInv
<1>8. BaseTypes'
  BY <1>3, <1>7, EncodeBase DEF VpxInv, BaseTypes
<1>9. ContextInv' /\ NothingLeaks'
  BY <1>2, <1>3, <1>4 DEF VpxInv, TypeOK, ContextInv, NothingLeaks
<1>10. TypeOK'
  BY <1>2, <1>3, <1>4, <1>6, <1>7 DEF VpxInv, TypeOK
<1> QED
  BY <1>3, <1>7, <1>8, <1>9, <1>10 DEF VpxInv

LEMMA InitKeeps ==
  ASSUME Init
  PROVE  VpxInv
<1>1. /\ width \in Lengths /\ height \in Lengths /\ params \in Params
      /\ forceIFrame = FALSE /\ handlerSet = FALSE /\ initialized = FALSE
      /\ mtime = 1 /\ lastSetupMTime = 0
      /\ submitted = <<>> /\ calls = <<>> /\ stream = <<>>
  BY LengthsAssumption DEF Init, BaseInit
<1>2. BaseTypes
  <2>1. submitted \in Seq(Submissions) /\ calls \in Seq(Calls)
    BY <1>1, EmptySeq
  <2>2. mtime \in Nat /\ lastSetupMTime \in Nat /\ lastSetupMTime <= mtime
    BY <1>1
  <2>3. forceIFrame \in BOOLEAN /\ handlerSet \in BOOLEAN /\ initialized \in BOOLEAN
    BY <1>1
  <2> QED
    BY <1>1, <2>1, <2>2, <2>3 DEF BaseTypes
<1>3. /\ ctx = Null /\ rawImage = Null /\ live = FALSE /\ sendCounter = 0
      /\ made = [ctx |-> 0, image |-> 0] /\ destroyed = made
  BY DEF Init
<1>4. TypeOK
  BY <1>1, <1>3, EmptySeq DEF TypeOK
<1>5. ContextInv /\ NothingLeaks
  BY <1>1, <1>3 DEF ContextInv, NothingLeaks
<1> QED
  BY <1>2, <1>4, <1>5 DEF VpxInv

LEMMA NextKeeps ==
  ASSUME VpxInv, [Next]_vars
  PROVE  VpxInv'
<1>1. CASE Setter /\ UNCHANGED <<internals, natives>>
  BY <1>1, SetterKeeps
<1>2. CASE Initialize
  BY <1>2, InitializeKeeps
<1>3. CASE Shutdown
  BY <1>3, ShutdownKeeps
<1>4. CASE UNCHANGED vars
  BY <1>4, StutterKeeps
<1>5. CASE Drain
  BY <1>5, StutterKeeps DEF Drain
<1>6. ASSUME NEW w \in Lengths, NEW h \in Lengths, Encode(w, h)
      PROVE  VpxInv'
  BY <1>6, EncodeCases, KeepsContextKeeps, ReplacesContextKeeps, LosesContextKeeps
<1>7. CASE CallBackReturns /\ UNCHANGED <<internals, natives>>
  BY <1>7, CallBackReturnsKeeps
<1> QED
  BY <1>1, <1>2, <1>3, <1>4, <1>5, <1>6, <1>7 DEF Next

LEMMA VpxInvariant == Spec => []VpxInv
<1>1. Init => VpxInv
  BY InitKeeps
<1>2. VpxInv /\ [Next]_vars => VpxInv'
  BY NextKeeps
<1> QED
  BY <1>1, <1>2, PTL DEF Spec

(* The internals of the encoder, and the packets, have their types. *)
THEOREM InternalsTyped == Spec => []TypeOK
<1>1. VpxInv => TypeOK
  BY DEF VpxInv
<1> QED
  BY <1>1, VpxInvariant, PTL

(* However setups fail and whatever the callbacks call, each libvpx context and
   each image is destroyed, and once, but for those of an initialized encoder. *)
THEOREM NativesAccountedFor == Spec => []NothingLeaks
<1>1. VpxInv => NothingLeaks
  BY DEF VpxInv
<1> QED
  BY <1>1, VpxInvariant, PTL
-----------------------------------------------------------------------------
(* Timestamps.  Packets are of contexts made so far, and those of the current
   one are behind its counter. *)
TimeInv ==
  /\ \A i \in DOMAIN stream : stream[i].serial <= made.ctx
  /\ initialized =>
       \A i \in DOMAIN stream : stream[i].serial = made.ctx => stream[i].pts < sendCounter
  /\ TimestampsRise

(* A step may add a packet of the current context, with a timestamp from a floor
   that the packets of this context before it do not reach. *)
LEMMA TimeStep ==
  ASSUME TypeOK, TypeOK', TimeInv, stream \in Seq(Packets'), NEW floor \in Nat,
         made.ctx <= made'.ctx,
         initialized' =>
           /\ floor <= sendCounter'
           /\ \A i \in DOMAIN stream : stream[i].serial = made'.ctx => stream[i].pts < floor,
         \/ stream' = stream
         \/ \E p \in Packets' :
              /\ stream' = Append(stream, p)
              /\ initialized'
              /\ p.serial = made'.ctx
              /\ floor <= p.pts /\ p.pts < sendCounter'
  PROVE  TimeInv'
<1>1. \A i \in DOMAIN stream : stream[i] \in Packets'
  BY ElementOfSeq, LenProperties
<1>2. \A i \in DOMAIN stream : stream[i].serial \in Nat /\ stream[i].pts \in Nat
  BY <1>1 DEF Packets
<1>3. made.ctx \in Nat /\ made'.ctx \in Nat /\ sendCounter' \in Nat
  BY DEF TypeOK
<1>4. /\ \A i \in DOMAIN stream : stream[i].serial <= made'.ctx
      /\ initialized' =>
           \A i \in DOMAIN stream : stream[i].serial = made'.ctx => stream[i].pts < sendCounter'
  BY <1>2, <1>3 DEF TimeInv
<1>5. CASE stream' = stream
  BY <1>4, <1>5 DEF TimeInv, TimestampsRise
<1>6. ASSUME NEW p \in Packets', stream' = Append(stream, p), initialized',
             p.serial = made'.ctx, floor <= p.pts, p.pts < sendCounter'
      PROVE  TimeInv'
  <2> DEFINE n == Len(stream)
  <2>1. n \in Nat /\ DOMAIN stream = 1..n
    BY LenProperties
  <2>2. /\ DOMAIN stream' = 1..(n + 1)
        /\ \A i \in 1..n : stream'[i] = stream[i]
        /\ stream'[n + 1] = p
    <3>1. /\ stream' \in Seq(Packets') /\ Len(stream') = n + 1
          /\ \A i \in 1..n : stream'[i] = stream[i]
          /\ stream'[n + 1] = p
      BY <1>6, AppendProperties
    <3> QED
      BY <3>1, LenProperties
  <2>3. p.serial \in Nat /\ p.pts \in Nat
    BY <1>6 DEF Packets
  <2>4. \A i \in 1..n : stream[i].serial = p.serial => stream[i].pts < p.pts
    <3> SUFFICES ASSUME NEW i \in 1..n, stream[i].serial = p.serial
                 PROVE  stream[i].pts < p.pts
      OBVIOUS
    <3>1. stream[i].pts < floor /\ stream[i].pts \in Nat
      BY <1>2, <1>6, <2>1
    <3> QED
      BY <1>6, <2>3, <3>1
  <2>5. \A i \in DOMAIN stream' :
          /\ stream'[i].serial <= made'.ctx
          /\ stream'[i].serial = made'.ctx => stream'[i].pts < sendCounter'
    <3> TAKE i \in DOMAIN stream'
    <3>1. CASE i \in 1..n
      BY <1>4, <1>6, <2>1, <2>2, <3>1
    <3>2. CASE i = n + 1
      BY <1>3, <1>6, <2>2, <3>2
    <3> QED
      BY <2>1, <2>2, <3>1, <3>2
  <2>6. ASSUME NEW i \in DOMAIN stream', NEW j \in DOMAIN stream', i < j
        PROVE  /\ stream'[i].serial <= stream'[j].serial
               /\ stream'[i].serial = stream'[j].serial => stream'[i].pts < stream'[j].pts
    <3>1. i \in 1..n
      BY <2>1, <2>2, <2>6
    <3>2. CASE j \in 1..n
      BY <2>1, <2>2, <2>6, <3>1, <3>2 DEF TimeInv, TimestampsRise
    <3>3. CASE j = n + 1
      BY <1>4, <1>6, <2>1, <2>2, <2>4, <3>1, <3>3
    <3> QED
      BY <2>1, <2>2, <3>2, <3>3
  <2> QED
    BY <2>5, <2>6 DEF TimeInv, TimestampsRise
<1> QED
  BY <1>5, <1>6

LEMMA EncodeRises ==
  ASSUME VpxInv, VpxInv', TimeInv, NEW w \in Lengths, NEW h \in Lengths, Encode(w, h)
  PROVE  TimeInv'
<1>1. /\ Submit(w, h) /\ BaseTypes /\ TypeOK /\ TypeOK'
      /\ sendCounter \in Nat /\ made.ctx \in Nat
  BY EncodeCases DEF VpxInv, TypeOK
<1>2. stream \in Seq(Packets')
  BY <1>1, SubmitGrows, StreamBefore
<1>3. CASE KeepsContext(w, h)
  <2>1. /\ initialized /\ ctx \in Ctxs /\ rawImage \in Images /\ ctx.serial = made.ctx
        /\ EncodeInternal(ctx, rawImage, sendCounter)
        /\ UNCHANGED <<initialized, made>>
    BY <1>3, KeptContext DEF KeepsContext, setup, natives
  <2>2. /\ sendCounter' = sendCounter + 1
        /\ stream' = stream \/ Encoded(ctx, rawImage, sendCounter)
    BY <1>1, <2>1, EncodeInternalKeeps
  <2>3. \/ stream' = stream
        \/ \E p \in Packets' :
              /\ stream' = Append(stream, p)
              /\ p.serial = made'.ctx /\ p.pts = sendCounter
    BY <2>1, <2>2 DEF Encoded, Packet
  <2>4. /\ sendCounter <= sendCounter' /\ sendCounter < sendCounter' /\ sendCounter <= sendCounter
        /\ made.ctx <= made'.ctx
    <3>1. sendCounter' = sendCounter + 1 /\ sendCounter \in Nat /\ made.ctx \in Nat
          /\ made'.ctx = made.ctx
      BY <1>1, <2>1, <2>2
    <3> QED
      BY <3>1
  <2>5. \A i \in DOMAIN stream : stream[i].serial = made'.ctx => stream[i].pts < sendCounter
    BY <2>1 DEF TimeInv
  <2> QED
    BY <1>1, <1>2, <2>1, <2>3, <2>4, <2>5, TimeStep
<1>4. CASE ReplacesContext(w, h)
  <2> DEFINE c == NewCtx(w, h)
  <2>1. /\ params \in Params /\ c \in Ctxs /\ c.serial = made.ctx'
        /\ \A format \in ImageFormats : NewImage(w, h, format) \in Images
        /\ made'.ctx = made.ctx + 1 /\ initialized' = TRUE
    BY <1>1, <1>4, NewNatives DEF ReplacesContext, BaseTypes
  <2>2. PICK format \in ImageFormats : EncodeInternal(c, NewImage(w, h, format), 0)
    BY <1>4 DEF ReplacesContext
  <2> DEFINE image == NewImage(w, h, format)
  <2>3. sendCounter' = 0 + 1 /\ (stream' = stream \/ Encoded(c, image, 0))
    <3>1. image \in Images /\ EncodeInternal(c, image, 0) /\ 0 \in Nat
      BY <2>1, <2>2
    <3> HIDE DEF c, image
    <3> QED
      BY <1>1, <2>1, <3>1, EncodeInternalKeeps
  <2>4. \/ stream' = stream
        \/ \E p \in Packets' :
              /\ stream' = Append(stream, p)
              /\ p.serial = made'.ctx /\ p.pts = 0
    <3> HIDE DEF c, image
    <3> QED
      BY <2>1, <2>3 DEF Encoded, Packet
  <2>5. \A i \in DOMAIN stream : stream[i].serial # made'.ctx
    <3>1. \A i \in DOMAIN stream : stream[i].serial \in Nat
      <4>1. \A i \in DOMAIN stream : stream[i] \in Packets'
        BY <1>2, ElementOfSeq, LenProperties
      <4> QED
        BY <4>1 DEF Packets
    <3> QED
      BY <1>1, <2>1, <3>1 DEF TimeInv
  <2>6. 0 \in Nat /\ 0 <= sendCounter' /\ 0 < sendCounter' /\ made.ctx <= made'.ctx
    BY <1>1, <2>1, <2>3
  <2> HIDE DEF c, image
  <2> QED
    BY <1>1, <1>2, <2>1, <2>4, <2>5, <2>6, TimeStep
<1>5. CASE LosesContext
  <2>1. stream' = stream /\ initialized' = FALSE /\ UNCHANGED made
    BY <1>1, <1>5, LosesContextKeeps
  <2> QED
    BY <2>1 DEF TimeInv, TimestampsRise
<1> QED
  BY <1>3, <1>4, <1>5, EncodeCases

LEMMA NextRises ==
  ASSUME VpxInv, VpxInv', TimeInv, [Next]_vars
  PROVE  TimeInv'
<1>1. CASE Setter /\ UNCHANGED <<internals, natives>>
  <2>1. UNCHANGED <<initialized, stream, made, sendCounter>>
    BY <1>1 DEF Setter, SetWidth, SetHeight, SetParams, SetForceIFrame,
                SetOutputHandler, setup, output, internals, natives
  <2> QED
    BY <2>1 DEF TimeInv, TimestampsRise
<1>2. CASE Initialize
  <2>1. UNCHANGED stream
    BY <1>2 DEF Initialize, output
  <2>2. CASE SetupSucceeds
    <3>1. made'.ctx = made.ctx + 1
      BY <2>2 DEF SetupSucceeds, VpxInv, TypeOK
    <3>2. /\ stream \in Seq(Packets) /\ made.ctx \in Nat
          /\ \A i \in DOMAIN stream : stream[i].serial <= made.ctx
      BY DEF TimeInv, VpxInv, TypeOK
    <3>3. \A i \in DOMAIN stream : stream[i].serial \in Nat
      <4>1. \A i \in DOMAIN stream : stream[i] \in Packets
        BY <3>2, ElementOfSeq, LenProperties
      <4> QED
        BY <4>1 DEF Packets
    <3> QED
      BY <2>1, <3>1, <3>2, <3>3 DEF TimeInv, TimestampsRise
  <2>3. CASE SetupFails
    BY <2>1, <2>3 DEF SetupFails, SetupFailed, TimeInv, TimestampsRise
  <2> QED
    BY <1>2, <2>2, <2>3 DEF Initialize
<1>3. CASE Shutdown
  BY <1>3 DEF Shutdown, output, TimeInv, TimestampsRise
<1>4. CASE UNCHANGED vars
  BY <1>4 DEF vars, baseVars, setup, output, internals, natives, TimeInv, TimestampsRise
<1>5. CASE Drain
  BY <1>4, <1>5 DEF Drain
<1>6. ASSUME NEW w \in Lengths, NEW h \in Lengths, Encode(w, h)
      PROVE  TimeInv'
  BY <1>6, EncodeRises
<1>7. CASE CallBackReturns /\ UNCHANGED <<internals, natives>>
  <2>1. UNCHANGED <<initialized, stream, made, sendCounter>>
    BY <1>7, CallBackReturnsKeeps DEF CallBackReturns, setup, internals, natives
  <2> QED
    BY <2>1 DEF TimeInv, TimestampsRise
<1> QED
  BY <1>1, <1>2, <1>3, <1>4, <1>5, <1>6, <1>7 DEF Next

(* The timestamps of the packets of a context rise, so that libvpx takes them,
   and no packet of a context follows one of a later context, also when the
   application calls the encoder from its callbacks. *)
THEOREM TimestampsAlwaysRise == Spec => []TimestampsRise
<1>1. Init => TimeInv
  BY DEF Init, BaseInit, TimeInv, TimestampsRise
<1>2. VpxInv /\ VpxInv' /\ TimeInv /\ [Next]_vars => TimeInv'
  BY NextRises
<1>3. TimeInv => TimestampsRise
  BY DEF TimeInv
<1> QED
  BY <1>1, <1>2, <1>3, VpxInvariant, PTL DEF Spec
-----------------------------------------------------------------------------
(* Pixels.  An encoder that is never told a pixel format it does not support
   makes an image of the format it is told. *)
SupportedOnly == \A p \in Params : p.inputPixelFormat \in SupportedFormats

FormatInv == initialized => rawImage.format = ctx.cfg.params.inputPixelFormat

LEMMA NewFormat ==
  ASSUME SupportedOnly, params \in Params, NEW w, NEW h, NEW format \in ImageFormats
  PROVE  NewImage(w, h, format).format = params.inputPixelFormat
BY DEF SupportedOnly, ImageFormats, NewImage

LEMMA CopiedPixels ==
  ASSUME SupportedOnly, params \in Params, NEW image \in Images
  PROVE  Copied(image).pixels = NextFrame /\ Copied(image).format = image.format
BY DEF SupportedOnly, Copied, Images

LEMMA NextFormat ==
  ASSUME SupportedOnly, VpxInv, FormatInv, [Next]_vars
  PROVE  FormatInv'
<1>1. CASE Setter /\ UNCHANGED <<internals, natives>>
  BY <1>1 DEF Setter, SetWidth, SetHeight, SetParams, SetForceIFrame,
              SetOutputHandler, setup, internals, FormatInv
<1>2. CASE Initialize
  <2>1. CASE /\ SetupSucceeds
             /\ ctx' = NewCtx(width, height)
             /\ \E format \in ImageFormats : rawImage' = NewImage(width, height, format)
    <3>1. ctx'.cfg.params = params
      BY <2>1 DEF NewCtx
    <3>2. params \in Params
      BY DEF VpxInv, BaseTypes
    <3> QED
      BY <2>1, <3>1, <3>2, NewFormat DEF FormatInv
  <2>2. CASE SetupFails
    BY <2>2 DEF SetupFails, SetupFailed, FormatInv
  <2> QED
    BY <1>2, <2>1, <2>2 DEF Initialize
<1>3. CASE Shutdown
  BY <1>3 DEF Shutdown, FormatInv
<1>4. CASE UNCHANGED vars
  BY <1>4 DEF vars, baseVars, setup, internals, FormatInv
<1>5. CASE Drain
  BY <1>4, <1>5 DEF Drain
<1>6. ASSUME NEW w \in Lengths, NEW h \in Lengths, Encode(w, h)
      PROVE  FormatInv'
  <2>1. Submit(w, h) /\ BaseTypes /\ TypeOK /\ params \in Params
    BY <1>6, EncodeCases DEF VpxInv, BaseTypes
  <2>2. CASE KeepsContext(w, h)
    <3>1. initialized /\ ctx \in Ctxs /\ rawImage \in Images /\ sendCounter \in Nat
      BY <2>2, KeptContext DEF KeepsContext
    <3>2. ctx'.cfg = ctx.cfg /\ rawImage' = Copied(rawImage)
      BY <2>1, <2>2, <3>1, EncodeInternalKeeps DEF KeepsContext
    <3> QED
      BY <2>1, <3>1, <3>2, CopiedPixels DEF FormatInv
  <2>3. CASE ReplacesContext(w, h)
    <3> DEFINE c == NewCtx(w, h)
    <3>1. /\ c \in Ctxs /\ c.cfg = [w |-> w, h |-> h, params |-> params]
          /\ \A format \in ImageFormats : NewImage(w, h, format) \in Images
      BY <2>1, <2>3, NewNatives DEF ReplacesContext
    <3>2. PICK format \in ImageFormats : EncodeInternal(c, NewImage(w, h, format), 0)
      BY <2>3 DEF ReplacesContext
    <3> DEFINE image == NewImage(w, h, format)
    <3>3. image \in Images /\ image.format = params.inputPixelFormat
      BY <2>1, <3>1, NewFormat
    <3>4. ctx'.cfg = c.cfg /\ rawImage' = Copied(image)
      <4>1. EncodeInternal(c, image, 0) /\ 0 \in Nat
        BY <3>2
      <4> HIDE DEF c, image
      <4> QED
        BY <2>1, <3>1, <3>3, <4>1, EncodeInternalKeeps
    <3>5. rawImage'.format = params.inputPixelFormat
      <4> HIDE DEF image
      <4> QED
        BY <2>1, <3>3, <3>4, CopiedPixels
    <3> HIDE DEF c
    <3> QED
      BY <3>1, <3>4, <3>5 DEF FormatInv
  <2>4. CASE LosesContext
    BY <2>1, <2>4, LosesContextKeeps DEF FormatInv
  <2> QED
    BY <1>6, <2>2, <2>3, <2>4, EncodeCases
<1>7. CASE CallBackReturns /\ UNCHANGED <<internals, natives>>
  BY <1>7 DEF CallBackReturns, setup, internals, FormatInv
<1> QED
  BY <1>1, <1>2, <1>3, <1>4, <1>5, <1>6, <1>7 DEF Next

(* A packet added shows its frame. *)
LEMMA EncodedShows ==
  ASSUME SupportedOnly, VpxInv, PacketsShowTheirFrame,
         NEW w \in Lengths, NEW h \in Lengths, Submit(w, h),
         NEW c \in Ctxs, NEW image \in Images, NEW counter,
         c.cfg.w = w, c.cfg.h = h,
         stream' = stream \/ Encoded(c, image, counter)
  PROVE  PacketsShowTheirFrame'
<1>1. CASE stream' = stream
  BY <1>1 DEF PacketsShowTheirFrame
<1>2. CASE Encoded(c, image, counter)
  <2>1. PICK key \in BOOLEAN :
          /\ Packet(c, Copied(image), counter, key) \in Packets'
          /\ stream' = Append(stream, Packet(c, Copied(image), counter, key))
    BY <1>2 DEF Encoded
  <2> DEFINE p == Packet(c, Copied(image), counter, key)
  <2>2. p.pixels = p.frame /\ p.w = p.cw /\ p.h = p.ch
    <3>1. width' = w /\ height' = h /\ params \in Params
      BY DEF Submit, VpxInv, BaseTypes
    <3> QED
      BY <3>1, CopiedPixels DEF Packet
  <2>3. stream \in Seq(Packets')
    BY SubmitGrows, StreamBefore DEF VpxInv
  <2>4. p \in Packets' /\ stream' = Append(stream, p)
    BY <2>1
  <2> HIDE DEF p
  <2>5. /\ Len(stream) \in Nat /\ DOMAIN stream = 1..Len(stream)
        /\ DOMAIN stream' = 1..(Len(stream) + 1)
        /\ \A i \in 1..Len(stream) : stream'[i] = stream[i]
        /\ stream'[Len(stream) + 1] = p
    BY <2>3, <2>4, LenProperties, AppendProperties
  <2> QED
    BY <2>2, <2>5 DEF PacketsShowTheirFrame
<1> QED
  BY <1>1, <1>2

LEMMA NextShows ==
  ASSUME SupportedOnly, VpxInv, PacketsShowTheirFrame, [Next]_vars
  PROVE  PacketsShowTheirFrame'
<1>1. CASE Setter /\ UNCHANGED <<internals, natives>>
  BY <1>1 DEF Setter, SetWidth, SetHeight, SetParams, SetForceIFrame,
              SetOutputHandler, output, PacketsShowTheirFrame
<1>2. CASE Initialize \/ Shutdown
  BY <1>2 DEF Initialize, Shutdown, output, PacketsShowTheirFrame
<1>3. CASE Drain \/ UNCHANGED vars
  BY <1>3 DEF Drain, vars, baseVars, output, PacketsShowTheirFrame
<1>4. ASSUME NEW w \in Lengths, NEW h \in Lengths, Encode(w, h)
      PROVE  PacketsShowTheirFrame'
  <2>1. Submit(w, h) /\ BaseTypes /\ TypeOK /\ params \in Params
    BY <1>4, EncodeCases DEF VpxInv, BaseTypes
  <2>2. CASE KeepsContext(w, h)
    <3>1. /\ ctx \in Ctxs /\ rawImage \in Images /\ sendCounter \in Nat
          /\ ctx.cfg = [w |-> w, h |-> h, params |-> params]
      BY <2>2, KeptContext DEF KeepsContext
    <3>2. stream' = stream \/ Encoded(ctx, rawImage, sendCounter)
      BY <2>1, <2>2, <3>1, EncodeInternalKeeps DEF KeepsContext
    <3> QED
      BY <2>1, <3>1, <3>2, EncodedShows
  <2>3. CASE ReplacesContext(w, h)
    <3> DEFINE c == NewCtx(w, h)
    <3>1. /\ c \in Ctxs /\ c.cfg = [w |-> w, h |-> h, params |-> params]
          /\ \A format \in ImageFormats : NewImage(w, h, format) \in Images
      BY <2>1, <2>3, NewNatives DEF ReplacesContext
    <3>2. PICK format \in ImageFormats : EncodeInternal(c, NewImage(w, h, format), 0)
      BY <2>3 DEF ReplacesContext
    <3> DEFINE image == NewImage(w, h, format)
    <3>3. image \in Images /\ EncodeInternal(c, image, 0) /\ 0 \in Nat
      BY <3>1, <3>2
    <3> HIDE DEF c, image
    <3>4. stream' = stream \/ Encoded(c, image, 0)
      BY <2>1, <3>1, <3>3, EncodeInternalKeeps
    <3> QED
      BY <2>1, <3>1, <3>3, <3>4, EncodedShows
  <2>4. CASE LosesContext
    <3>1. stream' = stream
      BY <2>1, <2>4, LosesContextKeeps
    <3> QED
      BY <3>1 DEF PacketsShowTheirFrame
  <2> QED
    BY <1>4, <2>2, <2>3, <2>4, EncodeCases
<1>5. CASE CallBackReturns /\ UNCHANGED <<internals, natives>>
  BY <1>5, CallBackReturnsKeeps DEF PacketsShowTheirFrame
<1> QED
  BY <1>1, <1>2, <1>3, <1>4, <1>5 DEF Next

(* With supported pixel formats, each packet shows the frame it is the packet of,
   at the size it claims, though all frames of a context share one image. *)
THEOREM PacketsAlwaysShowTheirFrame ==
  ASSUME SupportedOnly
  PROVE  Spec => []PacketsShowTheirFrame
<1>1. Init => PacketsShowTheirFrame
  BY DEF Init, BaseInit, PacketsShowTheirFrame
<1>2. VpxInv /\ PacketsShowTheirFrame /\ [Next]_vars => PacketsShowTheirFrame'
  BY NextShows
<1> QED
  BY <1>1, <1>2, VpxInvariant, PTL DEF Spec
-----------------------------------------------------------------------------
(* VpxEncoder implements EncoderContract, for any lengths, settings and bounds,
   when the pixel formats are supported ones. *)

Abstract(c) ==
  [w |-> c.cfg.w, h |-> c.cfg.h, params |-> c.cfg.params,
   held |-> <<>>, started |-> c.coded, eos |-> FALSE]

Mapped(s) == [i \in DOMAIN s |-> AbstractPacket(s[i])]

LEMMA MappedIsSeq ==
  ASSUME NEW S, NEW s \in Seq(S)
  PROVE  /\ Mapped(s) \in Seq({AbstractPacket(q) : q \in S})
         /\ Len(Mapped(s)) = Len(s)
<1> DEFINE n == Len(s)
           T == {AbstractPacket(q) : q \in S}
<1>1. n \in Nat /\ DOMAIN s = 1..n /\ \A i \in 1..n : s[i] \in S
  BY LenProperties, ElementOfSeq
<1>2. \A i \in 1..n : AbstractPacket(s[i]) \in T
  BY <1>1
<1>3. Mapped(s) = [i \in 1..n |-> AbstractPacket(s[i])]
  BY <1>1 DEF Mapped
<1> HIDE DEF T, n
<1>4. Mapped(s) \in [1..n -> T] /\ DOMAIN Mapped(s) = 1..n
  BY <1>2, <1>3
<1>5. Mapped(s) \in Seq(T)
  BY <1>1, <1>4, SeqDef
<1>6. Len(Mapped(s)) = n
  BY <1>1, <1>4, <1>5, LenProperties
<1> QED
  BY <1>5, <1>6 DEF T, n

(* Two fields of a context change. *)
LEMMA TwoFieldsChange ==
  ASSUME NEW r \in [w : Lengths, h : Lengths, params : Params, held : {<<>>},
                    started : BOOLEAN, eos : BOOLEAN],
         NEW held \in {<<>>}, NEW started \in BOOLEAN
  PROVE  [r EXCEPT !.held = held, !.started = started] =
           [w |-> r.w, h |-> r.h, params |-> r.params,
            held |-> held, started |-> started, eos |-> r.eos]
<1> DEFINE q == [w |-> r.w, h |-> r.h, params |-> r.params,
                 held |-> held, started |-> started, eos |-> r.eos]
<1>1. /\ q \in [w : Lengths, h : Lengths, params : Params, held : {<<>>},
                started : BOOLEAN, eos : BOOLEAN]
      /\ q.w = r.w /\ q.h = r.h /\ q.params = r.params
      /\ q.held = held /\ q.started = started /\ q.eos = r.eos
  OBVIOUS
<1> HIDE DEF q
<1>2. [r EXCEPT !.held = held, !.started = started] = q
  BY <1>1
<1> QED
  BY <1>2 DEF q

(* A packet appended to the stream is one appended to the abstract stream. *)
LEMMA MappedAppend ==
  ASSUME NEW S, NEW s \in Seq(S), NEW p \in S
  PROVE  Mapped(Append(s, p)) = Mapped(s) \o <<AbstractPacket(p)>>
<1> DEFINE n == Len(s)
           t == Append(s, p)
           a == AbstractPacket(p)
           T == {AbstractPacket(q) : q \in S}
<1>1. n \in Nat /\ DOMAIN s = 1..n /\ \A i \in 1..n : s[i] \in S
  BY LenProperties, ElementOfSeq
<1>2. /\ t \in Seq(S) /\ DOMAIN t = 1..(n + 1)
      /\ \A i \in 1..n : t[i] = s[i]
      /\ t[n + 1] = p
  BY AppendProperties, LenProperties
<1>3. Mapped(s) \in Seq(T) /\ Len(Mapped(s)) = n
  BY MappedIsSeq
<1>4. a \in T
  OBVIOUS
<1> HIDE DEF a, T, n, t
<1>5. /\ Append(Mapped(s), a) \in Seq(T)
      /\ Len(Append(Mapped(s), a)) = n + 1
      /\ \A i \in 1..n : Append(Mapped(s), a)[i] = Mapped(s)[i]
      /\ Append(Mapped(s), a)[n + 1] = a
  BY <1>1, <1>3, <1>4, AppendProperties
<1>6. Mapped(t) = [i \in 1..(n + 1) |-> AbstractPacket(t[i])]
  BY <1>2 DEF Mapped
<1>7. \A i \in 1..(n + 1) : Append(Mapped(s), a)[i] = AbstractPacket(t[i])
  <2> TAKE i \in 1..(n + 1)
  <2>1. CASE i \in 1..n
    BY <1>1, <1>2, <1>5, <2>1 DEF Mapped
  <2>2. CASE i = n + 1
    BY <1>2, <1>5, <2>2 DEF a
  <2>3. n \in Nat
    BY <1>1
  <2>4. i \in 1..n \/ i = n + 1
    BY <2>3
  <2> QED
    BY <2>1, <2>2, <2>4
<1>8. Append(Mapped(s), a) = Mapped(t)
  <2>1. Append(Mapped(s), a) = [i \in 1..(n + 1) |-> Append(Mapped(s), a)[i]]
    BY <1>5, LenProperties
  <2> QED
    BY <1>6, <1>7, <2>1
<1>9. Append(Mapped(s), a) = Mapped(s) \o <<a>>
  BY <1>3, <1>4, AppendIsConcat
<1> QED
  BY <1>8, <1>9 DEF a, t

(* A result with one packet, and one with none, is one of the contract. *)
LEMMA ReportsAbstractPacket ==
  ASSUME NEW S, stream \in Seq(S), NEW p \in S, NEW status,
         ReportResult(status, <<p>>)
  PROVE  Contract!ReportResult(status, <<AbstractPacket(p)>>)
<1> DEFINE a == AbstractPacket(p)
<1>1. Mapped(stream \o <<p>>) = Mapped(stream) \o <<a>>
  <2>1. stream \o <<p>> = Append(stream, p)
    BY AppendIsConcat
  <2> QED
    BY <2>1, MappedAppend
<1>2. /\ Head(<<p>>) = p /\ Tail(<<p>>) = <<>> /\ <<p>> # <<>>
      /\ Head(<<a>>) = a /\ Tail(<<a>>) = <<>> /\ <<a>> # <<>>
  OBVIOUS
<1> HIDE DEF a
<1>3. \A st : CallBack(st, <<p>>, <<>>) => Contract!CallBack(st, <<a>>, <<>>)
  BY <1>1 DEF CallBack, Contract!CallBack, Mapped, NextFrame, Contract!NextFrame
<1>4. CASE handlerSet /\ CallBack(status, <<p>>, <<>>)
  BY <1>3, <1>4 DEF Contract!ReportResult, a
<1>5. CASE ~handlerSet /\ CallBack("Success", <<Head(<<p>>)>>, Tail(<<p>>))
  <2>1. CallBack("Success", <<p>>, <<>>)
    BY <1>2, <1>5
  <2>2. Contract!CallBack("Success", <<Head(<<a>>)>>, Tail(<<a>>))
    BY <1>2, <1>3, <2>1
  <2> QED
    BY <1>2, <1>5, <2>2 DEF Contract!ReportResult, a
<1> QED
  BY <1>2, <1>4, <1>5 DEF ReportResult

LEMMA CallsBackEmpty ==
  ASSUME NEW S, stream \in Seq(S), NEW status, CallBack(status, <<>>, <<>>)
  PROVE  Contract!CallBack(status, <<>>, <<>>)
<1> DEFINE T == {AbstractPacket(q) : q \in S}
<1>1. stream \o <<>> = stream
  BY ConcatEmptySeq
<1>2. Mapped(stream) \in Seq(T)
  BY MappedIsSeq
<1>3. Mapped(stream) \o <<>> = Mapped(stream)
  <2> HIDE DEF T
  <2> QED
    BY <1>2, ConcatEmptySeq
<1> QED
  BY <1>1, <1>3 DEF CallBack, Contract!CallBack, Mapped, NextFrame, Contract!NextFrame

LEMMA ReportsNoAbstractPacket ==
  ASSUME NEW S, stream \in Seq(S), NEW status, ReportResult(status, <<>>)
  PROVE  Contract!ReportResult(status, <<>>)
<1>1. CASE handlerSet /\ CallBack(status, <<>>, <<>>)
  BY <1>1, CallsBackEmpty DEF Contract!ReportResult
<1>2. CASE ~handlerSet /\ UNCHANGED <<calls, reports, stream>>
  BY <1>2 DEF Contract!ReportResult
<1> QED
  BY <1>1, <1>2 DEF ReportResult
-----------------------------------------------------------------------------
(* The packet of a frame is that of the contract. *)
LEMMA PacketIsAbstract ==
  ASSUME NEW c, NEW image, NEW counter, NEW key,
         c.cfg.params \in Params, params = c.cfg.params,
         image.format = c.cfg.params.inputPixelFormat
  PROVE  AbstractPacket(Packet(c, image, counter, key)) =
           Contract!Packet(Abstract(c), NextFrame, key)
<1>1. c.cfg.params \in VpxParams
  BY VpxAssumption
<1>2. [bitRate |-> c.cfg.params.bitRate, inputPixelFormat |-> image.format,
       keyFramesOnly |-> params.keyFramesOnly] = c.cfg.params
  BY <1>1 DEF VpxParams
<1> QED
  BY <1>2 DEF AbstractPacket, Packet, Contract!Packet, Abstract

(* Encoding a frame takes it in and gives its packet at once, or refuses it. *)
LEMMA EncodeInternalRefines ==
  ASSUME SupportedOnly, VpxInv, NEW w \in Lengths, NEW h \in Lengths, Submit(w, h),
         NEW c \in Ctxs, NEW image \in Images, NEW counter \in Nat,
         c.cfg.params = params, image.format = params.inputPixelFormat,
         EncodeInternal(c, image, counter)
  PROVE  Contract!EncodeInternal(Abstract(c))
<1>1. /\ NextFrame \in Nat /\ NextFrame \in Frames' /\ Frames \subseteq Frames'
      /\ width' = w /\ height' = h
  BY SubmitGrows DEF VpxInv
<1>2. stream \in Seq(Packets')
  BY <1>1, StreamBefore DEF VpxInv
<1>3. ctx' \in Ctxs
  BY EncodeInternalKeeps DEF VpxInv
<1>4. ctx' # Null
  BY <1>3, NotNull
<1>5. params \in Params /\ submitted \in Seq(Submissions)
  BY DEF VpxInv, BaseTypes
<1>6. CASE EncodeSucceeds(c, Copied(image), counter)
  <2>1. PICK key \in BOOLEAN :
          /\ ~c.coded \/ ForceKey => key
          /\ ReportResult("Success", <<Packet(c, Copied(image), counter, key)>>)
    BY <1>6 DEF EncodeSucceeds
  <2> DEFINE p == Packet(c, Copied(image), counter, key)
             a == Contract!Packet(Abstract(c), NextFrame, key)
  <2>2. /\ ctx' = [c EXCEPT !.coded = TRUE]
        /\ Copied(image).format # "invalid"
        /\ UNCHANGED failed
    BY <1>6 DEF EncodeSucceeds
  <2>3. Copied(image) \in Images' /\ Copied(image).format = image.format
    BY <1>1, CopiedImage
  <2>4. p \in Packets'
    BY <1>1, <1>5, <2>2, <2>3, PacketType
  <2>5. AbstractPacket(p) = a
    BY <1>5, <2>3, PacketIsAbstract
  <2>6. Contract!ReportResult("Success", <<a>>)
    <3>1. ReportResult("Success", <<p>>)
      BY <2>1
    <3> HIDE DEF p, a
    <3>2. Contract!ReportResult("Success", <<AbstractPacket(p)>>)
      BY <1>2, <2>4, <3>1, ReportsAbstractPacket
    <3> QED
      BY <2>5, <3>2
  <2>7. submitted'[NextFrame].forced = forceIFrame
    <3>1. submitted' = Append(submitted, [w |-> w, h |-> h, params |-> params,
                                forced |-> forceIFrame, toHandler |-> handlerSet])
      BY DEF Submit
    <3>2. submitted'[Len(submitted) + 1].forced = forceIFrame
      BY <1>5, <3>1, AppendProperties
    <3> QED
      BY <3>2 DEF NextFrame
  <2>8. AbstractContext' =
          [w |-> c.cfg.w, h |-> c.cfg.h, params |-> c.cfg.params,
           held |-> <<>>, started |-> TRUE, eos |-> FALSE]
    <3>1. ctx'.cfg = c.cfg /\ ctx'.coded = TRUE
      BY <2>2 DEF Ctxs
    <3> QED
      BY <1>4, <3>1 DEF AbstractContext
  <2>9. Contract!EncodeTakesIn(Abstract(c))
    <3> DEFINE waiting == Append(Abstract(c).held, NextFrame)
               keys == [i \in 1..1 |-> key]
    <3>1. waiting = <<NextFrame>> /\ Len(waiting) = 1 /\ waiting[1] = NextFrame
      BY DEF Abstract
    <3>2. SubSeq(waiting, 1 + 1, Len(waiting)) = <<>>
      BY <3>1
    <3>3. /\ \A i \in 1..1 :
               submitted'[waiting[i]].forced \/ (i = 1 /\ ~Abstract(c).started) => keys[i]
      BY <2>1, <2>7, <3>1 DEF ForceKey, Abstract
    <3>4. [i \in 1..1 |-> Contract!Packet(Abstract(c), waiting[i], keys[i])] = <<a>>
      BY <3>1
    <3>5. AbstractContext' = [Abstract(c) EXCEPT
                                !.held = SubSeq(waiting, 1 + 1, Len(waiting)),
                                !.started = @ \/ 1 > 0]
      <4> DEFINE rest == SubSeq(waiting, 1 + 1, Len(waiting))
      <4>1. (Abstract(c).started \/ 1 > 0) = TRUE
        OBVIOUS
      <4>2. rest = <<>>
        BY <3>2
      <4> HIDE DEF rest, waiting
      <4>3. [Abstract(c) EXCEPT !.held = rest, !.started = TRUE] = AbstractContext'
        <5> DEFINE r == Abstract(c)
        <5>1. /\ r \in [w : Lengths, h : Lengths, params : Params, held : {<<>>},
                        started : BOOLEAN, eos : BOOLEAN]
              /\ r.w = c.cfg.w /\ r.h = c.cfg.h /\ r.params = c.cfg.params /\ r.eos = FALSE
          BY DEF Abstract, Ctxs, Cfgs
        <5> HIDE DEF r
        <5>2. AbstractContext' = [w |-> r.w, h |-> r.h, params |-> r.params,
                                  held |-> rest, started |-> TRUE, eos |-> r.eos]
          BY <2>8, <4>2, <5>1
        <5> QED
          BY <4>2, <5>1, <5>2, TwoFieldsChange DEF r
      <4> QED
        BY <4>1, <4>3 DEF rest
    <3>6. keys \in [1..1 -> BOOLEAN] /\ 1 \in 0..Len(waiting)
      BY <3>1
    <3> HIDE DEF keys, a
    <3>7. Contract!NextFrame = NextFrame
      BY DEF Contract!NextFrame, NextFrame
    <3>8. Contract!ReportResult("Success",
            [i \in 1..1 |-> Contract!Packet(Abstract(c), waiting[i], keys[i])])
      BY <2>6, <3>4
    <3> QED
      BY <2>2, <3>3, <3>5, <3>6, <3>7, <3>8 DEF Contract!EncodeTakesIn
  <2> QED
    BY <2>9 DEF Contract!EncodeInternal
<1>7. CASE EncodeFails(c)
  <2>1. AbstractContext' = Abstract(c)
    BY <1>4, <1>7 DEF EncodeFails, AbstractContext, Abstract
  <2>2. Contract!ReportResult("Error", <<>>)
    BY <1>2, <1>7, ReportsNoAbstractPacket DEF EncodeFails
  <2>3. Contract!EncodeRefuses(Abstract(c))
    BY <1>7, <2>1, <2>2 DEF EncodeFails, Contract!EncodeRefuses, NextFrame,
                            Contract!NextFrame
  <2> QED
    BY <2>3 DEF Contract!EncodeInternal
<1> QED
  BY <1>6, <1>7 DEF EncodeInternal

(* There is nothing to give up: no frame is held. *)
LEMMA NothingHeld ==
  ASSUME VpxInv
  PROVE  Contract!DropHeld
<1>1. initialized => ctx # Null
  BY DEF VpxInv, ContextInv
<1>2. initialized => AbstractContext.held = <<>>
  BY <1>1 DEF AbstractContext
<1>3. Contract!Range(<<>>) = {}
  BY DEF Contract!Range
<1> QED
  BY <1>2, <1>3 DEF Contract!DropHeld

(* The context of a setup is a new one. *)
LEMMA NewContextIsNew ==
  ASSUME NEW w, NEW h
  PROVE  Abstract(NewCtx(w, h)) = Contract!NewContext(w, h, params)
BY DEF Abstract, NewCtx, Contract!NewContext

LEMMA ContextIsAbstract ==
  ASSUME NEW c \in Ctxs, ctx' = c
  PROVE  AbstractContext' = Abstract(c)
<1>1. c # Null
  BY NotNull
<1> QED
  BY <1>1 DEF AbstractContext, Abstract

LEMMA SetupSucceededRefines ==
  ASSUME SetupSucceeds
  PROVE  Contract!SetupSucceeded
BY DEF SetupSucceeds, SetupSucceeded, Contract!SetupSucceeded

LEMMA SetupFailsRefines ==
  ASSUME SetupFails, ctx' = Null
  PROVE  Contract!SetupFails
BY DEF SetupFails, SetupFailed, Contract!SetupFails, Contract!SetupFailed, AbstractContext

LEMMA SetterRefines ==
  ASSUME Setter, UNCHANGED <<internals, natives>>
  PROVE  Contract!Next
<1>1. UNCHANGED AbstractContext
  BY DEF internals, AbstractContext
<1>2. Contract!Setter
  BY DEF Setter, SetWidth, SetHeight, SetParams, SetForceIFrame, SetOutputHandler,
         Modified, setup, output,
         Contract!Setter, Contract!SetWidth, Contract!SetHeight, Contract!SetParams,
         Contract!SetForceIFrame, Contract!SetOutputHandler, Contract!Modified,
         Contract!setup, Contract!output
<1> QED
  BY <1>1, <1>2 DEF Contract!Next

LEMMA InitializeRefines ==
  ASSUME VpxInv, Initialize
  PROVE  Contract!Initialize
<1>1. /\ ~initialized
      /\ UNCHANGED <<width, height, forceIFrame, handlerSet, output>>
  BY DEF Initialize
<1>2. UNCHANGED <<width, height, forceIFrame, handlerSet, Contract!output>>
  BY <1>1 DEF output, Contract!output
<1>3. CASE SetupSucceeds /\ ctx' = NewCtx(width, height)
  <2>1. width \in Lengths /\ height \in Lengths /\ params \in Params /\ TypeOK
    BY DEF VpxInv, BaseTypes
  <2>2. NewCtx(width, height) \in Ctxs
    BY <1>3, <2>1, NewNatives
  <2>3. AbstractContext' = Contract!NewContext(width, height, params)
    BY <1>3, <2>2, ContextIsAbstract, NewContextIsNew
  <2>4. Contract!SetupSucceeded
    BY <1>3, SetupSucceededRefines
  <2> QED
    BY <1>1, <1>2, <2>3, <2>4 DEF Contract!Initialize
<1>4. CASE SetupFails /\ UNCHANGED <<ctx, rawImage, live>>
  <2>1. ctx' = Null
    BY <1>1, <1>4 DEF VpxInv, ContextInv
  <2>2. Contract!SetupFails
    BY <1>4, <2>1, SetupFailsRefines
  <2> QED
    BY <1>1, <1>2, <2>2 DEF Contract!Initialize
<1> QED
  BY <1>3, <1>4 DEF Initialize

LEMMA ShutdownRefines ==
  ASSUME VpxInv, Shutdown
  PROVE  Contract!Shutdown
<1>1. ctx' = Null
  BY DEF VpxInv, ContextInv, Shutdown, LeftReleased, FreesCtx
<1>2. AbstractContext' = Null
  BY <1>1 DEF AbstractContext
<1>3. /\ initialized /\ initialized' = FALSE
      /\ UNCHANGED <<config, mtime, lastSetupMTime, touched, output>>
  BY DEF Shutdown
<1>4. UNCHANGED <<Contract!config, Contract!output>>
  BY <1>3 DEF config, output, Contract!config, Contract!output
<1> QED
  BY <1>2, <1>3, <1>4, NothingHeld DEF Contract!Shutdown

LEMMA CallBackReturnsRefines ==
  ASSUME VpxInv, CallBackReturns, UNCHANGED <<internals, natives>>
  PROVE  Contract!Next
<1>1. UNCHANGED AbstractContext
  BY DEF internals, AbstractContext
<1>2. Head(calls).rest = <<>>
  <2>1. calls \in Seq(Calls) /\ calls # <<>>
    BY DEF CallBackReturns, VpxInv, BaseTypes
  <2>2. Head(calls) \in Calls
    BY <2>1, HeadTailProperties
  <2> QED
    BY <2>2 DEF Calls
<1>3. /\ calls # <<>> /\ calls' = Tail(calls)
      /\ UNCHANGED <<reports, stream, config, setup, submitted, failed, reentered>>
  BY <1>2 DEF CallBackReturns
<1>4. Contract!CallBackReturns
  BY <1>2, <1>3 DEF Contract!CallBackReturns, config, setup, Contract!config,
                    Contract!setup
<1> QED
  BY <1>1, <1>4 DEF Contract!Next

LEMMA StutterRefines ==
  ASSUME UNCHANGED vars
  PROVE  UNCHANGED Contract!vars
BY DEF vars, baseVars, config, setup, output, internals, natives, AbstractContext,
       Contract!vars, Contract!baseVars, Contract!config, Contract!setup, Contract!output

LEMMA EncodeRefines ==
  ASSUME SupportedOnly, VpxInv, FormatInv, NEW w \in Lengths, NEW h \in Lengths,
         Encode(w, h)
  PROVE  Contract!Encode(w, h)
<1>1. /\ params \in Params /\ TypeOK /\ BaseTypes
      /\ Submit(w, h)
  BY EncodeCases DEF VpxInv, BaseTypes
<1>2. Contract!Submit(w, h)
  BY <1>1 DEF Submit, Contract!Submit
<1>3. Contract!UpToDate(w, h) <=> UpToDate(w, h)
  BY DEF UpToDate, Contract!UpToDate
<1>4. CASE KeepsContext(w, h)
  <2>1. /\ UpToDate(w, h) /\ initialized /\ ctx \in Ctxs /\ rawImage \in Images
        /\ sendCounter \in Nat
        /\ ctx.cfg = [w |-> w, h |-> h, params |-> params]
    BY <1>4, KeptContext DEF KeepsContext
  <2>2. ctx.cfg.params = params /\ rawImage.format = params.inputPixelFormat
    BY <2>1 DEF FormatInv
  <2>3. Contract!EncodeInternal(Abstract(ctx))
    BY <1>1, <1>4, <2>1, <2>2, EncodeInternalRefines DEF KeepsContext
  <2>4. Abstract(ctx) = AbstractContext
    BY <2>1, NotNull DEF Abstract, AbstractContext
  <2>5. UNCHANGED <<params, Contract!setup>>
    BY <1>4 DEF KeepsContext, setup, Contract!setup
  <2> QED
    BY <1>2, <1>3, <2>1, <2>3, <2>4, <2>5 DEF Contract!Encode
<1>5. CASE ~UpToDate(w, h) /\ ReplacesContext(w, h)
  <2> DEFINE c == NewCtx(w, h)
  <2>1. /\ c \in Ctxs /\ c.cfg = [w |-> w, h |-> h, params |-> params]
        /\ \A format \in ImageFormats : NewImage(w, h, format) \in Images
    BY <1>1, <1>5, NewNatives DEF ReplacesContext
  <2>2. PICK format \in ImageFormats : EncodeInternal(c, NewImage(w, h, format), 0)
    BY <1>5 DEF ReplacesContext
  <2> DEFINE image == NewImage(w, h, format)
  <2>3. /\ image \in Images /\ image.format = params.inputPixelFormat
        /\ EncodeInternal(c, image, 0) /\ 0 \in Nat
    BY <1>1, <2>1, <2>2, NewFormat
  <2>4. Abstract(c) = Contract!NewContext(w, h, params)
    BY NewContextIsNew
  <2>5. Contract!SetupSucceeded
    BY <1>5, SetupSucceededRefines DEF ReplacesContext
  <2> HIDE DEF c, image
  <2>6. c.cfg.params = params
    BY <2>1
  <2>7. Contract!EncodeInternal(Abstract(c))
    BY <1>1, <2>1, <2>3, <2>6, EncodeInternalRefines
  <2> QED
    BY <1>2, <1>3, <1>5, <2>4, <2>5, <2>7, NothingHeld DEF Contract!Encode
<1>6. CASE ~UpToDate(w, h) /\ LosesContext
  <2>1. ctx' = Null
    BY <1>6 DEF VpxInv, ContextInv, LosesContext, LeftReleased, FreesCtx
  <2>2. Contract!SetupFails
    BY <1>6, <2>1, SetupFailsRefines DEF LosesContext
  <2>3. Contract!ReportNoContext
    <3>1. stream \in Seq(Packets) /\ CallBack("Error", <<>>, <<>>)
      BY <1>1, <1>6 DEF LosesContext, ReportNoContext, TypeOK
    <3>2. Contract!CallBack("Error", <<>>, <<>>)
      BY <3>1, CallsBackEmpty
    <3> QED
      BY <1>6, <3>2 DEF LosesContext, ReportNoContext, Contract!ReportNoContext, NextFrame,
                        Contract!NextFrame
  <2> QED
    BY <1>2, <1>3, <1>6, <2>2, <2>3, NothingHeld DEF Contract!Encode
<1> QED
  BY <1>4, <1>5, <1>6 DEF Encode, KeepsContext, ReplacesContext, LosesContext

LEMMA InitRefines ==
  ASSUME Init
  PROVE  Contract!Init
BY DEF Init, BaseInit, AbstractContext, Contract!Init, Contract!BaseInit

LEMMA NextRefines ==
  ASSUME SupportedOnly, VpxInv, FormatInv, [Next]_vars
  PROVE  [Contract!Next]_(Contract!vars)
<1>1. CASE Setter /\ UNCHANGED <<internals, natives>>
  BY <1>1, SetterRefines
<1>2. CASE Initialize
  BY <1>2, InitializeRefines DEF Contract!Next
<1>3. CASE Shutdown
  BY <1>3, ShutdownRefines DEF Contract!Next
<1>4. CASE UNCHANGED vars
  BY <1>4, StutterRefines
<1>5. CASE Drain
  BY <1>5, StutterRefines DEF Drain
<1>6. ASSUME NEW w \in Lengths, NEW h \in Lengths, Encode(w, h)
      PROVE  Contract!Next
  BY <1>6, EncodeRefines DEF Contract!Next
<1>7. CASE CallBackReturns /\ UNCHANGED <<internals, natives>>
  BY <1>7, CallBackReturnsRefines
<1> QED
  BY <1>1, <1>2, <1>3, <1>4, <1>5, <1>6, <1>7 DEF Next

(* Whatever vtkVpxEncoder does with contexts, image and counter, whichever of
   its calls fail and whatever the callbacks call: an application that knows
   the contract only sees an encoder that keeps it. *)
THEOREM VpxImplementsContract ==
  ASSUME SupportedOnly
  PROVE  Spec => ImplementsContract
<1>1. Init => Contract!Init
  BY InitRefines
<1>2. Init => FormatInv
  BY DEF Init, BaseInit, FormatInv
<1>3. VpxInv /\ FormatInv /\ [Next]_vars => FormatInv'
  BY NextFormat
<1>4. VpxInv /\ FormatInv /\ [Next]_vars => [Contract!Next]_(Contract!vars)
  BY NextRefines
<1> QED
  BY <1>1, <1>2, <1>3, <1>4, VpxInvariant, PTL DEF Spec, ImplementsContract, Contract!Spec
-----------------------------------------------------------------------------
(* What is proved of the contract. *)
CP == INSTANCE EncoderContractProofs WITH
  NoContext <- Null,
  stream <- [i \in DOMAIN stream |-> AbstractPacket(stream[i])],
  context <- AbstractContext,
  dropped <- {}

LEMMA ContractAssumptions == CP!LengthsAssumption /\ CP!BoundsAssumption
BY LengthsAssumption, BoundsAssumption DEF CP!LengthsAssumption, CP!BoundsAssumption

(* It is proved of the same specification. *)
LEMMA SameInit == Contract!Init => CP!Init
BY DEF Contract!Init, Contract!BaseInit, CP!Init, CP!BaseInit

LEMMA SameSetter ==
  ASSUME Contract!Setter, UNCHANGED <<AbstractContext, {}>>
  PROVE  CP!Next
BY DEF Contract!Setter, Contract!SetWidth, Contract!SetHeight, Contract!SetParams,
       Contract!SetForceIFrame, Contract!SetOutputHandler, Contract!Modified,
       Contract!setup, Contract!output,
       CP!Setter, CP!SetWidth, CP!SetHeight, CP!SetParams,
       CP!SetForceIFrame, CP!SetOutputHandler, CP!Modified, CP!setup, CP!output, CP!Next

LEMMA SameSetup ==
  /\ Contract!SetupSucceeded <=> CP!SetupSucceeded
  /\ Contract!SetupFails <=> CP!SetupFails
  /\ Contract!DropHeld <=> CP!DropHeld
  /\ \A w, h, p : Contract!NewContext(w, h, p) = CP!NewContext(w, h, p)
BY DEF Contract!SetupSucceeded, Contract!SetupFails, Contract!SetupFailed, Contract!DropHeld,
       Contract!NewContext, Contract!Range, CP!SetupSucceeded, CP!SetupFails, CP!SetupFailed,
       CP!DropHeld, CP!NewContext, CP!Range

LEMMA SameLife ==
  /\ Contract!Initialize <=> CP!Initialize
  /\ Contract!Drain <=> CP!Drain
  /\ Contract!Shutdown <=> CP!Shutdown
BY SameSetup
   DEF Contract!Initialize, Contract!Drain, Contract!Shutdown, Contract!baseVars,
       Contract!config, Contract!setup, Contract!output,
       CP!Initialize, CP!Drain, CP!Shutdown, CP!baseVars, CP!config, CP!setup, CP!output

LEMMA SameReports ==
  /\ \A status, packets : Contract!ReportResult(status, packets) <=> CP!ReportResult(status, packets)
  /\ Contract!ReportNoContext <=> CP!ReportNoContext
<1>1. \A status, packets, rest :
        Contract!CallBack(status, packets, rest) <=> CP!CallBack(status, packets, rest)
  BY DEF Contract!CallBack, Contract!NextFrame, CP!CallBack, CP!NextFrame
<1>2. Contract!NextFrame = CP!NextFrame
  BY DEF Contract!NextFrame, CP!NextFrame
<1> QED
  BY <1>1, <1>2 DEF Contract!ReportResult, Contract!ReportNoContext, CP!ReportResult,
                    CP!ReportNoContext

LEMMA SameEncodeInternal ==
  ASSUME NEW c
  PROVE  Contract!EncodeInternal(c) <=> CP!EncodeInternal(c)
BY Zenon DEF Contract!EncodeInternal, Contract!EncodeTakesIn, Contract!EncodeRefuses,
       Contract!NextFrame, Contract!Packet, Contract!ReportResult, Contract!CallBack,
       CP!EncodeInternal, CP!EncodeTakesIn, CP!EncodeRefuses,
       CP!NextFrame, CP!Packet, CP!ReportResult, CP!CallBack

LEMMA SameEncode ==
  ASSUME NEW w, NEW h
  PROVE  Contract!Encode(w, h) <=> CP!Encode(w, h)
<1>1. Contract!Submit(w, h) <=> CP!Submit(w, h)
  BY DEF Contract!Submit, CP!Submit
<1>2. Contract!UpToDate(w, h) <=> CP!UpToDate(w, h)
  BY DEF Contract!UpToDate, CP!UpToDate
<1> QED
  BY <1>1, <1>2, SameSetup, SameReports, SameEncodeInternal
     DEF Contract!Encode, Contract!setup, CP!Encode, CP!setup

LEMMA SameReturns == Contract!CallBackReturns <=> CP!CallBackReturns
BY DEF Contract!CallBackReturns, Contract!config, Contract!setup,
       CP!CallBackReturns, CP!config, CP!setup

LEMMA SameSpec == Contract!Spec => CP!Spec
<1>1. [Contract!Next]_(Contract!vars) => [CP!Next]_(CP!vars)
  <2>1. CASE Contract!Setter /\ UNCHANGED <<AbstractContext, {}>>
    BY <2>1, SameSetter
  <2>2. CASE Contract!Initialize \/ Contract!Drain \/ Contract!Shutdown
    BY <2>2, SameLife DEF CP!Next
  <2>3. ASSUME NEW w \in Lengths, NEW h \in Lengths, Contract!Encode(w, h)
        PROVE  CP!Next
    BY <2>3, SameEncode DEF CP!Next
  <2>4. CASE Contract!CallBackReturns /\ UNCHANGED <<AbstractContext, {}>>
    BY <2>4, SameReturns DEF CP!Next
  <2>5. CASE UNCHANGED Contract!vars
    BY <2>5 DEF Contract!vars, Contract!baseVars, Contract!config, Contract!setup,
                Contract!output, CP!vars, CP!baseVars, CP!config, CP!setup, CP!output
  <2> QED
    BY <2>1, <2>2, <2>3, <2>4, <2>5 DEF Contract!Next
<1> QED
  BY <1>1, SameInit, PTL DEF Contract!Spec, CP!Spec

(* So the VP9 encoder keeps what was proved of every encoder, *)
Kept ==
  /\ CP!TypeOK
  /\ CP!PacketsMatchTheirFrame
  /\ CP!EveryFrameInOnePlace
  /\ CP!DeliveredInOrder
  /\ CP!NewConfigurationStartsWithKey
  /\ CP!OneReportPerFrame

LEMMA ContractKept ==
  ASSUME SupportedOnly
  PROVE  Spec => []Kept
<1>1. Spec => CP!Spec
  BY VpxImplementsContract, SameSpec DEF ImplementsContract
<1>2. CP!Spec => []CP!TypeOK
  BY ContractAssumptions, CP!TypeCorrect
<1>3. CP!Spec => []CP!PacketsMatchTheirFrame
  BY ContractAssumptions, CP!PacketsMatch
<1>4. CP!Spec => []CP!EveryFrameInOnePlace
  BY ContractAssumptions, CP!NoFrameLostOrTwice
<1>5. CP!Spec => []CP!DeliveredInOrder
  BY ContractAssumptions, CP!AlwaysDeliveredInOrder
<1>6. CP!Spec => []CP!NewConfigurationStartsWithKey
  BY ContractAssumptions, CP!AlwaysKeyFirst
<1>7. CP!Spec => []CP!OneReportPerFrame
  BY ContractAssumptions, CP!AlwaysOneReport
<1>8. CP!TypeOK /\ CP!PacketsMatchTheirFrame /\ CP!EveryFrameInOnePlace /\ CP!DeliveredInOrder
        /\ CP!NewConfigurationStartsWithKey /\ CP!OneReportPerFrame => Kept
  BY DEF Kept
<1> QED
  BY <1>1, <1>2, <1>3, <1>4, <1>5, <1>6, <1>7, <1>8, PTL

(* Its results have one packet at most, so what the contract says of events
   between which Encode is called says nothing here. *)
Alone == VpxInv /\ Kept /\ ~reentered

(* No call waits between two events. *)
LEMMA NothingComing ==
  ASSUME VpxInv
  PROVE  \A i \in DOMAIN calls : calls[i].rest = <<>>
<1>1. calls \in Seq(Calls)
  BY DEF VpxInv, BaseTypes
<1>2. \A i \in DOMAIN calls : calls[i] \in Calls
  BY <1>1, ElementOfSeq, LenProperties
<1> QED
  BY <1>2 DEF Calls

LEMMA NeverReentered ==
  ASSUME VpxInv, ~reentered, [Next]_vars
  PROVE  ~reentered'
<1>1. \A i \in DOMAIN calls : calls[i].rest = <<>>
  BY NothingComing
<1>2. CASE Setter
  BY <1>2 DEF Setter, SetWidth, SetHeight, SetParams, SetForceIFrame, SetOutputHandler, output
<1>3. CASE Initialize
  BY <1>3 DEF Initialize, output
<1>4. CASE Drain
  BY <1>4 DEF Drain, vars, baseVars, output
<1>5. CASE Shutdown
  BY <1>5 DEF Shutdown, output
<1>6. ASSUME NEW w \in Lengths, NEW h \in Lengths, Encode(w, h)
      PROVE  ~reentered'
  BY <1>1, <1>6 DEF Encode, Submit
<1>7. CASE CallBackReturns
  BY <1>7 DEF CallBackReturns
<1>8. CASE UNCHANGED vars
  BY <1>8 DEF vars, baseVars, output
<1> QED
  BY <1>2, <1>3, <1>4, <1>5, <1>6, <1>7, <1>8 DEF Next

LEMMA AloneInvariant ==
  ASSUME SupportedOnly
  PROVE  Spec => []Alone
<1>1. Init => ~reentered
  BY DEF Init, BaseInit
<1>2. VpxInv /\ ~reentered /\ [Next]_vars => ~reentered'
  BY NeverReentered
<1>3. VpxInv /\ Kept /\ ~reentered => Alone
  BY DEF Alone
<1> QED
  BY <1>1, <1>2, <1>3, VpxInvariant, ContractKept, PTL DEF Spec

(* Every frame given to Encode has its packet by now, or was refused. *)
EveryFrameAnswered ==
  /\ Delivered \cap failed = {}
  /\ Delivered \cup failed = Frames

(* The packets come in the order of their frames, each once; each has the size
   and the settings its frame was given with; and where one differs from the
   one before in these, it is a key frame. *)
StreamCanBeFollowed ==
  /\ \A i, j \in DOMAIN stream : i < j => stream[i].frame < stream[j].frame
  /\ \A i \in DOMAIN stream :
       LET p == stream[i]
           s == submitted[p.frame]
       IN p.w = s.w /\ p.h = s.h /\ p.params = s.params
  /\ \A i \in DOMAIN stream :
       LET p == stream[i]
           q == stream[i - 1]
       IN i = 1 \/ p.w # q.w \/ p.h # q.h \/ p.params # q.params => p.key

(* Of the five places of the contract the VP9 encoder uses two, *)
LEMMA NothingWaits ==
  ASSUME Alone
  PROVE  EveryFrameAnswered
<1> DEFINE s == [i \in DOMAIN stream |-> AbstractPacket(stream[i])]
           places == <<CP!Delivered, CP!InEvents, CP!Held, failed, {}>>
<1>1. CP!Held = {}
  <2>1. initialized => AbstractContext.held = <<>>
    BY DEF Alone, VpxInv, ContextInv, AbstractContext
  <2> QED
    BY <2>1 DEF CP!Held, CP!Range
<1>2. CP!InEvents = {}
  <2>1. \A i \in DOMAIN calls : calls[i].rest = <<>>
    BY NothingComing DEF Alone
  <2>2. \A i \in DOMAIN calls : CP!Range(calls[i].rest) = {}
    BY <2>1 DEF CP!Range
  <2> QED
    BY <2>2 DEF CP!InEvents, CP!RestPackets
<1>3. CP!Delivered = Delivered
  <2>1. \A i \in DOMAIN stream : s[i].frame = stream[i].frame
    BY DEF AbstractPacket
  <2>2. CP!Range(s) = {s[i] : i \in DOMAIN stream} /\ Range(stream) = {stream[i] : i \in DOMAIN stream}
    BY DEF CP!Range, Range
  <2>3. CP!Delivered = {p.frame : p \in CP!Range(s)}
    BY DEF CP!Delivered
  <2>4. Delivered = {p.frame : p \in Range(stream)}
    BY DEF Delivered
  <2> HIDE DEF s
  <2>5. CP!Delivered = {s[i].frame : i \in DOMAIN stream}
    BY <2>2, <2>3
  <2>6. Delivered = {stream[i].frame : i \in DOMAIN stream}
    BY <2>2, <2>4
  <2> QED
    BY <2>1, <2>5, <2>6
<1>4. /\ \A i, j \in DOMAIN places : i # j => places[i] \cap places[j] = {}
      /\ UNION CP!Range(places) = Frames
  BY DEF Alone, Kept, CP!EveryFrameInOnePlace, CP!Frames, Frames
<1>5. /\ DOMAIN places = 1..5
      /\ places[1] = CP!Delivered /\ places[2] = CP!InEvents /\ places[3] = CP!Held
      /\ places[4] = failed /\ places[5] = {}
  OBVIOUS
<1>6. 1..5 = {1, 2, 3, 4, 5}
  OBVIOUS
<1> HIDE DEF places
<1>7. CP!Range(places) = {CP!Delivered, CP!InEvents, CP!Held, failed, {}}
  BY <1>5, <1>6 DEF CP!Range
<1>8. CP!Delivered \cap failed = {}
  BY <1>4, <1>5, <1>6
<1>9. CP!Delivered \cup failed = Frames
  BY <1>1, <1>2, <1>4, <1>7
<1> QED
  BY <1>3, <1>8, <1>9 DEF EveryFrameAnswered

(* and its packets are seen by the contract as they are. *)
LEMMA CanBeFollowed ==
  ASSUME Alone
  PROVE  StreamCanBeFollowed
<1> DEFINE s == [i \in DOMAIN stream |-> AbstractPacket(stream[i])]
<1>1. /\ DOMAIN s = DOMAIN stream
      /\ \A i \in DOMAIN stream :
           /\ s[i].frame = stream[i].frame
           /\ s[i].w = stream[i].w /\ s[i].h = stream[i].h
           /\ s[i].params = stream[i].params /\ s[i].key = stream[i].key
  BY DEF AbstractPacket
<1>2. \A i, j \in DOMAIN s : i < j => s[i].frame < s[j].frame
  BY DEF Alone, Kept, CP!DeliveredInOrder
<1>3. \A i \in DOMAIN s : CP!SubmittedAs(s[i].frame, s[i].w, s[i].h, s[i].params)
  BY DEF Alone, Kept, CP!PacketsMatchTheirFrame
<1>4. \A i \in DOMAIN s :
        i = 1 \/ s[i].w # s[i - 1].w \/ s[i].h # s[i - 1].h \/ s[i].params # s[i - 1].params
        => s[i].key
  BY DEF Alone, Kept, CP!NewConfigurationStartsWithKey
<1>5. \A i \in DOMAIN stream : i = 1 \/ i - 1 \in DOMAIN stream
  <2>1. stream \in Seq(Packets)
    BY DEF Alone, VpxInv, TypeOK
  <2> QED
    BY <2>1, LenProperties
<1> HIDE DEF s
<1>6. \A i \in DOMAIN stream :
        LET p == stream[i]
            t == submitted[p.frame]
        IN p.w = t.w /\ p.h = t.h /\ p.params = t.params
  BY <1>1, <1>3 DEF CP!SubmittedAs
<1>7. \A i \in DOMAIN stream :
        LET p == stream[i]
            q == stream[i - 1]
        IN i = 1 \/ p.w # q.w \/ p.h # q.h \/ p.params # q.params => p.key
  BY <1>1, <1>4, <1>5
<1>8. \A i, j \in DOMAIN stream : i < j => stream[i].frame < stream[j].frame
  BY <1>1, <1>2
<1> QED
  BY <1>6, <1>7, <1>8 DEF StreamCanBeFollowed

(* Whenever Encode calls back or has returned, every frame given to a VP9
   encoder was delivered or refused, and one of these only: none waits in it,
   and Drain, Shutdown and changes of configuration lose none. *)
THEOREM VpxAnswersEveryFrame ==
  ASSUME SupportedOnly
  PROVE  Spec => []EveryFrameAnswered
<1>1. Alone => EveryFrameAnswered
  BY NothingWaits
<1> QED
  BY <1>1, AloneInvariant, PTL

(* What a VP9 encoder gives out, a decoder can follow, over resizes, changes of
   settings and failures, whatever the callbacks call, Encode included. *)
THEOREM VpxStreamCanBeFollowed ==
  ASSUME SupportedOnly
  PROVE  Spec => []StreamCanBeFollowed
<1>1. Alone => StreamCanBeFollowed
  BY CanBeFollowed
<1> QED
  BY <1>1, AloneInvariant, PTL

(* An output handler hears of every frame exactly once, in the order in which
   the frames were given. *)
THEOREM VpxReportsOnce ==
  ASSUME SupportedOnly
  PROVE  Spec => []Contract!OneReportPerFrame
<1>1. Alone => Contract!OneReportPerFrame
  BY DEF Alone, Kept, CP!OneReportPerFrame, Contract!OneReportPerFrame, CP!Frames, Contract!Frames
<1> QED
  BY <1>1, AloneInvariant, PTL
-----------------------------------------------------------------------------
(* The packets as a recording takes them. *)

(* Each packet goes on in the context and the size of the one before, later than
   it, or begins a later context, with a key frame. *)
Recordable ==
  \A i \in DOMAIN stream :
    LET p == stream[i]
        q == stream[i - 1]
    IN IF i > 1 /\ p.serial = q.serial
       THEN p.w = q.w /\ p.h = q.h /\ q.pts < p.pts
       ELSE p.key /\ (i > 1 => q.serial < p.serial)

GoesOnOrBegins ==
  \A i \in DOMAIN stream :
    LET p == stream[i]
        q == stream[i - 1]
    IN IF i > 1 /\ p.serial = q.serial THEN p.w = q.w /\ p.h = q.h ELSE p.key

(* The last packet is of context c if c has given one out; and if not, none is. *)
EndsWith(c) ==
  LET p == stream[Len(stream)]
  IN IF c.coded
     THEN stream # <<>> /\ p.serial = c.serial /\ p.w = c.cfg.w /\ p.h = c.cfg.h
     ELSE \A i \in DOMAIN stream : stream[i].serial # c.serial

RecordableInv ==
  /\ GoesOnOrBegins
  /\ initialized => EndsWith(ctx)

(* EncodeInternal appends at most one packet, of the context it is given: a key
   frame if it is the first of the context. *)
LEMMA EncodedGoesOn ==
  ASSUME VpxInv, GoesOnOrBegins, NEW w \in Lengths, NEW h \in Lengths, Submit(w, h),
         NEW c \in Ctxs, NEW image \in Images, NEW counter \in Nat,
         EncodeInternal(c, image, counter), EndsWith(c), c.cfg.w = w, c.cfg.h = h
  PROVE  RecordableInv'
<1>1. (stream' = stream /\ ctx' = c) \/ Encoded(c, image, counter)
  BY EncodeInternalKeeps DEF VpxInv
<1>2. CASE stream' = stream /\ ctx' = c
  BY <1>2 DEF RecordableInv, GoesOnOrBegins, EndsWith
<1>3. CASE Encoded(c, image, counter)
  <2>1. PICK key \in BOOLEAN :
          /\ ~c.coded => key
          /\ Packet(c, Copied(image), counter, key) \in Packets'
          /\ stream' = Append(stream, Packet(c, Copied(image), counter, key))
          /\ ctx' = [c EXCEPT !.coded = TRUE]
    BY <1>3 DEF Encoded
  <2> DEFINE p == Packet(c, Copied(image), counter, key)
             n == Len(stream)
  <2>2. p.serial = c.serial /\ p.w = c.cfg.w /\ p.h = c.cfg.h /\ (~c.coded => p.key)
    BY <2>1 DEF Packet, Submit
  <2>3. /\ n \in Nat /\ DOMAIN stream = 1..n
        /\ stream # <<>> => n > 0
        /\ DOMAIN stream' = 1..(n + 1) /\ Len(stream') = n + 1 /\ stream' # <<>>
        /\ \A i \in 1..n : stream'[i] = stream[i]
        /\ stream'[n + 1] = p
    <3>1. stream \in Seq(Packets') /\ p \in Packets' /\ stream' = Append(stream, p)
      BY <2>1, SubmitGrows, StreamBefore DEF VpxInv
    <3> HIDE DEF p
    <3>2. stream' \in Seq(Packets') /\ stream' # <<>>
      BY <3>1, AppendProperties
    <3> QED
      BY <3>1, <3>2, LenProperties, AppendProperties, EmptySeq
  <2>4. ctx'.coded = TRUE /\ ctx'.serial = c.serial /\ ctx'.cfg = c.cfg
    BY <2>1 DEF Ctxs
  <2> HIDE DEF p
  <2>5. EndsWith(ctx)'
    BY <2>2, <2>3, <2>4 DEF EndsWith
  <2>6. ASSUME n > 0
        PROVE  IF p.serial = stream[n].serial THEN p.w = stream[n].w /\ p.h = stream[n].h
               ELSE p.key
    <3>1. n \in DOMAIN stream
      BY <2>3, <2>6
    <3>2. CASE c.coded
      BY <2>2, <3>2 DEF EndsWith
    <3>3. CASE ~c.coded
      BY <2>2, <3>1, <3>3 DEF EndsWith
    <3> QED
      BY <3>2, <3>3
  <2>7. n = 0 => p.key
    BY <2>2, <2>3 DEF EndsWith
  <2>8. GoesOnOrBegins'
    <3> SUFFICES ASSUME NEW i \in 1..(n + 1)
                 PROVE  IF i > 1 /\ stream'[i].serial = stream'[i - 1].serial
                        THEN stream'[i].w = stream'[i - 1].w /\ stream'[i].h = stream'[i - 1].h
                        ELSE stream'[i].key
      BY <2>3 DEF GoesOnOrBegins
    <3>1. CASE i \in 1..n
      <4>1. stream'[i] = stream[i] /\ (i > 1 => stream'[i - 1] = stream[i - 1])
        BY <2>3, <3>1
      <4> QED
        BY <2>3, <3>1, <4>1 DEF GoesOnOrBegins
    <3>2. CASE i = n + 1
      <4>1. stream'[i] = p /\ (n > 0 => stream'[i - 1] = stream[n])
        BY <2>3, <3>2
      <4>2. i > 1 <=> n > 0
        BY <2>3, <3>2
      <4> QED
        BY <2>3, <2>6, <2>7, <4>1, <4>2
    <3> QED
      BY <2>3, <3>1, <3>2
  <2> QED
    BY <2>5, <2>8 DEF RecordableInv
<1> QED
  BY <1>1, <1>2, <1>3

(* No packet is of a context that is yet to be made. *)
LEMMA NewIsLater ==
  ASSUME VpxInv, TimeInv
  PROVE  \A i \in DOMAIN stream : stream[i].serial # made.ctx + 1
<1>1. stream \in Seq(Packets) /\ made.ctx \in Nat
  BY DEF VpxInv, TypeOK
<1>2. \A i \in DOMAIN stream : stream[i] \in Packets
  BY <1>1, ElementOfSeq, LenProperties
<1>3. \A i \in DOMAIN stream : stream[i].serial \in Nat
  BY <1>2 DEF Packets
<1> QED
  BY <1>1, <1>3 DEF TimeInv

(* No step of the encoder breaks RecordableInv. *)
LEMMA NextRecordable ==
  ASSUME VpxInv, TimeInv, RecordableInv, [Next]_vars
  PROVE  RecordableInv'
<1>1. CASE Setter /\ UNCHANGED <<internals, natives>>
  BY <1>1 DEF Setter, SetWidth, SetHeight, SetParams, SetForceIFrame, SetOutputHandler,
              setup, output, internals, RecordableInv, GoesOnOrBegins, EndsWith
<1>2. CASE Initialize
  <2>1. stream' = stream
    BY <1>2 DEF Initialize, output
  <2>2. CASE ctx' = NewCtx(width, height)
    <3>1. ctx'.coded = FALSE /\ ctx'.serial = made.ctx + 1
      BY <2>2 DEF NewCtx
    <3> QED
      BY <2>1, <3>1, NewIsLater DEF RecordableInv, GoesOnOrBegins, EndsWith
  <2>3. CASE SetupFails
    BY <2>1, <2>3 DEF SetupFails, SetupFailed, RecordableInv, GoesOnOrBegins
  <2> QED
    BY <1>2, <2>2, <2>3 DEF Initialize
<1>3. CASE Shutdown
  BY <1>3 DEF Shutdown, output, RecordableInv, GoesOnOrBegins
<1>4. CASE Drain \/ UNCHANGED vars
  BY <1>4 DEF Drain, vars, baseVars, setup, output, internals, RecordableInv, GoesOnOrBegins,
              EndsWith
<1>5. ASSUME NEW w \in Lengths, NEW h \in Lengths, Encode(w, h)
      PROVE  RecordableInv'
  <2>1. Submit(w, h) /\ BaseTypes /\ TypeOK /\ params \in Params
    BY <1>5, EncodeCases DEF VpxInv, BaseTypes
  <2>2. CASE KeepsContext(w, h)
    <3>1. /\ ctx \in Ctxs /\ rawImage \in Images /\ sendCounter \in Nat /\ initialized
          /\ ctx.cfg = [w |-> w, h |-> h, params |-> params]
          /\ EncodeInternal(ctx, rawImage, sendCounter)
      BY <2>2, KeptContext DEF KeepsContext
    <3> QED
      BY <2>1, <3>1, EncodedGoesOn DEF RecordableInv
  <2>3. CASE ReplacesContext(w, h)
    <3> DEFINE c == NewCtx(w, h)
    <3>1. /\ c \in Ctxs /\ c.cfg = [w |-> w, h |-> h, params |-> params]
          /\ \A format \in ImageFormats : NewImage(w, h, format) \in Images
      BY <2>1, <2>3, NewNatives DEF ReplacesContext
    <3>2. PICK format \in ImageFormats : EncodeInternal(c, NewImage(w, h, format), 0)
      BY <2>3 DEF ReplacesContext
    <3> DEFINE image == NewImage(w, h, format)
    <3>3. image \in Images /\ EncodeInternal(c, image, 0) /\ 0 \in Nat
      BY <3>1, <3>2
    <3>4. c.coded = FALSE /\ c.serial = made.ctx + 1
      BY DEF NewCtx
    <3> HIDE DEF c, image
    <3>5. EndsWith(c)
      BY <3>4, NewIsLater DEF EndsWith
    <3> QED
      BY <2>1, <3>1, <3>3, <3>5, EncodedGoesOn DEF RecordableInv
  <2>4. CASE LosesContext
    <3>1. stream' = stream /\ initialized' = FALSE
      BY <2>1, <2>4, LosesContextKeeps
    <3> QED
      BY <3>1 DEF RecordableInv, GoesOnOrBegins
  <2> QED
    BY <1>5, <2>2, <2>3, <2>4, EncodeCases
<1>6. CASE CallBackReturns /\ UNCHANGED <<internals, natives>>
  <2>1. UNCHANGED <<stream, initialized, ctx>>
    BY <1>6, CallBackReturnsKeeps DEF CallBackReturns, setup, internals
  <2> QED
    BY <2>1 DEF RecordableInv, GoesOnOrBegins, EndsWith
<1> QED
  BY <1>1, <1>2, <1>3, <1>4, <1>5, <1>6 DEF Next

(* With timestamps that rise in the order of contexts, what follows goes on in
   the context of the packet before or begins a later one. *)
LEMMA InOrderOfContexts ==
  ASSUME VpxInv, GoesOnOrBegins, TimestampsRise
  PROVE  Recordable
<1>1. stream \in Seq(Packets)
  BY DEF VpxInv, TypeOK
<1>2. \A i \in DOMAIN stream : stream[i] \in Packets
  BY <1>1, ElementOfSeq, LenProperties
<1>3. \A i \in DOMAIN stream : stream[i].serial \in Nat
  BY <1>2 DEF Packets
<1>4. \A i \in DOMAIN stream : i > 1 => i - 1 \in DOMAIN stream /\ i - 1 < i
  BY <1>1, LenProperties
<1>5. \A i \in DOMAIN stream : i > 1 =>
        /\ stream[i - 1].serial <= stream[i].serial
        /\ stream[i - 1].serial = stream[i].serial => stream[i - 1].pts < stream[i].pts
  BY <1>4 DEF TimestampsRise
<1>6. \A i \in DOMAIN stream : i > 1 /\ stream[i].serial # stream[i - 1].serial
        => stream[i - 1].serial < stream[i].serial
  BY <1>3, <1>4, <1>5
<1> QED
  BY <1>5, <1>6 DEF GoesOnOrBegins, Recordable

(* What Recording takes for granted of an encoder holds of the VP9 encoder,
   with any pixel formats: a context begins with a key frame, keeps its size,
   and its timestamps rise; contexts do not come back. *)
THEOREM VpxIsRecordable == Spec => []Recordable
<1>1. Init => TimeInv /\ RecordableInv
  BY DEF Init, BaseInit, TimeInv, TimestampsRise, RecordableInv, GoesOnOrBegins
<1>2. VpxInv /\ VpxInv' /\ TimeInv /\ RecordableInv /\ [Next]_vars => TimeInv' /\ RecordableInv'
  BY NextRises, NextRecordable
<1>3. VpxInv /\ TimeInv /\ RecordableInv => Recordable
  BY InOrderOfContexts DEF TimeInv, RecordableInv
<1> QED
  BY <1>1, <1>2, <1>3, VpxInvariant, PTL DEF Spec
=============================================================================

----------------------------- MODULE VpxEncoder -----------------------------
(***************************************************************************)
(* vtkVpxEncoder: the VP9 encoder on libvpx.  It holds the libvpx context  *)
(* (Ctx), one raw image the pixels of each frame are copied into           *)
(* (RawImage), a counter that stamps the packets (SendCounter) and a flag  *)
(* of its own for the life of Ctx.  Its Cfg is filled in right before the  *)
(* context is made from it and never read again: it is a part of ctx.      *)
(* Of libvpx, which the repository bundles, this has what the class relies *)
(* on: it runs without lookahead and in one pass, so an encoded frame is   *)
(* one packet at once, or an error.                                        *)
(***************************************************************************)
EXTENDS VideoEncoder

CONSTANTS
  PixelFormats,     (* InputPixelFormat, and the format of the frames.      *)
  BitRates,         (* Stands for every setting copied into Cfg.            *)
  Null,             (* A null pointer, or a context that does not exist.    *)
  Uninitialized,    (* Pixels nobody wrote.                                 *)
  MaxContexts       (* Bound on the number of libvpx contexts made.         *)

VpxParams ==
  [inputPixelFormat : PixelFormats, keyFramesOnly : BOOLEAN, bitRate : BitRates]

ASSUME VpxAssumption == Params \subseteq VpxParams /\ MaxContexts \in Nat

(* A null pointer is no context and no image. *)
ASSUME NullAssumption ==
  /\ Null \notin [serial : Nat, cfg : [w : Nat, h : Nat, params : Params], coded : BOOLEAN]
  /\ Null \notin [w : Nat, h : Nat, format : {"NV12", "IYUV", "invalid"},
                 pixels : Nat \cup {Uninitialized}]

VARIABLES
  ctx,              (* Internals->Ctx: its serial number, the cfg it was
                       made from, and whether it has coded a frame          *)
  rawImage,         (* Internals->RawImage: its format, size and pixels     *)
  live,             (* Internals->initialized                               *)
  sendCounter,      (* Internals->SendCounter                               *)
  made, destroyed   (* history: libvpx contexts, and images, so far         *)

internals == <<ctx, rawImage, live, sendCounter>>
natives == <<made, destroyed>>
vars == <<baseVars, internals, natives>>

SupportedFormats == {"NV12", "IYUV"}

Init ==
  /\ BaseInit
  /\ ctx = Null
  /\ rawImage = Null
  /\ live = FALSE
  /\ sendCounter = 0
  /\ made = [ctx |-> 0, image |-> 0]
  /\ destroyed = made
-----------------------------------------------------------------------------
(* SetupEncoderFrame.  In the switch that maps InputPixelFormat to a libvpx
   format, an unsupported one leaves the variable unset: vpx_img_alloc is
   called with any value. *)
ImageFormats ==
  IF params.inputPixelFormat \in SupportedFormats
  THEN {params.inputPixelFormat}
  ELSE SupportedFormats \cup {"invalid"}

NewImage(w, h, format) ==
  [w |-> w, h |-> h, format |-> format, pixels |-> Uninitialized]

(* InitializeInternal resets SendCounter and fills Cfg in, then
   SetupEncoderFrame makes a context and an image. *)
NewCtx(w, h) ==
  [serial |-> made.ctx + 1, cfg |-> [w |-> w, h |-> h, params |-> params],
   coded |-> FALSE]

SetupSucceeds ==
  /\ made.ctx < MaxContexts
  /\ made' = [made EXCEPT !.ctx = @ + 1, !.image = @ + 1]
  /\ live' = TRUE
  /\ SetupSucceeded

(* vpx_codec_enc_config_default fails, or vpx_codec_enc_init does, which
   leaves no context. *)
SetupFails ==
  /\ sendCounter' = 0
  /\ UNCHANGED made
  /\ SetupFailed

Initialize ==
  /\ ~initialized
  /\ \/ /\ SetupSucceeds
        /\ ctx' = NewCtx(width, height)
        /\ \E format \in ImageFormats : rawImage' = NewImage(width, height, format)
        /\ sendCounter' = 0
     \/ /\ SetupFails
        /\ UNCHANGED <<ctx, rawImage, live>>
  /\ UNCHANGED <<width, height, forceIFrame, handlerSet, output, destroyed>>

(* Fault: the image is left to the next setup. *)
FreesNoImage == FALSE

(* Shutdown: TearDownEncoderFrame frees the image and ShutdownInternal the
   context, if there is one. *)
FreesImage == initialized /\ rawImage # Null
FreesCtx == initialized /\ live

Release ==
  destroyed' = [ctx |-> destroyed.ctx + (IF FreesCtx THEN 1 ELSE 0),
                image |-> destroyed.image + (IF FreesImage THEN 1 ELSE 0)]

LeftReleased ==
  /\ rawImage' = IF FreesImage THEN Null ELSE rawImage
  /\ ctx' = IF FreesCtx THEN Null ELSE ctx
  /\ live' = (live /\ ~FreesCtx)

Shutdown ==
  /\ initialized
  /\ initialized' = FALSE
  /\ Release
  /\ LeftReleased
  /\ UNCHANGED <<config, mtime, lastSetupMTime, touched, output, sendCounter, made>>

(* Drain: SendEOS is EncodeInternal of a null frame, which returns at once. *)
Drain ==
  /\ initialized
  /\ UNCHANGED vars
-----------------------------------------------------------------------------
(* Fault: the image is filled once. *)
CopiedOnce(image) ==
  IF image.pixels = Uninitialized THEN [image EXCEPT !.pixels = NextFrame] ELSE image

(* EncodeInternal copies the planes of an IYUV or NV12 frame into the image.
   The frame has the pixel format the encoder was told. *)
Copied(image) ==
  IF params.inputPixelFormat \in SupportedFormats
  THEN [image EXCEPT !.pixels = NextFrame]
  ELSE image

(* Fault: ForceIFrame is not passed on to libvpx. *)
ForceKeyIfOnlyKeys == params.keyFramesOnly

ForceKey == forceIFrame \/ params.keyFramesOnly

(* cw and ch are the size of the picture libvpx coded; image is the state of
   the image it coded, for the settings in force. *)
Packet(c, image, pts, key) ==
  [frame |-> NextFrame, w |-> width', h |-> height',
   serial |-> c.serial, cw |-> c.cfg.w, ch |-> c.cfg.h, pts |-> pts, key |-> key,
   pixels |-> image.pixels,
   params |-> [bitRate |-> c.cfg.params.bitRate,
               inputPixelFormat |-> image.format,
               keyFramesOnly |-> params.keyFramesOnly]]

(* vpx_codec_encode of an image of the size of the context: one packet, a key
   frame if it is the first, if it was asked for, or by libvpx's choice. *)
EncodeSucceeds(c, image, pts) ==
  /\ image.format # "invalid"
  /\ image.w = c.cfg.w /\ image.h = c.cfg.h
  /\ ctx' = [c EXCEPT !.coded = TRUE]
  /\ \E key \in BOOLEAN :
       /\ ~c.coded \/ ForceKey => key
       /\ ReportResult("Success", <<Packet(c, image, pts, key)>>)
  /\ UNCHANGED failed

(* An error, for that image or for any other reason. *)
EncodeFails(c) ==
  /\ ctx' = c
  /\ failed' = failed \cup {NextFrame}
  /\ ReportResult("Error", <<>>)

(* Fault: the counter stays. *)
EncodeInternalAtSameTime(c, image, counter) ==
  /\ rawImage' = Copied(image)
  /\ sendCounter' = counter
  /\ EncodeSucceeds(c, Copied(image), counter) \/ EncodeFails(c)

(* Fault: the counter runs down. *)
EncodeInternalCountsDown(c, image, counter) ==
  /\ rawImage' = Copied(image)
  /\ sendCounter' = counter - 1
  /\ EncodeSucceeds(c, Copied(image), counter) \/ EncodeFails(c)

EncodeInternal(c, image, counter) ==
  /\ rawImage' = Copied(image)
  /\ sendCounter' = counter + 1
  /\ EncodeSucceeds(c, Copied(image), counter) \/ EncodeFails(c)

Encode(w, h) ==
  /\ Submit(w, h)
  /\ \/ /\ UpToDate(w, h)
        /\ EncodeInternal(ctx, rawImage, sendCounter)
        /\ UNCHANGED <<params, setup, live, natives>>
     \/ /\ ~UpToDate(w, h)
        /\ Release
        /\ SetupSucceeds
        /\ \E format \in ImageFormats :
             EncodeInternal(NewCtx(w, h), NewImage(w, h, format), 0)
     \/ /\ ~UpToDate(w, h)
        /\ Release
        /\ LeftReleased
        /\ SetupFails
        /\ ReportNoContext
-----------------------------------------------------------------------------
Next ==
  \/ Setter /\ UNCHANGED <<internals, natives>>
  \/ Initialize
  \/ Shutdown
  \/ Drain
  \/ \E w, h \in Lengths : Encode(w, h)
  \/ CallBackReturns /\ UNCHANGED <<internals, natives>>

Spec == Init /\ [][Next]_vars
-----------------------------------------------------------------------------
(* vtkVpxEncoder is an encoder: its context is the libvpx one, and an
   application cannot tell it from the contract. *)

AbstractContext ==
  IF ctx = Null
  THEN Null
  ELSE [w |-> ctx.cfg.w, h |-> ctx.cfg.h, params |-> ctx.cfg.params,
        held |-> <<>>, started |-> ctx.coded, eos |-> FALSE]

AbstractPacket(p) ==
  [frame |-> p.frame, w |-> p.w, h |-> p.h, params |-> p.params, key |-> p.key]

Contract == INSTANCE EncoderContract WITH
  NoContext <- Null,
  stream <- [i \in DOMAIN stream |-> AbstractPacket(stream[i])],
  context <- AbstractContext,
  dropped <- {}

(* Every behaviour of vtkVpxEncoder is one that the contract allows. *)
ImplementsContract == Contract!Spec
-----------------------------------------------------------------------------
(* Properties of this encoder. *)

Cfgs == [w : Lengths, h : Lengths, params : Params]
Images ==
  [w : Lengths, h : Lengths, format : SupportedFormats \cup {"invalid"},
   pixels : Frames \cup {Uninitialized}]
Packets ==
  [frame : Frames, w : Lengths, h : Lengths, serial : Nat, cw : Lengths, ch : Lengths,
   pts : Nat, key : BOOLEAN, pixels : Frames \cup {Uninitialized},
   params : [bitRate : BitRates, inputPixelFormat : SupportedFormats,
             keyFramesOnly : BOOLEAN]]

(* The internals hold values of their types. *)
TypeOK ==
  /\ ctx \in [serial : 1..MaxContexts, cfg : Cfgs, coded : BOOLEAN] \cup {Null}
  /\ rawImage \in Images \cup {Null}
  /\ live \in BOOLEAN
  /\ sendCounter \in Nat
  /\ stream \in Seq(Packets)
  /\ made \in [ctx : Nat, image : Nat]
  /\ destroyed \in [ctx : Nat, image : Nat]

(* Every libvpx context and image made is destroyed, once, except those of an
   initialized encoder: also when a resize replaces them or a setup fails. *)
NothingLeaks ==
  /\ made.ctx - destroyed.ctx = (IF initialized THEN 1 ELSE 0)
  /\ made.image - destroyed.image = (IF initialized THEN 1 ELSE 0)

(* The packets of one context have rising timestamps and contexts do not mix;
   libvpx refuses a timestamp that does not rise. *)
TimestampsRise ==
  \A i, j \in DOMAIN stream : i < j =>
    /\ stream[i].serial <= stream[j].serial
    /\ stream[i].serial = stream[j].serial => stream[i].pts < stream[j].pts

(* A packet shows the frame it is the packet of, at the size it claims, though
   the image is shared by all frames of a context. *)
PacketsShowTheirFrame ==
  \A i \in DOMAIN stream :
    LET p == stream[i]
    IN p.pixels = p.frame /\ p.w = p.cw /\ p.h = p.ch

(* An encoder told an unsupported pixel format is not initialized with it. *)
UnsupportedFormatIsRefused ==
  ctx # Null => ctx.cfg.params.inputPixelFormat \in SupportedFormats
=============================================================================

------------------------ MODULE StreamPipelineProofs ------------------------
(***************************************************************************)
(* Proofs about StreamPipeline: what is proved of the encoder and of the   *)
(* decoder alone holds of them here, and makes the round trip correct.     *)
(***************************************************************************)
EXTENDS StreamPipeline, EncoderContractProofs

(* The decoder, with what is proved of it. *)
DP == INSTANCE VpxDecoderProofs WITH
  MaxPackets <- MaxFrames, MaxDecodes <- 1, Null <- NoContext, Drains <- FALSE,
  width <- dWidth, height <- dHeight, initialized <- dInitialized,
  handlerSet <- dHandlerSet, calls <- dCalls, reports <- dReports,
  reentered <- dReentered

LEMMA DecoderAssumptions ==
  /\ DP!VpxDecoderAssumption
  /\ DP!DecoderLengthsAssumption
  /\ DP!DecoderBoundsAssumption
BY PipelineAssumption, BoundsAssumption
   DEF DP!VpxDecoderAssumption, DP!DecoderLengthsAssumption, DP!DecoderBoundsAssumption

(* It is the decoder of the pipeline. *)
LEMMA SameInit == D!Init <=> DP!Init
BY DEF D!Init, D!BaseInit, DP!Init, DP!BaseInit

LEMMA SameInternal ==
  ASSUME NEW n, NEW p, NEW c, NEW waiting
  PROVE  D!DecodeInternal(n, p, c, waiting) <=> DP!DecodeInternal(n, p, c, waiting)
BY DEF D!DecodeInternal, D!Decodable, D!LibvpxFails, D!ReportResult, D!CallBack,
       DP!DecodeInternal, DP!Decodable, DP!LibvpxFails, DP!ReportResult, DP!CallBack

LEMMA SameDecode ==
  ASSUME NEW p
  PROVE  D!Decode(p) <=> DP!Decode(p)
<1>1. /\ D!NewCtx(p.w, p.h) = DP!NewCtx(p.w, p.h)
      /\ D!UpToDate(p) <=> DP!UpToDate(p)
      /\ D!TakeSize(p) <=> DP!TakeSize(p)
      /\ D!Receive(p) <=> DP!Receive(p)
      /\ D!LibvpxFails <=> DP!LibvpxFails
      /\ D!size = DP!size
  BY DEF D!NewCtx, D!UpToDate, D!TakeSize, D!Receive, D!LibvpxFails, D!size,
         DP!NewCtx, DP!UpToDate, DP!TakeSize, DP!Receive, DP!LibvpxFails, DP!size
<1>2. \A n : D!ReportNoContext(n) <=> DP!ReportNoContext(n)
  BY DEF D!ReportNoContext, D!CallBack, DP!ReportNoContext, DP!CallBack
<1> QED
  BY <1>1, <1>2, SameInternal DEF D!Decode, DP!Decode, D!size, DP!size

LEMMA SameGoesOn == D!DecodeGoesOn <=> DP!DecodeGoesOn
BY SameInternal DEF D!DecodeGoesOn, DP!DecodeGoesOn, D!size, DP!size

LEMMA SameReturns == D!DecodeReturns <=> DP!DecodeReturns
BY DEF D!DecodeReturns, DP!DecodeReturns, D!size, DP!size
-----------------------------------------------------------------------------
(* What the decoder reads of a packet. *)
Stamped(p) == [w |-> p.w, h |-> p.h, key |-> p.key]

LEMMA StreamElements ==
  ASSUME TypeOK
  PROVE  /\ Len(stream) \in Nat
         /\ DOMAIN stream = 1..Len(stream)
         /\ \A i \in DOMAIN stream : stream[i] \in Packets /\ Stamped(stream[i]) \in DP!PacketInputs
<1>1. stream \in Seq(Packets)
  BY DEF TypeOK
<1>2. \A i \in DOMAIN stream : stream[i] \in Packets
  BY <1>1, ElementsOfSeq
<1>3. \A i \in DOMAIN stream : Stamped(stream[i]) \in DP!PacketInputs
  BY <1>2 DEF Packets, Stamped, DP!PacketInputs
<1> QED
  BY <1>1, <1>2, <1>3, LenProperties

LEMMA ForwardDecodes ==
  ASSUME Forward
  PROVE  /\ Arriving \in DOMAIN stream
         /\ DP!Decode(Stamped(stream[Arriving]))
         /\ UNCHANGED encoder
BY SameDecode DEF Forward, Stamped

(* Every step is one of the encoder, and one of the decoder. *)
LEMMA EncoderSteps ==
  ASSUME [PipelineNext]_pipeline
  PROVE  [Next]_vars
<1>1. CASE EncoderStep
  BY <1>1 DEF EncoderStep, Next, Setter
<1>2. CASE Forward \/ DecoderStep \/ UNCHANGED pipeline
  BY <1>2 DEF Forward, DecoderStep, encoder, pipeline
<1> QED
  BY <1>1, <1>2 DEF PipelineNext

LEMMA DecoderSteps ==
  ASSUME TypeOK, ~crashed, [PipelineNext]_pipeline
  PROVE  [DP!Next]_(DP!vars) /\ ~crashed'
<1>1. CASE EncoderStep \/ UNCHANGED pipeline
  BY <1>1 DEF EncoderStep, pipeline, decoder, DP!vars, DP!baseVars, DP!size, DP!output
<1>2. CASE Forward
  <2> DEFINE p == Stamped(stream[Arriving])
  <2>1. DP!Decode(p) /\ p \in DP!PacketInputs
    BY <1>2, ForwardDecodes, StreamElements
  <2>2. ~crashed'
    BY <2>1 DEF DP!Decode
  <2> HIDE DEF p
  <2> QED
    BY <2>1, <2>2 DEF DP!Next
<1>3. CASE D!DecodeGoesOn
  BY <1>3, SameGoesOn DEF DP!Next, DP!DecodeGoesOn
<1>4. CASE D!DecodeReturns /\ UNCHANGED <<ctx, crashed, faults>>
  BY <1>4, SameReturns DEF DP!Next
<1> QED
  BY <1>1, <1>2, <1>3, <1>4 DEF PipelineNext, DecoderStep

LEMMA PipelineEncodes == PipelineSpec => Spec
<1>1. PipelineInit => Init
  BY DEF PipelineInit
<1>2. [PipelineNext]_pipeline => [Next]_vars
  BY EncoderSteps
<1> QED
  BY <1>1, <1>2, PTL DEF PipelineSpec, Spec

(* Nobody drains the decoder here. *)
LEMMA PipelineDecodes == PipelineSpec => DP!Spec /\ []~crashed
<1>1. PipelineInit => DP!Init /\ ~crashed
  BY SameInit DEF PipelineInit, DP!Init
<1>2. TypeOK /\ ~crashed /\ [PipelineNext]_pipeline
        => [DP!Next]_(DP!vars) /\ ~crashed'
  BY DecoderSteps
<1>3. PipelineSpec => []TypeOK
  BY PipelineEncodes, TypeCorrect, PTL
<1> QED
  BY <1>1, <1>2, <1>3, PTL DEF PipelineSpec, DP!Spec

(* Hence all that is proved of each holds. *)
Parts == ConfigInv /\ OrderInv /\ NewConfigurationStartsWithKey /\ DP!TypeOK /\ DP!OrderInv

LEMMA PartsHold == PipelineSpec => []Parts
<1>1. Spec => [](ConfigInv /\ OrderInv /\ NewConfigurationStartsWithKey)
  BY ConfigInvariant, OrderInvariant, AlwaysKeyFirst, PTL
<1>2. DP!Spec => []DP!TypeOK
  BY DecoderAssumptions, DP!TypesKept
<1>3. DP!Spec => []DP!OrderInv
  BY DecoderAssumptions, DP!OrderInvariant
<1>4. ConfigInv /\ OrderInv /\ NewConfigurationStartsWithKey /\ DP!TypeOK /\ DP!OrderInv
        => Parts
  BY DEF Parts
<1> QED
  BY <1>1, <1>2, <1>3, <1>4, PipelineEncodes, PipelineDecodes, PTL
-----------------------------------------------------------------------------
(* A frame is shown at the size read in its packet. *)
ShownAsReceived ==
  \A i \in DOMAIN shown :
    /\ shown[i].packet \in 1..Len(received)
    /\ shown[i].w = received[shown[i].packet].w
    /\ shown[i].h = received[shown[i].packet].h

(* The decoder was given the first packets of the stream, and shows frames at
   the size that it read in them. *)
LinkInv ==
  /\ ~dReentered
  /\ Len(received) <= Len(stream)
  /\ \A i \in 1..Len(received) : received[i] = Stamped(stream[i])
  /\ ShownAsReceived

(* While libvpx has not failed, the decoder has decoded all of it, and its
   context can go on from the last packet. *)
DecodesInv ==
  ~reentered /\ faults = 0 =>
    /\ ~DP!Pending
    /\ \A i \in DOMAIN dReports : dReports[i].status = "Success"
    /\ Len(shown) = Len(received)
    /\ \A i \in DOMAIN shown : shown[i].packet = i
    /\ received # <<>> =>
         /\ DP!Keyed
         /\ dInitialized
         /\ dWidth = received[Len(received)].w
         /\ dHeight = received[Len(received)].h

(* The stream only grows. *)
LEMMA StreamAppended ==
  ASSUME ConfigInv, [Next]_vars
  PROVE  /\ stream' = stream \/ \E more \in Seq(Packets') : stream' = stream \o more
         /\ reentered => reentered'
<1>1. ASSUME NEW w \in Lengths, NEW h \in Lengths, Encode(w, h)
      PROVE  /\ stream' = stream \/ \E more \in Seq(Packets') : stream' = stream \o more
             /\ reentered => reentered'
  <2>1. PICK packets \in Seq(Packets') : Hands(packets)
    BY <1>1, EncodeEffect
  <2>2. packets # <<>> => <<Head(packets)>> \in Seq(Packets')
    BY HeadTailProperties
  <2>3. reentered => reentered'
    BY <1>1 DEF Encode, Submit
  <2> QED
    BY <2>1, <2>2, <2>3 DEF Hands
<1>2. CASE CallBackReturns /\ UNCHANGED <<context, dropped>>
  <2>1. TypeOK'
    BY NextTypes DEF ConfigInv
  <2>2. stream \in Seq(Packets) /\ stream' \in Seq(Packets') /\ Packets' = Packets
    BY <1>2, <2>1 DEF ConfigInv, TypeOK, CallBackReturns, Packets, Frames
  <2>3. CASE stream' = Append(stream, Head(Head(calls).rest)) /\ Head(calls).rest # <<>>
    <3> DEFINE C == [frame : Frames, rest : Seq(Packets)]
    <3>1. calls \in Seq(C) /\ calls # <<>>
      BY <1>2 DEF ConfigInv, TypeOK, CallBackReturns
    <3>2. Head(calls) \in C
      BY <3>1, HeadTailProperties
    <3>3. Head(Head(calls).rest) \in Packets
      BY <2>3, <3>2, HeadTailProperties
    <3>4. <<Head(Head(calls).rest)>> \in Seq(Packets')
      BY <2>2, <3>3
    <3>5. stream' = stream \o <<Head(Head(calls).rest)>>
      BY <2>2, <2>3, <3>3, AppendIsConcat
    <3> QED
      BY <1>2, <3>4, <3>5 DEF CallBackReturns
  <2> QED
    BY <1>2, <2>3 DEF CallBackReturns
<1>3. CASE Setter \/ Initialize \/ Drain \/ Shutdown
  BY <1>3 DEF Setter, SetWidth, SetHeight, SetParams, SetForceIFrame, SetOutputHandler,
              Initialize, Drain, Shutdown, baseVars, output
<1>4. CASE UNCHANGED vars
  BY <1>4 DEF vars, baseVars, output
<1> QED
  BY <1>1, <1>2, <1>3, <1>4 DEF Next

LEMMA StreamGrows ==
  ASSUME ConfigInv, [Next]_vars
  PROVE  /\ Len(stream') >= Len(stream)
         /\ \A i \in 1..Len(stream) : stream'[i] = stream[i]
         /\ reentered => reentered'
<1>1. CASE stream' = stream
  BY <1>1, StreamElements, StreamAppended DEF ConfigInv
<1>2. ASSUME NEW more \in Seq(Packets'), stream' = stream \o more
      PROVE  Len(stream') >= Len(stream) /\ \A i \in 1..Len(stream) : stream'[i] = stream[i]
  <2>1. Len(more) \in Nat /\ Len(stream) \in Nat
    BY LenProperties, StreamElements DEF ConfigInv
  <2>2. /\ Len(stream') = Len(stream) + Len(more)
        /\ \A i \in 1..(Len(stream) + Len(more)) :
             stream'[i] = IF i <= Len(stream) THEN stream[i] ELSE more[i - Len(stream)]
    BY <1>2, ConcatProperties DEF ConfigInv, TypeOK
  <2> QED
    BY <2>1, <2>2
<1> QED
  BY <1>1, <1>2, StreamAppended

(* What the decoder has received, before and after. *)
LEMMA ReceivedElements ==
  ASSUME DP!TypeOK
  PROVE  /\ received \in Seq(DP!PacketInputs)
         /\ shown \in Seq(DP!FramesOf(DP!PacketNumbers))
         /\ Len(received) \in Nat /\ DOMAIN received = 1..Len(received)
         /\ Len(shown) \in Nat /\ DOMAIN shown = 1..Len(shown)
         /\ dReports \in Seq(DP!ReportsOf(DP!PacketNumbers))
         /\ Len(dReports) \in Nat /\ DOMAIN dReports = 1..Len(dReports)
         /\ faults \in Nat
<1>1. /\ received \in Seq(DP!PacketInputs)
      /\ shown \in Seq(DP!FramesOf(DP!PacketNumbers))
      /\ dReports \in Seq(DP!ReportsOf(DP!PacketNumbers))
      /\ faults \in 0..MaxFaults
  BY DEF DP!TypeOK, DP!FramesOf, DP!ReportsOf
<1> QED
  BY <1>1, LenProperties

LEMMA ShownNext ==
  ASSUME DP!TypeOK, ShownAsReceived,
         Len(received') >= Len(received), Len(received') \in Nat,
         \A i \in 1..Len(received) : received'[i] = received[i],
         NEW n \in 1..Len(received'), NEW c,
         received'[n] \in DP!PacketInputs,
         DP!Fails(c) \/ DP!Shows(n, received'[n], c)
  PROVE  ShownAsReceived'
<1> DEFINE f == [packet |-> n, w |-> received'[n].w, h |-> received'[n].h]
<1>1. /\ shown \in Seq(DP!FramesOf(DP!PacketNumbers))
      /\ Len(received) \in Nat /\ Len(shown) \in Nat /\ DOMAIN shown = 1..Len(shown)
  BY ReceivedElements
<1>2. \A i \in DOMAIN shown :
        /\ shown[i].packet \in 1..Len(received')
        /\ shown[i].w = received'[shown[i].packet].w
        /\ shown[i].h = received'[shown[i].packet].h
  BY <1>1 DEF ShownAsReceived
<1>3. CASE DP!Fails(c)
  BY <1>2, <1>3 DEF DP!Fails, ShownAsReceived
<1>4. CASE DP!Shows(n, received'[n], c)
  <2>1. shown' = Append(shown, f)
    BY <1>4 DEF DP!Shows
  <2>2. f.packet = n /\ f.w = received'[n].w /\ f.h = received'[n].h
    OBVIOUS
  <2> HIDE DEF f
  <2>3. /\ DOMAIN shown' = 1..(Len(shown) + 1)
        /\ shown'[Len(shown) + 1] = f
        /\ \A i \in 1..Len(shown) : shown'[i] = shown[i]
    <3> DEFINE S == DP!FramesOf(DP!PacketNumbers) \cup {f}
    <3>1. shown \in Seq(S) /\ f \in S
      BY <1>1, SeqMonotonic
    <3> QED
      BY <2>1, <3>1, AppendProperties, LenProperties
  <2>4. ASSUME NEW i \in DOMAIN shown'
        PROVE  /\ shown'[i].packet \in 1..Len(received')
               /\ shown'[i].w = received'[shown'[i].packet].w
               /\ shown'[i].h = received'[shown'[i].packet].h
    <3>1. CASE i = Len(shown) + 1
      BY <2>2, <2>3, <3>1
    <3>2. CASE i # Len(shown) + 1
      <4>1. i \in DOMAIN shown
        BY <1>1, <2>3, <2>4, <3>2
      <4> QED
        BY <1>1, <1>2, <2>3, <4>1
    <3> QED
      BY <3>1, <3>2
  <2> QED
    BY <2>4 DEF ShownAsReceived
<1> QED
  BY <1>3, <1>4

(* The next packet of the stream is received as it is. *)
LEMMA ReceivesStream ==
  ASSUME TypeOK, DP!TypeOK, LinkInv, Forward
  PROVE  /\ Arriving = Len(received) + 1
         /\ Arriving \in 1..Len(stream)
         /\ Stamped(stream[Arriving]) \in DP!PacketInputs
         /\ received' = Append(received, Stamped(stream[Arriving]))
         /\ Len(received') = Arriving
         /\ \A i \in 1..Len(received) : received'[i] = received[i]
         /\ received'[Arriving] = Stamped(stream[Arriving])
         /\ dCalls = <<>> /\ dReentered' = dReentered
         /\ UNCHANGED <<stream, reentered, submitted>>
<1> DEFINE p == Stamped(stream[Arriving])
<1>1. /\ Arriving \in 1..Len(stream) /\ DP!Decode(p) /\ UNCHANGED encoder
      /\ p \in DP!PacketInputs
  BY ForwardDecodes, StreamElements
<1>2. /\ received' = Append(received, p)
      /\ Len(dCalls) < 1
      /\ dReentered' = (dReentered \/ dCalls # <<>>)
  BY <1>1 DEF DP!Decode, DP!Receive
<1>3. dCalls = <<>>
  <2> DEFINE C == DP!CallsOf(DP!PacketNumbers)
  <2>1. dCalls \in Seq(C)
    BY DEF DP!TypeOK, DP!CallsOf
  <2> HIDE DEF C
  <2> QED
    BY <1>2, <2>1, LenProperties, EmptySeq
<1>4. received \in Seq(DP!PacketInputs) /\ Len(received) \in Nat
  BY ReceivedElements
<1>5. /\ Len(received') = Len(received) + 1
      /\ received'[Len(received) + 1] = p
      /\ \A i \in 1..Len(received) : received'[i] = received[i]
  BY <1>1, <1>2, <1>4, AppendProperties
<1>6. UNCHANGED <<stream, reentered, submitted>>
  BY <1>1 DEF encoder, vars, baseVars, output
<1>7. Arriving = Len(received) + 1
  BY DEF Arriving
<1>8. dReentered' = dReentered
  BY <1>2, <1>3 DEF DP!TypeOK
<1> QED
  BY <1>1, <1>2, <1>3, <1>5, <1>6, <1>7, <1>8

LEMMA LinkNext ==
  ASSUME ConfigInv, DP!TypeOK, LinkInv, [PipelineNext]_pipeline
  PROVE  LinkInv'
<1>1. /\ Len(stream) \in Nat /\ Len(received) \in Nat
      /\ received \in Seq(DP!PacketInputs) /\ DOMAIN received = 1..Len(received)
  BY ReceivedElements, StreamElements DEF ConfigInv
<1>2. CASE EncoderStep \/ UNCHANGED pipeline
  <2>1. UNCHANGED <<received, shown, dReentered>>
    BY <1>2 DEF pipeline, EncoderStep, decoder
  <2>2. Len(stream') >= Len(stream) /\ \A i \in 1..Len(stream) : stream'[i] = stream[i]
    BY EncoderSteps, StreamGrows
  <2>3. Len(stream') \in Nat
    BY EncoderSteps, NextConfig, StreamElements DEF ConfigInv
  <2>4. \A i \in 1..Len(received) : i \in 1..Len(stream)
    BY <1>1 DEF LinkInv
  <2>5. ShownAsReceived'
    BY <2>1 DEF LinkInv, ShownAsReceived
  <2> QED
    BY <1>1, <2>1, <2>2, <2>3, <2>4, <2>5 DEF LinkInv
<1>3. CASE Forward
  <2> DEFINE p == Stamped(stream[Arriving])
  <2>1. /\ Arriving = Len(received) + 1
        /\ Arriving \in 1..Len(stream)
        /\ p \in DP!PacketInputs
        /\ Len(received') = Arriving
        /\ \A i \in 1..Len(received) : received'[i] = received[i]
        /\ received'[Arriving] = p
        /\ dReentered' = dReentered /\ stream' = stream
    BY <1>3, ReceivesStream DEF ConfigInv
  <2>2. DP!KeepsContext(p) \/ DP!ReplacesContext(p) \/ DP!LosesContext(p)
    BY <1>3, <2>1, ForwardDecodes, DecoderAssumptions, DP!DecodeEffect
  <2>3. \/ \E c : DP!Fails(c) \/ DP!Shows(Arriving, p, c)
        \/ shown' = shown
    BY <2>1, <2>2 DEF DP!KeepsContext, DP!ReplacesContext, DP!LosesContext
  <2>4. ShownAsReceived'
    <3>1. CASE shown' = shown
      BY <1>1, <2>1, <3>1 DEF LinkInv, ShownAsReceived
    <3>2. ASSUME NEW c, DP!Fails(c) \/ DP!Shows(Arriving, p, c)
          PROVE  ShownAsReceived'
      <4>1. PICK n : n = Arriving
        OBVIOUS
      <4>2. n \in 1..Len(received') /\ received'[n] = p
        BY <1>1, <2>1, <4>1
      <4> HIDE DEF p
      <4> QED
        BY <1>1, <2>1, <3>2, <4>1, <4>2, ShownNext DEF LinkInv
    <3> QED
      BY <2>3, <3>1, <3>2
  <2>5. \A i \in 1..Len(received') : received'[i] = Stamped(stream'[i])
    <3> TAKE i \in 1..Len(received')
    <3>1. CASE i = Arriving
      BY <2>1, <3>1
    <3>2. CASE i # Arriving
      <4>1. i \in 1..Len(received)
        BY <1>1, <2>1, <3>2
      <4> QED
        BY <2>1, <4>1 DEF LinkInv
    <3> QED
      BY <3>1, <3>2
  <2>6. Len(received') <= Len(stream')
    BY <1>1, <2>1
  <2> QED
    BY <2>1, <2>4, <2>5, <2>6 DEF LinkInv
<1>4. ASSUME UNCHANGED <<encoder, received, dReentered>>, ShownAsReceived'
      PROVE  LinkInv'
  <2>1. stream' = stream
    BY <1>4 DEF encoder, vars, baseVars, output
  <2> QED
    BY <1>4, <2>1 DEF LinkInv
<1>5. CASE D!DecodeGoesOn /\ UNCHANGED encoder
  <2> DEFINE n == Head(dCalls).packet
  <2>1. /\ n \in DP!PacketNumbers
        /\ received[n] \in DP!PacketInputs
        /\ DP!Fails(ctx) \/ DP!Shows(n, received[n], ctx)
        /\ UNCHANGED <<received, dReentered>>
    BY <1>5, SameGoesOn, DecoderAssumptions, DP!GoesOnEffect
  <2>2. PICK m : m = n
    OBVIOUS
  <2>3. m \in 1..Len(received')
    BY <2>1, <2>2 DEF DP!PacketNumbers
  <2> HIDE DEF n
  <2>4. ShownAsReceived'
    BY <1>1, <2>1, <2>2, <2>3, ShownNext DEF LinkInv
  <2> QED
    BY <1>4, <1>5, <2>1, <2>4
<1>6. CASE D!DecodeReturns /\ UNCHANGED encoder
  <2>1. UNCHANGED <<received, dReentered, shown>>
    BY <1>6 DEF D!DecodeReturns
  <2> QED
    BY <1>4, <1>6, <2>1 DEF LinkInv, ShownAsReceived
<1> QED
  BY <1>2, <1>3, <1>5, <1>6 DEF PipelineNext, DecoderStep

LEMMA NotNoContext ==
  ASSUME NEW w \in Lengths, NEW h \in Lengths, NEW c \in DP!ContextOf(w, h)
  PROVE  c # NoContext
BY PipelineAssumption DEF DP!ContextOf

LEMMA AppendedAll ==
  ASSUME NEW s, NEW S, s \in Seq(S), NEW x, NEW P, \A i \in DOMAIN s : s[i].status = P, x.status = P
  PROVE  \A i \in DOMAIN Append(s, x) : Append(s, x)[i].status = P
<1> DEFINE T == S \cup {x}
<1>1. s \in Seq(T) /\ x \in T
  BY SeqMonotonic
<1> HIDE DEF T
<1>2. /\ Len(s) \in Nat /\ DOMAIN s = 1..Len(s)
      /\ DOMAIN Append(s, x) = 1..(Len(s) + 1)
      /\ Append(s, x)[Len(s) + 1] = x
      /\ \A i \in 1..Len(s) : Append(s, x)[i] = s[i]
  BY <1>1, AppendProperties, LenProperties
<1> QED
  BY <1>2

(* The next packet finds the context of the last one, or is a key frame. *)
LEMMA ArrivingDecodable ==
  ASSUME TypeOK, DP!TypeOK, LinkInv, DecodesInv, ~reentered, faults = 0,
         NewConfigurationStartsWithKey,
         NEW p \in DP!PacketInputs, Arriving \in 1..Len(stream), p = Stamped(stream[Arriving])
  PROVE  p.key \/ (DP!Keyed /\ DP!UpToDate(p))
<1> SUFFICES ASSUME ~p.key
             PROVE  DP!Keyed /\ DP!UpToDate(p)
  OBVIOUS
<1>1. /\ Arriving \in DOMAIN stream /\ Len(received) \in Nat
      /\ Arriving = Len(received) + 1
  BY StreamElements, ReceivedElements DEF Arriving
<1>2. /\ p.w = stream[Arriving].w /\ p.h = stream[Arriving].h
      /\ p.key = stream[Arriving].key
  BY DEF Stamped
<1>3. /\ Arriving # 1
      /\ stream[Arriving].w = stream[Arriving - 1].w
      /\ stream[Arriving].h = stream[Arriving - 1].h
  BY <1>1, <1>2 DEF NewConfigurationStartsWithKey
<1>4. Len(received) \in 1..Len(received) /\ Arriving - 1 = Len(received) /\ received # <<>>
  BY <1>1, <1>3
<1>5. received[Len(received)] = Stamped(stream[Len(received)])
  BY <1>4 DEF LinkInv
<1>6. /\ received[Len(received)].w = stream[Len(received)].w
      /\ received[Len(received)].h = stream[Len(received)].h
  BY <1>5 DEF Stamped
<1> QED
  BY <1>2, <1>3, <1>4, <1>6 DEF DecodesInv, DP!UpToDate

(* A packet that a context can decode is decoded, unless libvpx fails. *)
LEMMA DecodesDecodable ==
  ASSUME NEW n, NEW p, NEW c, NEW waiting, DP!DecodeInternal(n, p, c, waiting),
         DP!Decodable(p, c), faults = 0, faults' = 0
  PROVE  /\ ctx' = [c EXCEPT !.keyed = TRUE]
         /\ dReports' = Append(dReports, [packet |-> n, status |-> "Success",
                                         handler |-> dHandlerSet, frames |-> 1])
         /\ shown' = shown \o <<[packet |-> n, w |-> p.w, h |-> p.h]>>
         /\ dCalls' = <<[packet |-> n, stage |-> "return"]>> \o waiting
<1> DEFINE f == [packet |-> n, w |-> p.w, h |-> p.h]
<1>1. ~DP!LibvpxFails
  BY DEF DP!LibvpxFails
<1>2. <<f>> # <<>> /\ Len(<<f>>) = 1
  OBVIOUS
<1>3. ctx' = [c EXCEPT !.keyed = TRUE] /\ DP!ReportResult(n, "Success", <<f>>, waiting)
  BY <1>1 DEF DP!DecodeInternal
<1>4. DP!CallBack(n, "Success", <<f>>, "return", waiting)
  BY <1>2, <1>3 DEF DP!ReportResult
<1> QED
  BY <1>2, <1>3, <1>4 DEF DP!CallBack

(* While libvpx has not failed, each packet is decoded when it arrives. *)
LEMMA ForwardDecodesAll ==
  ASSUME ConfigInv, DP!TypeOK, LinkInv, DecodesInv, NewConfigurationStartsWithKey,
         Forward, ~reentered, faults = 0, faults' = 0
  PROVE  DecodesInv'
<1> DEFINE p == Stamped(stream[Arriving])
<1>1. /\ Arriving = Len(received) + 1
      /\ Arriving \in 1..Len(stream)
      /\ p \in DP!PacketInputs
      /\ received' = Append(received, p)
      /\ Len(received') = Arriving
      /\ received'[Arriving] = p
      /\ dCalls = <<>>
  BY ReceivesStream DEF ConfigInv
<1>2. PICK n : n = Arriving
  OBVIOUS
<1>3. n = Len(received) + 1 /\ n \in Nat /\ Len(received') = n /\ received'[n] = p
  BY <1>1, <1>2
<1>4. p.key \/ (DP!Keyed /\ DP!UpToDate(p))
  BY <1>1, ArrivingDecodable DEF ConfigInv
<1>5. DP!Decode(p) /\ p.w \in Lengths /\ p.h \in Lengths
  BY <1>1, ForwardDecodes DEF DP!PacketInputs
<1> HIDE DEF p
<1>6. PICK c : /\ DP!DecodeInternal(n, p, c, <<>>)
               /\ DP!Decodable(p, c)
               /\ c \in DP!ContextOf(p.w, p.h)
               /\ dWidth' = p.w /\ dHeight' = p.h /\ dInitialized' = TRUE
  <2>1. CASE DP!UpToDate(p)
    <3>1. /\ DP!DecodeInternal(n, p, ctx, <<>>)
          /\ dWidth = p.w /\ dHeight = p.h /\ dInitialized
          /\ UNCHANGED <<dWidth, dHeight, dInitialized>>
      BY <1>1, <1>3, <1>5, <2>1 DEF DP!Decode, DP!UpToDate, DP!size
    <3>2. ctx \in DP!ContextOf(dWidth, dHeight)
      BY <3>1, DecoderAssumptions, DP!ContextType
    <3>3. ctx # NoContext
      BY <1>5, <3>1, <3>2, NotNoContext
    <3> QED
      BY <1>4, <3>1, <3>2, <3>3 DEF DP!Decodable, DP!Keyed, DP!TypeOK
  <2>2. CASE ~DP!UpToDate(p)
    <3> DEFINE C == DP!NewCtx(p.w, p.h)
    <3>1. C \in DP!ContextOf(p.w, p.h)
      BY DEF DP!NewCtx, DP!ContextOf
    <3>2. C # NoContext
      BY <1>5, <3>1, NotNoContext
    <3>3. DP!DecodeInternal(n, p, C, <<>>) /\ DP!TakeSize(p) /\ dInitialized' = TRUE
      BY <1>1, <1>3, <1>5, <2>2 DEF DP!Decode, DP!LibvpxFails
    <3> HIDE DEF C
    <3> QED
      BY <1>4, <2>2, <3>1, <3>2, <3>3 DEF DP!Decodable, DP!TakeSize
  <2> QED
    BY <2>1, <2>2
<1>7. /\ ctx' = [c EXCEPT !.keyed = TRUE]
      /\ dReports' = Append(dReports, [packet |-> n, status |-> "Success",
                                      handler |-> dHandlerSet, frames |-> 1])
      /\ shown' = shown \o <<[packet |-> n, w |-> p.w, h |-> p.h]>>
      /\ dCalls' = <<[packet |-> n, stage |-> "return"]>> \o <<>>
  BY <1>6, DecodesDecodable
<1>8. ~DP!Pending'
  <2>1. Head(dCalls') = [packet |-> n, stage |-> "return"]
    BY <1>7, DecoderAssumptions, DP!OneCall
  <2>2. Head(dCalls').stage = "return"
    BY <2>1
  <2> QED
    BY <2>2 DEF DP!Pending
<1>9. DP!Keyed'
  <2>1. ctx' = [w |-> p.w, h |-> p.h, keyed |-> TRUE]
    BY <1>6, <1>7 DEF DP!ContextOf
  <2>2. ctx' \in DP!ContextOf(p.w, p.h) /\ ctx'.keyed
    BY <2>1 DEF DP!ContextOf
  <2>3. ctx' # NoContext
    BY <1>5, <2>2, NotNoContext
  <2> QED
    BY <2>2, <2>3 DEF DP!Keyed
<1>10. \A i \in DOMAIN dReports' : dReports'[i].status = "Success"
  <2> DEFINE r == [packet |-> n, status |-> "Success", handler |-> dHandlerSet, frames |-> 1]
  <2>1. r.status = "Success"
    OBVIOUS
  <2> HIDE DEF r
  <2>2. \A i \in DOMAIN dReports : dReports[i].status = "Success"
    BY DEF DecodesInv
  <2>3. dReports' = Append(dReports, r)
    BY <1>7 DEF r
  <2> QED
    BY <2>1, <2>2, <2>3, ReceivedElements, AppendedAll
<1>11. Len(shown') = Len(received') /\ \A i \in DOMAIN shown' : shown'[i].packet = i
  <2> DEFINE f == [packet |-> n, w |-> p.w, h |-> p.h]
             S == DP!FramesOf(DP!PacketNumbers) \cup {f}
  <2>1. f.packet = n /\ shown \in Seq(S) /\ f \in S
    BY ReceivedElements, SeqMonotonic
  <2>2. /\ Len(shown) \in Nat /\ DOMAIN shown = 1..Len(shown)
        /\ Len(shown) = Len(received)
        /\ \A i \in DOMAIN shown : shown[i].packet = i
    BY ReceivedElements DEF DecodesInv
  <2> HIDE DEF f, S
  <2>3. shown' = Append(shown, f)
    BY <1>7, <2>1, AppendIsConcat DEF f
  <2>4. /\ Len(shown') = Len(shown) + 1 /\ DOMAIN shown' = 1..(Len(shown) + 1)
        /\ shown'[Len(shown) + 1] = f
        /\ \A i \in 1..Len(shown) : shown'[i] = shown[i]
    BY <2>1, <2>3, AppendProperties, LenProperties
  <2> QED
    BY <1>3, <2>1, <2>2, <2>4
<1> QED
  BY <1>3, <1>6, <1>8, <1>9, <1>10, <1>11 DEF DecodesInv

LEMMA FaultsCounted ==
  ASSUME DP!TypeOK, [PipelineNext]_pipeline, faults' = 0
  PROVE  faults = 0
<1>1. faults \in Nat
  BY ReceivedElements
<1>2. CASE EncoderStep \/ UNCHANGED pipeline
  BY <1>2 DEF pipeline, EncoderStep, decoder
<1>3. ASSUME NEW n, NEW p, NEW c, NEW waiting, DP!DecodeInternal(n, p, c, waiting)
      PROVE  faults = 0
  BY <1>1, <1>3 DEF DP!DecodeInternal, DP!LibvpxFails
<1>4. CASE Forward
  <2>1. DP!Decode(Stamped(stream[Arriving]))
    BY <1>4, ForwardDecodes
  <2> QED
    BY <1>1, <1>3, <2>1 DEF DP!Decode, DP!LibvpxFails
<1>5. CASE D!DecodeGoesOn
  BY <1>3, <1>5, SameGoesOn DEF DP!DecodeGoesOn
<1> QED
  BY <1>2, <1>4, <1>5 DEF PipelineNext, DecoderStep

LEMMA DecodesNext ==
  ASSUME Parts, LinkInv, DecodesInv, [PipelineNext]_pipeline
  PROVE  DecodesInv'
<1> SUFFICES ASSUME ~reentered', faults' = 0
             PROVE  DecodesInv'
  BY DEF DecodesInv
<1>1. ConfigInv /\ NewConfigurationStartsWithKey /\ DP!TypeOK
  BY DEF Parts
<1>2. ~reentered /\ faults = 0
  BY <1>1, FaultsCounted, EncoderSteps, StreamGrows
<1>3. CASE EncoderStep \/ UNCHANGED pipeline
  <2>1. UNCHANGED decoder
    BY <1>3 DEF pipeline, EncoderStep
  <2> QED
    BY <1>2, <2>1 DEF decoder, DecodesInv, DP!Pending, DP!Keyed
<1>4. CASE Forward
  BY <1>1, <1>2, <1>4, ForwardDecodesAll
<1>5. CASE D!DecodeGoesOn
  BY <1>2, <1>5, SameGoesOn DEF DP!DecodeGoesOn, DP!Pending, DecodesInv
<1>6. CASE D!DecodeReturns /\ UNCHANGED <<ctx, crashed, faults>>
  <2>1. /\ UNCHANGED <<dWidth, dHeight, dInitialized, received, dReports, shown, dReentered>>
        /\ dCalls # <<>> /\ dCalls' = Tail(dCalls)
        /\ UNCHANGED <<ctx, faults>>
    BY <1>6 DEF D!DecodeReturns, D!size
  <2>2. dCalls' = <<>>
    BY <1>1, <2>1 DEF Parts, LinkInv, DP!OrderInv
  <2> QED
    BY <1>2, <2>1, <2>2 DEF DecodesInv, DP!Pending, DP!Keyed
<1> QED
  BY <1>3, <1>4, <1>5, <1>6 DEF PipelineNext, DecoderStep

LEMMA RoundTripInvariant == PipelineSpec => [](Parts /\ LinkInv /\ DecodesInv)
<1>1. PipelineInit => LinkInv /\ DecodesInv
  <2> SUFFICES ASSUME PipelineInit
               PROVE  LinkInv /\ DecodesInv
    OBVIOUS
  <2>1. /\ stream = <<>> /\ received = <<>> /\ shown = <<>> /\ dReports = <<>>
        /\ dCalls = <<>> /\ dReentered = FALSE
    BY DEF PipelineInit, Init, BaseInit, D!Init, D!BaseInit
  <2>2. Len(<<>>) = 0 /\ DOMAIN <<>> = {}
    OBVIOUS
  <2>3. LinkInv
    BY <2>1, <2>2 DEF LinkInv, ShownAsReceived
  <2>4. DecodesInv
    BY <2>1, <2>2 DEF DecodesInv, DP!Pending
  <2> QED
    BY <2>3, <2>4
<1>2. Parts /\ LinkInv /\ DecodesInv /\ [PipelineNext]_pipeline
        => LinkInv' /\ DecodesInv'
  BY LinkNext, DecodesNext DEF Parts
<1> QED
  BY <1>1, <1>2, PartsHold, PTL DEF PipelineSpec
-----------------------------------------------------------------------------
(* The packet a frame was shown for is one of the stream, as received. *)
LEMMA ShownInStream ==
  ASSUME Parts, LinkInv, NEW i \in DOMAIN shown, NEW n, n = shown[i].packet
  PROVE  /\ n \in DOMAIN stream
         /\ shown[i].w = stream[n].w /\ shown[i].h = stream[n].h
         /\ received[n].key = stream[n].key
<1>1. n \in 1..Len(received) /\ shown[i].w = received[n].w /\ shown[i].h = received[n].h
  BY DEF LinkInv, ShownAsReceived
<1>2. Len(received) \in Nat /\ Len(stream) \in Nat /\ DOMAIN stream = 1..Len(stream)
  BY StreamElements, ReceivedElements DEF Parts, ConfigInv
<1>3. n \in DOMAIN stream
  BY <1>1, <1>2 DEF LinkInv
<1>4. received[n] = Stamped(stream[n])
  BY <1>1 DEF LinkInv
<1>5. /\ received[n].w = stream[n].w /\ received[n].h = stream[n].h
      /\ received[n].key = stream[n].key
  BY <1>4 DEF Stamped
<1> QED
  BY <1>1, <1>3, <1>5

(* Whatever resizes, settings and failures there are on the way, a frame is
   shown at the size that was submitted. *)
THEOREM AlwaysShownAtSubmittedSize == PipelineSpec => []ShownAtSubmittedSize
<1>1. ASSUME Parts, LinkInv, NEW i \in DOMAIN shown
      PROVE  LET s == submitted[stream[shown[i].packet].frame]
             IN shown[i].w = s.w /\ shown[i].h = s.h
  <2> DEFINE n == shown[i].packet
  <2>1. /\ n \in DOMAIN stream
        /\ shown[i].w = stream[n].w /\ shown[i].h = stream[n].h
    BY <1>1, ShownInStream
  <2>2. SubmittedAs(stream[n].frame, stream[n].w, stream[n].h, stream[n].params)
    BY <1>1, <2>1 DEF Parts, ConfigInv, PacketsMatchTheirFrame
  <2> QED
    BY <2>1, <2>2 DEF SubmittedAs
<1>2. Parts /\ LinkInv => ShownAtSubmittedSize
  BY <1>1 DEF ShownAtSubmittedSize
<1> QED
  BY <1>2, RoundTripInvariant, PTL

(* What an encoder gives out decodes, also across its restarts: a decoder that
   restarts at a resize finds a key frame.  Only libvpx failing, or the
   application calling Encode between two events of one result, can make a
   packet undecodable. *)
THEOREM AlwaysDecodes == PipelineSpec => []EveryPacketDecodes
<1>1. ASSUME Parts, DecodesInv, ~reentered, faults = 0
      PROVE  [i \in DOMAIN shown |-> shown[i].packet] = [i \in 1..Len(received) |-> i]
  <2>1. Len(shown) = Len(received) /\ \A i \in DOMAIN shown : shown[i].packet = i
    BY <1>1 DEF DecodesInv
  <2>2. DOMAIN shown = 1..Len(shown)
    BY <1>1, ReceivedElements DEF Parts
  <2> QED
    BY <2>1, <2>2
<1>2. Parts /\ DecodesInv => EveryPacketDecodes
  BY <1>1 DEF EveryPacketDecodes, DecodesInv
<1> QED
  BY <1>2, RoundTripInvariant, PTL

-----------------------------------------------------------------------------
(* Contexts of the encoder.  Frames R are where they begin. *)

(* A packet that is not a key frame has its predecessor in the same context. *)
Within(s, R) ==
  \A i \in DOMAIN s : ~s[i].key =>
    i # 1 /\ \A r \in R : ~(s[i - 1].frame < r /\ r <= s[i].frame)

(* The last packet of s is of the last context. *)
Past(s, R) == s # <<>> /\ \A r \in R : r <= s[Len(s)].frame

(* What the context of the encoder holds was submitted since it was made, and
   once it has given a packet, the last on its way is one of its own. *)
RestartInv ==
  /\ restarts \subseteq Frames
  /\ ~reentered =>
       /\ Within(Coming, restarts)
       /\ initialized =>
            /\ \A j \in DOMAIN context.held, r \in restarts : r <= context.held[j]
            /\ context.started => Past(Coming, restarts)

(* Packets of one context, behind those of s. *)
LEMMA WithinConcat ==
  ASSUME NEW P, NEW s \in Seq(P), NEW t \in Seq(P), NEW R,
         \A p \in P : p.frame \in Nat, R \subseteq Nat,
         Within(s, R), \A i \in DOMAIN t, r \in R : r <= t[i].frame,
         t # <<>> => t[1].key \/ Past(s, R)
  PROVE  /\ Within(s \o t, R)
         /\ t # <<>> => Past(s \o t, R)
<1> DEFINE m == Len(s)
           n == Len(t)
           u == s \o t
<1>1. m \in Nat /\ n \in Nat /\ DOMAIN s = 1..m /\ DOMAIN t = 1..n
  BY LenProperties
<1>2. /\ u \in Seq(P) /\ Len(u) = m + n
      /\ \A i \in 1..(m + n) : u[i] = IF i <= m THEN s[i] ELSE t[i - m]
  BY ConcatProperties
<1>3. (t # <<>> => n # 0) /\ (s # <<>> => m # 0)
  BY EmptySeq
<1>4. (s = <<>> => m = 0) /\ (t = <<>> => n = 0)
  OBVIOUS
<1>5. \A i \in 1..n : t[i].frame \in Nat
  BY ElementOfSeq
<1> HIDE DEF m, n, u
<1>6. DOMAIN u = 1..(m + n)
  BY <1>2, LenProperties
<1>7. ASSUME NEW i \in 1..(m + n), ~u[i].key
      PROVE  i # 1 /\ \A r \in R : ~(u[i - 1].frame < r /\ r <= u[i].frame)
  <2>1. CASE i <= m
    <3>1. i \in 1..m /\ u[i] = s[i]
      BY <1>1, <1>2, <2>1
    <3>2. i # 1 /\ \A r \in R : ~(s[i - 1].frame < r /\ r <= s[i].frame)
      BY <1>1, <1>7, <3>1 DEF Within
    <3>3. u[i - 1] = s[i - 1]
      <4>1. i - 1 \in 1..(m + n) /\ i - 1 <= m
        BY <1>1, <3>1, <3>2
      <4> QED
        BY <1>2, <4>1
    <3> QED
      BY <3>1, <3>2, <3>3
  <2>2. CASE i = m + 1
    <3>1. i - m = 1 /\ 1 \in 1..n /\ t # <<>> /\ ~(i <= m)
      BY <1>1, <1>4, <2>2
    <3>2. u[i] = t[1]
      BY <1>2, <3>1
    <3>3. s # <<>> /\ \A r \in R : r <= s[m].frame
      BY <1>7, <3>1, <3>2 DEF Past, m
    <3>4. i - 1 = m /\ m \in 1..(m + n) /\ i # 1
      BY <1>1, <1>3, <2>2, <3>3
    <3>5. u[i - 1] = s[m]
      BY <1>1, <1>2, <3>4
    <3>6. m \in 1..m
      BY <1>1, <1>3, <3>3
    <3>7. s[m].frame \in Nat
      BY <3>6, ElementOfSeq DEF m
    <3> QED
      BY <3>3, <3>4, <3>5, <3>7
  <2>3. CASE i > m + 1
    <3>1. (i - 1) - m \in 1..n /\ i # 1 /\ i - 1 \in 1..(m + n) /\ ~(i - 1 <= m)
      BY <1>1, <2>3
    <3>2. u[i - 1] = t[(i - 1) - m]
      BY <1>2, <3>1
    <3> DEFINE j == (i - 1) - m
    <3>3. j \in 1..n /\ u[i - 1] = t[j]
      BY <3>1, <3>2
    <3> HIDE DEF j
    <3>4. t[j].frame \in Nat /\ \A r \in R : r <= t[j].frame
      BY <1>1, <1>5, <3>3
    <3> QED
      BY <3>1, <3>3, <3>4
  <2> QED
    BY <1>1, <2>1, <2>2, <2>3
<1>8. Within(u, R)
  BY <1>6, <1>7 DEF Within
<1>9. ASSUME t # <<>>
      PROVE  Past(u, R)
  <2>1. m + n \in 1..(m + n) /\ ~(m + n <= m) /\ (m + n) - m = n /\ n \in 1..n
    BY <1>1, <1>3, <1>9
  <2>2. u[m + n] = t[n]
    BY <1>2, <2>1
  <2>3. u # <<>>
    BY <1>6, <2>1
  <2> QED
    BY <1>1, <1>2, <2>1, <2>2, <2>3 DEF Past
<1> QED
  BY <1>8, <1>9 DEF u

(* What a context that waits with frame n + 1 and those it held gives, and
   keeps. *)
LEMMA WaitingSince ==
  ASSUME NEW n \in Nat, NEW held \in Seq(1..n), NEW R, R \subseteq 1..(n + 1), Rising(held),
         \A j \in DOMAIN held, r \in R : r <= held[j],
         NEW waiting, waiting = Append(held, n + 1), NEW k \in 0..Len(waiting)
  PROVE  /\ \A i \in 1..k, r \in R : r <= waiting[i]
         /\ \A j \in DOMAIN SubSeq(waiting, k + 1, Len(waiting)), r \in R :
              r <= SubSeq(waiting, k + 1, Len(waiting))[j]
<1> DEFINE m == Len(held)
<1>1. /\ waiting \in Seq(1..(n + 1)) /\ Len(waiting) = m + 1 /\ m \in Nat
      /\ \A i \in 1..m : waiting[i] = held[i]
      /\ waiting[m + 1] = n + 1
      /\ Rising(waiting)
  BY WaitingRises
<1>2. DOMAIN held = 1..m
  BY LenProperties
<1> HIDE DEF m
<1>3. \A i \in 1..(m + 1), r \in R : r <= waiting[i]
  <2> TAKE i \in 1..(m + 1), r \in R
  <2>1. CASE i \in 1..m
    BY <1>1, <1>2, <2>1
  <2>2. CASE i = m + 1
    <3>1. r \in 1..(n + 1) /\ r <= n + 1
      OBVIOUS
    <3> QED
      BY <1>1, <2>2, <3>1
  <2> QED
    BY <1>1, <2>1, <2>2
<1> DEFINE left == SubSeq(waiting, k + 1, Len(waiting))
<1>4. /\ left \in Seq(1..(n + 1)) /\ Len(left) = Len(waiting) - k
      /\ \A i \in 1..(Len(waiting) - k) :
           k + i \in 1..Len(waiting) /\ left[i] = waiting[k + i]
  <2>1. n + 1 \in Nat
    OBVIOUS
  <2> QED
    BY <1>1, <2>1, LeftRises
<1> HIDE DEF left
<1>5. DOMAIN left = 1..(Len(waiting) - k)
  BY <1>4, LenProperties
<1>6. \A j \in DOMAIN left, r \in R : r <= left[j]
  BY <1>1, <1>3, <1>4, <1>5
<1>7. \A i \in 1..k : i \in 1..(m + 1)
  BY <1>1
<1> QED
  BY <1>3, <1>6, <1>7 DEF left

(* A call of Encode that makes a context marks its frame, which is later than
   those before it. *)
LEMMA EncodeRestarts ==
  ASSUME ConfigInv, OrderInv, RestartInv, NEW w \in Lengths, NEW h \in Lengths, Encode(w, h),
         restarts' = restarts \cup (IF UpToDate(w, h) THEN {} ELSE {NextFrame})
  PROVE  RestartInv'
<1>1. /\ TypeOK /\ Submit(w, h)
      /\ Len(submitted') = Len(submitted) + 1
  BY SubmitGrows DEF ConfigInv, Encode
<1> DEFINE n == Len(submitted)
<1>2. /\ n \in Nat /\ Frames = 1..n /\ Frames' = 1..(n + 1) /\ NextFrame = n + 1
      /\ stream \in Seq(Packets')
  BY <1>1, EventsGrow
<1> HIDE DEF n
<1>3. restarts' \subseteq Frames' /\ restarts \subseteq Frames
  BY <1>2 DEF RestartInv
<1> SUFFICES ASSUME ~reentered'
             PROVE  /\ Within(Coming', restarts')
                    /\ initialized' =>
                         /\ \A j \in DOMAIN context'.held, r \in restarts' : r <= context'.held[j]
                         /\ context'.started => Past(Coming', restarts')
  BY <1>3 DEF RestartInv
<1>4. PICK packets \in Seq(Packets') :
        /\ Hands(packets)
        /\ \/ HasNoContext(packets)
           \/ \E c \in Contexts :
                /\ EncodesIn(c, packets)
                /\ IF UpToDate(w, h) THEN Kept(c) ELSE Made(c)
  BY EncodeEffectBy
<1>5. ~reentered /\ \A i \in DOMAIN calls : calls[i].rest = <<>>
  BY <1>1 DEF Submit
<1>6. Coming = stream /\ Coming' = stream \o packets
  BY <1>1, <1>4, <1>5, HandsComing
<1>7. packets = <<>> => Coming' = stream
  BY <1>2, <1>6, ConcatEmptySeq
<1>8. \A p \in Packets' : p.frame \in Nat
  BY <1>2 DEF Packets
<1>9. Within(stream, restarts')
  <2>1. Within(stream, restarts)
    BY <1>5, <1>6 DEF RestartInv
  <2>2. \A i \in DOMAIN stream : stream[i].frame \in 1..n
    <3>1. stream \in Seq(Packets) /\ \A p \in Packets : p.frame \in 1..n
      BY <1>1, <1>2 DEF TypeOK, Packets
    <3> QED
      BY <3>1, ElementsOfSeq
  <2>3. ASSUME NEW i \in DOMAIN stream, ~stream[i].key, NEW r \in restarts'
        PROVE  i # 1 /\ ~(stream[i - 1].frame < r /\ r <= stream[i].frame)
    <3>1. CASE r \in restarts
      BY <2>1, <2>3, <3>1 DEF Within
    <3>2. CASE r = n + 1
      <4>1. i # 1
        BY <2>1, <2>3 DEF Within
      <4>2. ~(r <= stream[i].frame)
        BY <1>2, <2>2, <3>2
      <4> QED
        BY <4>1, <4>2
    <3> QED
      BY <1>2, <3>1, <3>2
  <2>4. \A i \in DOMAIN stream : ~stream[i].key => i # 1
    BY <2>1 DEF Within
  <2> QED
    BY <2>3, <2>4 DEF Within
<1>10. CASE HasNoContext(packets)
  <2>1. packets = <<>> /\ initialized' = FALSE
    BY <1>10 DEF HasNoContext
  <2> QED
    BY <1>7, <1>9, <2>1
<1>11. ASSUME NEW c \in Contexts, EncodesIn(c, packets),
              IF UpToDate(w, h) THEN Kept(c) ELSE Made(c)
       PROVE  /\ Within(Coming', restarts')
              /\ \A j \in DOMAIN context'.held, r \in restarts' : r <= context'.held[j]
              /\ context'.started => Past(Coming', restarts')
  <2>1. /\ Rising(c.held)
        /\ \A j \in DOMAIN c.held, r \in restarts' : r <= c.held[j]
        /\ c.started => Past(stream, restarts')
    <3>1. CASE UpToDate(w, h)
      <4>1. initialized /\ c = context /\ restarts' = restarts
        BY <1>11, <3>1 DEF Kept
      <4> QED
        BY <1>5, <1>6, <4>1 DEF RestartInv, OrderInv
    <3>2. CASE ~UpToDate(w, h)
      <4>1. c.held = <<>> /\ c.started = FALSE
        BY <1>11, <3>2 DEF Made, NewContext
      <4> QED
        BY <4>1 DEF Rising
    <3> QED
      BY <3>1, <3>2
  <2>2. CASE Refuses(c, packets)
    <3>1. packets = <<>> /\ context' = c
      BY <2>2 DEF Refuses
    <3> QED
      BY <1>7, <1>9, <2>1, <3>1
  <2>3. ASSUME NEW k \in Nat, Gives(c, k, packets)
        PROVE  /\ Within(Coming', restarts')
               /\ \A j \in DOMAIN context'.held, r \in restarts' : r <= context'.held[j]
               /\ context'.started => Past(Coming', restarts')
    <3> DEFINE f == Waiting(c)
    <3>1. /\ k \in 0..Len(f) /\ Len(packets) = k
          /\ \A i \in 1..k : packets[i].frame = f[i]
          /\ k > 0 /\ ~c.started => packets[1].key
          /\ context'.held = SubSeq(f, k + 1, Len(f))
          /\ context'.started = (c.started \/ k > 0)
      BY <2>3 DEF Gives, IsPacketOf, Left
    <3>2. f = Append(c.held, n + 1) /\ c.held \in Seq(1..n) /\ restarts' \subseteq 1..(n + 1)
      BY <1>2, <1>3 DEF Waiting, Contexts
    <3> HIDE DEF f
    <3>3. /\ \A i \in 1..k, r \in restarts' : r <= f[i]
          /\ \A j \in DOMAIN SubSeq(f, k + 1, Len(f)), r \in restarts' :
               r <= SubSeq(f, k + 1, Len(f))[j]
      <4>1. PICK R, held, m : R = restarts' /\ held = c.held /\ m = n
        OBVIOUS
      <4>2. /\ m \in Nat /\ held \in Seq(1..m) /\ R \subseteq 1..(m + 1) /\ Rising(held)
            /\ \A j \in DOMAIN held, r \in R : r <= held[j]
            /\ f = Append(held, m + 1) /\ k \in 0..Len(f)
        BY <1>2, <2>1, <3>1, <3>2, <4>1
      <4>3. /\ \A i \in 1..k, r \in R : r <= f[i]
            /\ \A j \in DOMAIN SubSeq(f, k + 1, Len(f)), r \in R :
                 r <= SubSeq(f, k + 1, Len(f))[j]
        BY <4>2, WaitingSince
      <4> QED
        BY <4>1, <4>3
    <3>4. DOMAIN packets = 1..k
      BY <3>1, LenProperties
    <3>5. \A i \in DOMAIN packets, r \in restarts' : r <= packets[i].frame
      BY <3>1, <3>3, <3>4
    <3>6. (packets # <<>> => k > 0) /\ (packets = <<>> => k = 0)
      BY <3>1, EmptySeq
    <3>7. packets # <<>> => packets[1].key \/ Past(stream, restarts')
      BY <2>1, <3>1, <3>6
    <3>8. restarts' \subseteq Nat
      BY <3>2
    <3>9. /\ Within(stream \o packets, restarts')
          /\ packets # <<>> => Past(stream \o packets, restarts')
      BY <1>2, <1>8, <1>9, <3>5, <3>7, <3>8, WithinConcat
    <3>10. ASSUME context'.started
           PROVE  Past(Coming', restarts')
      <4>1. CASE packets = <<>>
        <5>1. c.started \/ k > 0
          BY <3>1, <3>10, Zenon
        <5>2. c.started
          BY <3>6, <4>1, <5>1
        <5> QED
          BY <1>7, <2>1, <4>1, <5>2
      <4>2. CASE packets # <<>>
        BY <1>6, <3>9, <4>2
      <4> QED
        BY <4>1, <4>2
    <3>11. \A j \in DOMAIN context'.held, r \in restarts' : r <= context'.held[j]
      BY <3>1, <3>3
    <3> QED
      BY <1>6, <3>9, <3>10, <3>11
  <2>4. Refuses(c, packets) \/ \E k \in Nat : Gives(c, k, packets)
    BY <1>11 DEF EncodesIn
  <2> QED
    BY <2>2, <2>3, <2>4
<1> QED
  BY <1>4, <1>10, <1>11

LEMMA NextRestarts ==
  ASSUME ConfigInv, OrderInv, RestartInv, [PipelineNext]_pipeline
  PROVE  RestartInv'
<1>1. ASSUME UNCHANGED <<restarts, submitted, reentered>>, ~reentered => Coming' = Coming,
             initialized' => /\ initialized /\ context'.started = context.started
                             /\ context'.held = <<>> \/ context'.held = context.held
      PROVE  RestartInv'
  <2>1. Frames' = Frames
    BY <1>1 DEF Frames
  <2> QED
    BY <1>1, <2>1 DEF RestartInv
<1>2. CASE EncoderStep
  <2>1. ASSUME NEW p \in Params, SetParams(p), UNCHANGED <<context, dropped, restarts>>
        PROVE  RestartInv'
    <3>1. UNCHANGED <<initialized, submitted, reentered, calls, stream>>
      BY <2>1 DEF SetParams, setup, output
    <3>2. Coming' = Coming
      BY <3>1 DEF Coming
    <3> QED
      BY <1>1, <2>1, <3>1, <3>2
  <2>2. CASE Shutdown /\ UNCHANGED restarts
    <3>1. initialized' = FALSE /\ UNCHANGED <<submitted, reentered, calls, stream>>
      BY <2>2 DEF Shutdown, output
    <3>2. Coming' = Coming
      BY <3>1 DEF Coming
    <3> QED
      BY <1>1, <2>2, <3>1, <3>2
  <2>3. CASE Drain /\ UNCHANGED restarts
    <3>1. /\ UNCHANGED <<submitted, reentered, calls, stream, initialized>>
          /\ initialized /\ context \in Contexts
          /\ context' = [context EXCEPT !.held = <<>>, !.eos = TRUE]
      BY <2>3 DEF Drain, baseVars, setup, output, ConfigInv, TypeOK
    <3>2. context'.held = <<>> /\ context'.started = context.started
      BY <3>1 DEF Contexts
    <3>3. Coming' = Coming
      BY <3>1 DEF Coming
    <3> QED
      BY <1>1, <2>3, <3>1, <3>2, <3>3
  <2>4. CASE CallBackReturns /\ UNCHANGED <<context, dropped, restarts>>
    <3>1. UNCHANGED <<initialized, reentered, submitted>>
      BY <2>4 DEF CallBackReturns, setup
    <3>2. ~reentered => Coming' = Coming
      BY <2>4, CallBackReturnsComing DEF ConfigInv, OrderInv
    <3> QED
      BY <1>1, <2>4, <3>1, <3>2
  <2>5. ASSUME NEW w \in Lengths, NEW h \in Lengths, Encode(w, h),
               restarts' = restarts \cup (IF UpToDate(w, h) THEN {} ELSE {NextFrame})
        PROVE  RestartInv'
    BY <2>5, EncodeRestarts
  <2> QED
    BY <1>2, <2>1, <2>2, <2>3, <2>4, <2>5 DEF EncoderStep
<1>3. CASE Forward \/ DecoderStep \/ UNCHANGED pipeline
  <2>1. UNCHANGED <<encoder, restarts>>
    BY <1>3 DEF Forward, DecoderStep, pipeline
  <2>2. UNCHANGED <<initialized, context, submitted, reentered, calls, stream>>
    BY <2>1 DEF encoder, vars, baseVars, setup, output
  <2>3. Coming' = Coming
    BY <2>2 DEF Coming
  <2> QED
    BY <1>1, <2>1, <2>2, <2>3
<1> QED
  BY <1>2, <1>3 DEF PipelineNext

LEMMA RestartInvariant == PipelineSpec => []RestartInv
<1>1. PipelineInit => RestartInv
  <2> SUFFICES ASSUME PipelineInit
               PROVE  RestartInv
    OBVIOUS
  <2>1. initialized = FALSE /\ calls = <<>> /\ stream = <<>> /\ restarts = {}
    BY DEF PipelineInit, Init, BaseInit
  <2>2. Coming = <<>>
    BY <2>1, EmptySeq, ConcatEmptySeq DEF Coming
  <2> QED
    BY <2>1, <2>2 DEF RestartInv, Within
<1>2. ConfigInv /\ OrderInv /\ RestartInv /\ [PipelineNext]_pipeline => RestartInv'
  BY NextRestarts
<1>3. PipelineSpec => [](ConfigInv /\ OrderInv)
  BY PipelineEncodes, ConfigInvariant, OrderInvariant, PTL
<1> QED
  BY <1>1, <1>2, <1>3, PTL DEF PipelineSpec

(* When libvpx has failed, the decoder waits for a key frame: no frame shown is
   predicted from one that was not, nor across contexts of the encoder, also
   when both have one size and one configuration. *)
THEOREM AlwaysPredictedFromShown == PipelineSpec => []NothingPredictedFromLost
<1>1. ASSUME Parts, LinkInv, RestartInv, ~reentered, NEW i \in DOMAIN shown
      PROVE  LET n == shown[i].packet
                 p == stream[n]
                 q == stream[n - 1]
             IN p.key \/ (/\ i > 1
                          /\ shown[i - 1].packet = n - 1
                          /\ SameContext(q.frame, p.frame))
  <2> DEFINE n == shown[i].packet
  <2>1. n \in DOMAIN stream /\ received[n].key = stream[n].key
    BY <1>1, ShownInStream
  <2>2. stream[n].key \/ (i > 1 /\ shown[i - 1].packet = n - 1)
    BY <1>1, <2>1 DEF Parts, LinkInv, DP!OrderInv, DP!Predicted, DP!PredictedAt
  <2>3. ASSUME ~stream[n].key
        PROVE  SameContext(stream[n - 1].frame, stream[n].frame)
    <3>1. Within(Coming, restarts) /\ TypeOK
      BY <1>1 DEF RestartInv, Parts, ConfigInv
    <3>2. /\ n \in DOMAIN Coming /\ Coming[n] = stream[n]
          /\ n # 1 => Coming[n - 1] = stream[n - 1]
      BY <2>1, <3>1, StreamIsComing
    <3> HIDE DEF n
    <3>3. n # 1 /\ \A r \in restarts : ~(Coming[n - 1].frame < r /\ r <= Coming[n].frame)
      BY <2>3, <3>1, <3>2 DEF Within
    <3> QED
      BY <3>2, <3>3 DEF SameContext
  <2> QED
    BY <2>2, <2>3
<1>2. Parts /\ LinkInv /\ RestartInv => NothingPredictedFromLost
  BY <1>1 DEF NothingPredictedFromLost
<1> QED
  BY <1>2, RoundTripInvariant, RestartInvariant, PTL
=============================================================================

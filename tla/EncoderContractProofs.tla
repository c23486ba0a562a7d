----------------------- MODULE EncoderContractProofs ------------------------
(***************************************************************************)
(* Proofs about EncoderContract, for any lengths, settings and bounds:     *)
(* first sizes, settings and contexts, then the order of packets and       *)
(* reports, and where each frame is.                                       *)
(***************************************************************************)
EXTENDS EncoderContract, SequenceTheorems, TLAPS

(* Parts of the type invariant. *)
SubmittedType ==
  submitted \in Seq([w : Lengths, h : Lengths, params : Params,
                     forced : BOOLEAN, toHandler : BOOLEAN])

ReportsType == reports \in Seq([frame : Frames, status : {"Success", "Error"}])

(* What a call submits is one more frame; the frames and packets there were
   still are. *)
LEMMA SubmitGrows ==
  ASSUME TypeOK, NEW w \in Lengths, NEW h \in Lengths, Submit(w, h)
  PROVE  /\ SubmittedType'
         /\ Len(submitted') = Len(submitted) + 1
         /\ \A f \in Frames : submitted'[f] = submitted[f]
         /\ submitted'[NextFrame].w = w
         /\ submitted'[NextFrame].h = h
         /\ submitted'[NextFrame].params = params
         /\ width' = w /\ height' = h
         /\ UNCHANGED <<forceIFrame, handlerSet>>
         /\ reentered' \in BOOLEAN
<1> DEFINE r == [w |-> w, h |-> h, params |-> params,
                 forced |-> forceIFrame, toHandler |-> handlerSet]
<1>1. submitted' = Append(submitted, r)
  BY DEF Submit
<1>2. r \in [w : Lengths, h : Lengths, params : Params,
             forced : BOOLEAN, toHandler : BOOLEAN]
  BY DEF TypeOK
<1>3. SubmittedType'
  BY <1>1, <1>2, AppendProperties DEF TypeOK, SubmittedType
<1>4. Len(submitted') = Len(submitted) + 1
  BY <1>1, <1>2, AppendProperties DEF TypeOK
<1>5. \A f \in Frames : submitted'[f] = submitted[f]
  BY <1>1, <1>2, AppendProperties DEF TypeOK, Frames
<1>6. submitted'[NextFrame] = r
  BY <1>1, <1>2, AppendProperties DEF TypeOK, NextFrame
<1>7. /\ submitted'[NextFrame].w = w
      /\ submitted'[NextFrame].h = h
      /\ submitted'[NextFrame].params = params
  BY <1>6
<1>8. reentered' \in BOOLEAN
  BY DEF Submit, TypeOK
<1>9. /\ width' = w /\ height' = h
      /\ UNCHANGED <<forceIFrame, handlerSet>>
  BY DEF Submit
<1> QED
  BY <1>3, <1>4, <1>5, <1>7, <1>8, <1>9

(* What has one more frame still has the types it had. *)
LEMMA HistoryGrows ==
  ASSUME TypeOK, Len(submitted') = Len(submitted) + 1
  PROVE  /\ Frames \subseteq Frames'
         /\ NextFrame \in Frames'
         /\ Packets \subseteq Packets'
         /\ stream \in Seq(Packets')
         /\ calls \in Seq([frame : Frames', rest : Seq(Packets')])
         /\ reports \in Seq([frame : Frames', status : {"Success", "Error"}])
<1>1. Len(submitted) \in Nat
  BY LenProperties DEF TypeOK
<1>2. Frames \subseteq Frames' /\ NextFrame \in Frames'
  BY <1>1 DEF Frames, NextFrame
<1>3. Packets \subseteq Packets'
  BY <1>2 DEF Packets
<1>4. Seq(Packets) \subseteq Seq(Packets')
  BY <1>3, SeqMonotonic
<1>5. [frame : Frames, rest : Seq(Packets)] \subseteq [frame : Frames', rest : Seq(Packets')]
  BY <1>2, <1>4
<1>6. [frame : Frames, status : {"Success", "Error"}]
        \subseteq [frame : Frames', status : {"Success", "Error"}]
  BY <1>2
<1>7. stream \in Seq(Packets')
  BY <1>4 DEF TypeOK
<1>8. calls \in Seq([frame : Frames', rest : Seq(Packets')])
  BY <1>5, SeqMonotonic DEF TypeOK
<1>9. reports \in Seq([frame : Frames', status : {"Success", "Error"}])
  BY <1>6, SeqMonotonic DEF TypeOK
<1> QED
  BY <1>2, <1>3, <1>7, <1>8, <1>9

(* A report hands over packets of a set P: if the packets handed over and on
   their way were of P, they still are. *)
LEMMA ReportKeeps ==
  ASSUME TypeOK, Len(submitted') = Len(submitted) + 1, NEW P,
         stream \in Seq(P),
         calls \in Seq([frame : Frames', rest : Seq(P)]),
         NEW status \in {"Success", "Error"}, NEW packets \in Seq(P),
         \/ ReportResult(status, packets)
         \/ CallBack(status, packets, <<>>)
  PROVE  /\ stream' \in Seq(P)
         /\ calls' \in Seq([frame : Frames', rest : Seq(P)])
         /\ ReportsType'
<1> DEFINE C == [frame : Frames', rest : Seq(P)]
           Kept == stream' \in Seq(P) /\ calls' \in Seq(C) /\ ReportsType'
<1>1. ASSUME NEW st \in {"Success", "Error"}, NEW ps \in Seq(P), NEW rest \in Seq(P),
             CallBack(st, ps, rest)
      PROVE  Kept
  <2>1. [frame |-> NextFrame, rest |-> rest] \in C
    BY HistoryGrows
  <2>2. <<[frame |-> NextFrame, rest |-> rest]>> \o calls \in Seq(C)
    BY <2>1, ConcatProperties
  <2>3. calls' \in Seq(C)
    BY <1>1, <2>2 DEF CallBack
  <2>4. ReportsType'
    BY <1>1, HistoryGrows, AppendProperties DEF CallBack, ReportsType
  <2>5. stream' \in Seq(P)
    BY <1>1, ConcatProperties DEF CallBack
  <2> QED
    BY <2>3, <2>4, <2>5
<1>2. CASE CallBack(status, packets, <<>>)
  BY <1>1, <1>2, EmptySeq
<1>3. CASE packets # <<>> /\ CallBack("Success", <<Head(packets)>>, Tail(packets))
  <2>1. Head(packets) \in P /\ Tail(packets) \in Seq(P)
    BY <1>3, HeadTailProperties
  <2>2. <<Head(packets)>> \in Seq(P)
    BY <2>1
  <2> QED
    BY <1>1, <1>3, <2>1, <2>2
<1>4. CASE UNCHANGED <<calls, reports, stream>>
  BY <1>4, HistoryGrows DEF ReportsType
<1> QED
  BY <1>2, <1>3, <1>4 DEF ReportResult

(* EncodeInternal in a context that holds frames of a set F, which have
   packets in a set P: it holds frames of F still, and reports packets of P. *)
LEMMA EncodeInternalKeeps ==
  ASSUME TypeOK, Len(submitted') = Len(submitted) + 1, NEW F, NEW P,
         stream \in Seq(P),
         calls \in Seq([frame : Frames', rest : Seq(P)]),
         NEW c \in Contexts, c.held \in Seq(F), NextFrame \in F,
         \A f \in F, key \in BOOLEAN : Packet(c, f, key) \in P,
         EncodeInternal(c)
  PROVE  /\ stream' \in Seq(P)
         /\ calls' \in Seq([frame : Frames', rest : Seq(P)])
         /\ ReportsType'
         /\ failed' \subseteq Frames'
         /\ \E held \in Seq(F), started, eos \in BOOLEAN :
              context' = [w |-> c.w, h |-> c.h, params |-> c.params,
                          held |-> held, started |-> started, eos |-> eos]
<1> DEFINE waiting == Append(c.held, NextFrame)
           Ctx(held, started, eos) ==
             [w |-> c.w, h |-> c.h, params |-> c.params,
              held |-> held, started |-> started, eos |-> eos]
           Goal == /\ stream' \in Seq(P)
                   /\ calls' \in Seq([frame : Frames', rest : Seq(P)])
                   /\ ReportsType'
                   /\ failed' \subseteq Frames'
                   /\ \E held \in Seq(F), started, eos \in BOOLEAN :
                        context' = Ctx(held, started, eos)
<1>1. waiting \in Seq(F)
  BY AppendProperties
<1>2. failed \subseteq Frames' /\ NextFrame \in Frames'
  BY HistoryGrows DEF TypeOK
<1>3. c = Ctx(c.held, c.started, c.eos) /\ c.started \in BOOLEAN /\ c.eos \in BOOLEAN
  BY DEF Contexts
<1>4. CASE EncodeTakesIn(c)
  <2>1. PICK k \in 0..Len(waiting), status \in {"Success", "Error"} :
        \E keys \in [1..k -> BOOLEAN] :
          /\ context' = [c EXCEPT !.held = SubSeq(waiting, k + 1, Len(waiting)),
                                  !.started = @ \/ k > 0]
          /\ ReportResult(status,
                          [i \in 1..k |-> Packet(c, waiting[i], keys[i])])
          /\ UNCHANGED failed
    BY <1>4 DEF EncodeTakesIn
  <2>2. PICK keys \in [1..k -> BOOLEAN] :
          /\ context' = [c EXCEPT !.held = SubSeq(waiting, k + 1, Len(waiting)),
                                  !.started = @ \/ k > 0]
          /\ ReportResult(status,
                          [i \in 1..k |-> Packet(c, waiting[i], keys[i])])
          /\ UNCHANGED failed
    BY <2>1
  <2> DEFINE packets == [i \in 1..k |-> Packet(c, waiting[i], keys[i])]
             held == SubSeq(waiting, k + 1, Len(waiting))
  <2>3. Len(waiting) \in Nat
    BY <1>1, LenProperties
  <2>4. \A i \in 1..k : waiting[i] \in F
    <3> HIDE DEF waiting
    <3> QED
      BY <1>1, <2>3, ElementOfSeq
  <2>5. packets \in Seq(P)
    <3>1. packets \in [1..k -> P]
      BY <2>4
    <3> HIDE DEF packets
    <3> QED
      BY <3>1, <2>3, SeqDef
  <2>6. held \in Seq(F)
    <3> HIDE DEF waiting
    <3> QED
      BY <1>1, <2>3, SubSeqProperties
  <2>7. context' = Ctx(held, c.started \/ k > 0, c.eos)
    BY <2>2, <1>3
  <2>8. failed' \subseteq Frames'
    BY <2>2, <1>2
  <2>9. ReportResult(status, packets)
    BY <2>2
  <2>10. \E hd \in Seq(F), started, eos \in BOOLEAN : context' = Ctx(hd, started, eos)
    BY <2>6, <2>7, <1>3
  <2> QED
    BY <2>5, <2>8, <2>9, <2>10, ReportKeeps
<1>5. CASE EncodeRefuses(c)
  <2>1. <<>> \in Seq(P)
    BY EmptySeq
  <2>2. ReportResult("Error", <<>>) /\ failed' \subseteq Frames'
    BY <1>5, <1>2 DEF EncodeRefuses
  <2>3. \E held \in Seq(F), started, eos \in BOOLEAN : context' = Ctx(held, started, eos)
    BY <1>5, <1>3 DEF EncodeRefuses
  <2> QED
    BY <2>1, <2>2, <2>3, ReportKeeps
<1> QED
  BY <1>4, <1>5 DEF EncodeInternal
-----------------------------------------------------------------------------
(* What the setup of a context leaves. *)
LEMMA SetupTypes ==
  ASSUME TypeOK, SetupSucceeded \/ SetupFails
  PROVE  /\ UNCHANGED <<params, mtime>>
         /\ params' \in Params
         /\ mtime' \in 1..MaxMTime
         /\ lastSetupMTime' \in 0..mtime'
         /\ touched' \in BOOLEAN
         /\ SetupSucceeded =>
              /\ initialized' = TRUE
              /\ lastSetupMTime' = mtime'
              /\ touched' = FALSE
         /\ SetupFails => initialized' = FALSE /\ context' = NoContext
<1>1. /\ mtime \in 1..MaxMTime /\ lastSetupMTime \in 0..mtime
      /\ params \in Params /\ touched \in BOOLEAN
  BY DEF TypeOK
<1>2. CASE SetupSucceeded
  <2>1. /\ UNCHANGED <<params, mtime>>
        /\ initialized' = TRUE /\ lastSetupMTime' = mtime' /\ touched' = FALSE
    BY <1>2 DEF SetupSucceeded
  <2>2. lastSetupMTime' \in 0..mtime'
    BY <1>1, <2>1, BoundsAssumption
  <2>3. ~SetupFails
    BY <2>1 DEF SetupFails, SetupFailed
  <2> QED
    BY <1>1, <2>1, <2>2, <2>3
<1>3. CASE SetupFails
  <2>1. /\ UNCHANGED <<params, mtime, lastSetupMTime, touched>>
        /\ initialized' = FALSE /\ context' = NoContext
    BY <1>3 DEF SetupFails, SetupFailed
  <2>2. ~SetupSucceeded
    BY <2>1 DEF SetupSucceeded
  <2> QED
    BY <1>1, <2>1, <2>2
<1> QED
  BY <1>2, <1>3

LEMMA NewContextType ==
  ASSUME NEW w \in Lengths, NEW h \in Lengths, NEW p \in Params
  PROVE  NewContext(w, h, p) \in Contexts
BY EmptySeq DEF NewContext, Contexts

LEMMA DropHeldType ==
  ASSUME TypeOK, DropHeld
  PROVE  dropped' \subseteq Frames
<1>1. CASE initialized
  <2>1. context.held \in Seq(Frames)
    BY <1>1 DEF TypeOK, Contexts
  <2>2. Range(context.held) \subseteq Frames
    BY <2>1, SeqDef DEF Range
  <2> QED
    BY <1>1, <2>2 DEF DropHeld, TypeOK
<1> QED
  BY <1>1 DEF DropHeld, TypeOK
-----------------------------------------------------------------------------
(* Every step keeps the types. *)
LEMMA EncodeTypes ==
  ASSUME TypeOK, NEW w \in Lengths, NEW h \in Lengths, Encode(w, h)
  PROVE  TypeOK'
<1>1. Submit(w, h)
  BY DEF Encode
<1> USE <1>1
<1>2. /\ SubmittedType' /\ Len(submitted') = Len(submitted) + 1
      /\ width' = w /\ height' = h
      /\ UNCHANGED <<forceIFrame, handlerSet>>
      /\ reentered' \in BOOLEAN
  BY SubmitGrows
<1>3. stream \in Seq(Packets') /\ calls \in Seq([frame : Frames', rest : Seq(Packets')])
  BY <1>2, HistoryGrows
<1>4. ASSUME NEW c \in Contexts, EncodeInternal(c)
      PROVE  /\ stream' \in Seq(Packets')
             /\ calls' \in Seq([frame : Frames', rest : Seq(Packets')])
             /\ ReportsType'
             /\ failed' \subseteq Frames'
             /\ context' \in Contexts'
  <2>1. c.held \in Seq(Frames')
    BY <1>2, HistoryGrows, SeqMonotonic DEF Contexts
  <2>2. \A f \in Frames', key \in BOOLEAN : Packet(c, f, key) \in Packets'
    BY <1>2 DEF Packet, Packets, Contexts
  <2>3. NextFrame \in Frames'
    BY <1>2, HistoryGrows
  <2>4. /\ stream' \in Seq(Packets')
        /\ calls' \in Seq([frame : Frames', rest : Seq(Packets')])
        /\ ReportsType'
        /\ failed' \subseteq Frames'
        /\ \E held \in Seq(Frames'), started, eos \in BOOLEAN :
             context' = [w |-> c.w, h |-> c.h, params |-> c.params,
                         held |-> held, started |-> started, eos |-> eos]
    BY <1>2, <1>3, <1>4, <2>1, <2>2, <2>3, EncodeInternalKeeps
  <2>5. context' \in Contexts'
    BY <2>4 DEF Contexts
  <2> QED
    BY <2>4, <2>5
<1> DEFINE Rest == /\ stream' \in Seq(Packets')
                   /\ calls' \in Seq([frame : Frames', rest : Seq(Packets')])
                   /\ ReportsType'
                   /\ failed' \subseteq Frames'
                   /\ context' \in (IF initialized' THEN Contexts' ELSE {NoContext})
                   /\ dropped' \subseteq Frames'
           Setup == /\ params' \in Params
                    /\ mtime' \in 1..MaxMTime
                    /\ lastSetupMTime' \in 0..mtime'
                    /\ initialized' \in BOOLEAN
                    /\ touched' \in BOOLEAN
<1>5. dropped \subseteq Frames' /\ (DropHeld => dropped' \subseteq Frames')
  BY <1>2, HistoryGrows, DropHeldType DEF TypeOK
<1>6. CASE UpToDate(w, h) /\ UNCHANGED <<params, setup, dropped>> /\ EncodeInternal(context)
  <2>1. initialized /\ context \in Contexts
    BY <1>6 DEF UpToDate, TypeOK
  <2>2. Rest
    BY <1>4, <1>5, <1>6, <2>1 DEF setup
  <2>3. Setup
    BY <1>6 DEF setup, TypeOK
  <2> QED
    BY <1>2, <2>2, <2>3 DEF TypeOK, SubmittedType, ReportsType
<1>7. CASE DropHeld /\ SetupSucceeded /\ EncodeInternal(NewContext(w, h, params))
  <2>1. initialized' /\ params \in Params /\ NewContext(w, h, params) \in Contexts
    BY <1>7, SetupTypes, NewContextType DEF TypeOK
  <2>2. Rest
    BY <1>4, <1>5, <1>7, <2>1
  <2>3. Setup
    BY <1>7, SetupTypes
  <2> QED
    BY <1>2, <2>2, <2>3 DEF TypeOK, SubmittedType, ReportsType
<1>8. CASE DropHeld /\ SetupFails /\ ReportNoContext
  <2>1. <<>> \in Seq(Packets')
    BY EmptySeq
  <2>2. CallBack("Error", <<>>, <<>>)
    BY <1>8 DEF ReportNoContext
  <2>3. /\ stream' \in Seq(Packets')
        /\ calls' \in Seq([frame : Frames', rest : Seq(Packets')])
        /\ ReportsType'
    BY <1>2, <1>3, <2>1, <2>2, ReportKeeps
  <2>4. failed' \subseteq Frames'
    BY <1>2, <1>8, HistoryGrows DEF ReportNoContext, TypeOK
  <2>5. Setup /\ initialized' = FALSE /\ context' = NoContext
    BY <1>8, SetupTypes
  <2>6. Rest
    BY <1>5, <1>8, <2>3, <2>4, <2>5
  <2> QED
    BY <1>2, <2>5, <2>6 DEF TypeOK, SubmittedType, ReportsType
<1> QED
  BY <1>6, <1>7, <1>8 DEF Encode

LEMMA CallBackReturnsTypes ==
  ASSUME TypeOK, CallBackReturns, UNCHANGED <<context, dropped>>
  PROVE  TypeOK'
<1> DEFINE C == [frame : Frames, rest : Seq(Packets)]
           top == Head(calls)
<1>1. calls \in Seq(C) /\ calls # <<>>
  BY DEF TypeOK, CallBackReturns
<1>2. top \in C /\ Tail(calls) \in Seq(C)
  BY <1>1, HeadTailProperties
<1>3. /\ UNCHANGED <<config, setup, submitted, failed, reentered, context, dropped>>
      /\ Frames' = Frames /\ Packets' = Packets /\ Contexts' = Contexts
  BY DEF CallBackReturns, Frames, Packets, Contexts
<1>4. calls' \in Seq(C) /\ ReportsType' /\ stream' \in Seq(Packets)
  <2>1. CASE top.rest = <<>> /\ calls' = Tail(calls) /\ UNCHANGED <<reports, stream>>
    BY <1>2, <1>3, <2>1 DEF TypeOK, ReportsType
  <2>2. CASE /\ top.rest # <<>>
             /\ reports' = Append(reports, [frame |-> top.frame, status |-> "Success"])
             /\ stream' = Append(stream, Head(top.rest))
             /\ calls' = <<[top EXCEPT !.rest = Tail(@)]>> \o Tail(calls)
    <3>1. top.rest \in Seq(Packets) /\ top.frame \in Frames
      BY <1>2
    <3>2. Head(top.rest) \in Packets /\ Tail(top.rest) \in Seq(Packets)
      BY <2>2, <3>1, HeadTailProperties
    <3>3. [top EXCEPT !.rest = Tail(@)] \in C
      BY <1>2, <3>2
    <3>4. calls' \in Seq(C)
      <4> HIDE DEF C, top
      <4>1. <<[top EXCEPT !.rest = Tail(@)]>> \in Seq(C)
        BY <3>3
      <4> QED
        BY <1>2, <2>2, <4>1, ConcatProperties
    <3>5. ReportsType'
      BY <1>3, <2>2, <3>1, AppendProperties DEF TypeOK, ReportsType
    <3>6. stream' \in Seq(Packets)
      BY <2>2, <3>2, AppendProperties DEF TypeOK
    <3> QED
      BY <3>4, <3>5, <3>6
  <2> QED
    BY <2>1, <2>2 DEF CallBackReturns
<1> QED
  BY <1>3, <1>4 DEF TypeOK, ReportsType, config, setup

(* The types of what only Encode and the return of a callback change. *)
LEMMA OutputUnchanged ==
  ASSUME TypeOK, UNCHANGED output
  PROVE  /\ calls' \in Seq([frame : Frames', rest : Seq(Packets')])
         /\ SubmittedType' /\ ReportsType' /\ stream' \in Seq(Packets')
         /\ failed' \subseteq Frames'
         /\ reentered' \in BOOLEAN
         /\ Frames' = Frames /\ Packets' = Packets /\ Contexts' = Contexts
<1>1. /\ UNCHANGED <<calls, submitted, reports, stream, failed, reentered>>
      /\ Frames' = Frames /\ Packets' = Packets /\ Contexts' = Contexts
  BY DEF output, Frames, Packets, Contexts
<1> QED
  BY <1>1 DEF TypeOK, SubmittedType, ReportsType

LEMMA SetterTypes ==
  ASSUME TypeOK, Setter, UNCHANGED <<context, dropped>>
  PROVE  TypeOK'
<1>1. /\ UNCHANGED <<lastSetupMTime, initialized>>
      /\ UNCHANGED output
  BY DEF Setter, SetWidth, SetHeight, SetParams, SetForceIFrame,
         SetOutputHandler, setup
<1>2. /\ width' \in Lengths /\ height' \in Lengths /\ params' \in Params
      /\ forceIFrame' \in BOOLEAN /\ handlerSet' \in BOOLEAN
  BY DEF TypeOK, Setter, SetWidth, SetHeight, SetParams, SetForceIFrame,
         SetOutputHandler
<1>3. \/ UNCHANGED <<mtime, touched>>
      \/ mtime < MaxMTime /\ mtime' = mtime + 1 /\ touched' = TRUE
  BY DEF Setter, SetWidth, SetHeight, SetParams, SetForceIFrame,
         SetOutputHandler, Modified, setup
<1>4. mtime' \in 1..MaxMTime /\ lastSetupMTime' \in 0..mtime' /\ touched' \in BOOLEAN
  <2>1. mtime \in 1..MaxMTime /\ lastSetupMTime \in 0..mtime /\ touched \in BOOLEAN
    BY DEF TypeOK
  <2>2. UNCHANGED lastSetupMTime
    BY <1>1
  <2>3. mtime' \in 1..MaxMTime /\ lastSetupMTime' \in 0..mtime'
    <3>1. mtime' = mtime \/ (mtime < MaxMTime /\ mtime' = mtime + 1)
      BY <1>3
    <3> QED
      BY <3>1, <2>1, <2>2, BoundsAssumption
  <2>4. touched' \in BOOLEAN
    BY <1>3, <2>1
  <2> QED
    BY <2>3, <2>4
<1> QED
  BY <1>1, <1>2, <1>4, OutputUnchanged DEF TypeOK, SubmittedType, ReportsType

LEMMA InitializeTypes ==
  ASSUME TypeOK, Initialize
  PROVE  TypeOK'
<1>1. UNCHANGED <<width, height, forceIFrame, handlerSet, output, dropped>>
  BY DEF Initialize
<1>2. SetupSucceeded \/ SetupFails
  BY DEF Initialize
<1>3. context' \in (IF initialized' THEN Contexts ELSE {NoContext})
      /\ initialized' \in BOOLEAN
  <2>1. CASE SetupSucceeded /\ context' = NewContext(width, height, params)
    BY <2>1, SetupTypes, NewContextType DEF TypeOK
  <2>2. CASE SetupFails
    BY <2>2, SetupTypes
  <2> QED
    BY <2>1, <2>2 DEF Initialize
<1> QED
  BY <1>1, <1>2, <1>3, SetupTypes, OutputUnchanged
     DEF TypeOK, SubmittedType, ReportsType

LEMMA DrainTypes ==
  ASSUME TypeOK, Drain
  PROVE  TypeOK'
<1>1. UNCHANGED <<config, setup, output>>
  BY DEF Drain, baseVars
<1>2. context' \in Contexts
  BY EmptySeq DEF Drain, TypeOK, Contexts
<1>3. dropped' \subseteq Frames
  BY DropHeldType DEF Drain
<1> QED
  BY <1>1, <1>2, <1>3, OutputUnchanged
     DEF TypeOK, SubmittedType, ReportsType, Drain, config, setup

LEMMA ShutdownTypes ==
  ASSUME TypeOK, Shutdown
  PROVE  TypeOK'
<1>1. UNCHANGED <<config, mtime, lastSetupMTime, touched, output>>
  BY DEF Shutdown
<1>2. initialized' = FALSE /\ context' = NoContext /\ dropped' \subseteq Frames
  BY DropHeldType DEF Shutdown
<1> QED
  BY <1>1, <1>2, OutputUnchanged DEF TypeOK, SubmittedType, ReportsType, config

LEMMA StutterTypes ==
  ASSUME TypeOK, UNCHANGED vars
  PROVE  TypeOK'
<1>1. UNCHANGED <<config, setup, output, context, dropped>>
  BY DEF vars, baseVars
<1> QED
  BY <1>1, OutputUnchanged DEF TypeOK, SubmittedType, ReportsType, config, setup

LEMMA InitTypes ==
  ASSUME Init
  PROVE  TypeOK
<1>1. /\ width \in Lengths /\ height \in Lengths /\ params \in Params
      /\ forceIFrame \in BOOLEAN /\ handlerSet \in BOOLEAN
  BY LengthsAssumption DEF Init, BaseInit
<1>2. /\ mtime \in 1..MaxMTime /\ lastSetupMTime \in 0..mtime
      /\ initialized = FALSE /\ touched \in BOOLEAN
  BY BoundsAssumption DEF Init, BaseInit
<1>3. calls = <<>> /\ submitted = <<>> /\ reports = <<>> /\ stream = <<>>
  BY DEF Init, BaseInit
<1>4. failed = {} /\ dropped = {} /\ reentered \in BOOLEAN /\ context = NoContext
  BY DEF Init, BaseInit
<1> QED
  BY <1>1, <1>2, <1>3, <1>4, EmptySeq DEF TypeOK

LEMMA NextTypes ==
  ASSUME TypeOK, [Next]_vars
  PROVE  TypeOK'
<1>1. CASE Setter /\ UNCHANGED <<context, dropped>>
  BY <1>1, SetterTypes
<1>2. CASE Initialize
  BY <1>2, InitializeTypes
<1>3. CASE Drain
  BY <1>3, DrainTypes
<1>4. CASE Shutdown
  BY <1>4, ShutdownTypes
<1>5. ASSUME NEW w \in Lengths, NEW h \in Lengths, Encode(w, h) PROVE TypeOK'
  BY <1>5, EncodeTypes
<1>6. CASE CallBackReturns /\ UNCHANGED <<context, dropped>>
  BY <1>6, CallBackReturnsTypes
<1>7. CASE UNCHANGED vars
  BY <1>7, StutterTypes
<1> QED
  BY <1>1, <1>2, <1>3, <1>4, <1>5, <1>6, <1>7 DEF Next

(* Every variable of the encoder holds a value of its type, and it holds a
   context exactly when it is initialized, whatever an application calls, from
   callbacks or not. *)
THEOREM TypeCorrect == Spec => []TypeOK
<1>1. Init => TypeOK
  BY InitTypes
<1>2. TypeOK /\ [Next]_vars => TypeOK'
  BY NextTypes
<1> QED
  BY <1>1, <1>2, PTL DEF Spec
-----------------------------------------------------------------------------
(* That a packet has the configuration its frame was submitted with needs the
   context to have it, hence the modification time to tell when it does not:
   the invariant is inductive only as a whole. *)
ConfigInv ==
  /\ TypeOK
  /\ StaleIffTouched
  /\ ContextIsCurrent
  /\ PacketsMatchTheirFrame

FramesAs(w, h, p) == {f \in Frames : SubmittedAs(f, w, h, p)}
PacketsAs == {p \in Packets : SubmittedAs(p.frame, p.w, p.h, p.params)}
HoldsFramesAs(c) == c.held \in Seq(FramesAs(c.w, c.h, c.params))

(* PacketsMatchTheirFrame and ContextIsCurrent, as types. *)
PacketsInPacketsAs ==
  /\ stream \in Seq(PacketsAs)
  /\ calls \in Seq([frame : Frames, rest : Seq(PacketsAs)])

ContextHoldsFramesAs ==
  initialized =>
    /\ ~touched => context.w = width /\ context.h = height /\ context.params = params
    /\ HoldsFramesAs(context)

(* What is known of each element of a sequence is a type of the sequence. *)
LEMMA SeqOfSubset ==
  ASSUME NEW S, NEW T, NEW seq \in Seq(S),
         \A i \in DOMAIN seq : seq[i] \in T
  PROVE  seq \in Seq(T)
BY SeqDef

LEMMA ElementsOfSeq ==
  ASSUME NEW S, NEW seq \in Seq(S)
  PROVE  \A i \in DOMAIN seq : seq[i] \in S
BY SeqDef

LEMMA PacketsMatchAsTypes ==
  ASSUME TypeOK
  PROVE  PacketsMatchTheirFrame <=> PacketsInPacketsAs
<1> DEFINE C == [frame : Frames, rest : Seq(Packets)]
           D == [frame : Frames, rest : Seq(PacketsAs)]
<1>1. stream \in Seq(Packets) /\ calls \in Seq(C)
  BY DEF TypeOK
<1>2. \A i \in DOMAIN stream : stream[i] \in Packets
  BY <1>1, SeqDef
<1>3. \A n \in DOMAIN calls : calls[n] \in C
  <2> HIDE DEF C
  <2> QED
    BY <1>1, ElementsOfSeq
<1>4. \A n \in DOMAIN calls : \A i \in DOMAIN calls[n].rest : calls[n].rest[i] \in Packets
  BY <1>3, SeqDef
<1>5. ASSUME PacketsMatchTheirFrame
      PROVE  PacketsInPacketsAs
  <2>1. \A i \in DOMAIN stream : stream[i] \in PacketsAs
    BY <1>2, <1>5 DEF PacketsMatchTheirFrame, PacketsAs
  <2>2. \A n \in DOMAIN calls : \A i \in DOMAIN calls[n].rest : calls[n].rest[i] \in PacketsAs
    BY <1>4, <1>5 DEF PacketsMatchTheirFrame, PacketsAs
  <2>3. \A n \in DOMAIN calls : calls[n] \in D
    BY <1>3, <2>2, SeqOfSubset
  <2> QED
    BY <1>1, <2>1, <2>3, SeqOfSubset DEF PacketsInPacketsAs
<1>6. ASSUME PacketsInPacketsAs
      PROVE  PacketsMatchTheirFrame
  <2>1. \A i \in DOMAIN stream : stream[i] \in PacketsAs
    BY <1>6, SeqDef DEF PacketsInPacketsAs
  <2>2. \A n \in DOMAIN calls : calls[n] \in D
    <3>1. calls \in Seq(D)
      BY <1>6 DEF PacketsInPacketsAs
    <3> HIDE DEF D
    <3> QED
      BY <3>1, ElementsOfSeq
  <2>3. \A n \in DOMAIN calls : \A i \in DOMAIN calls[n].rest : calls[n].rest[i] \in PacketsAs
    BY <2>2, SeqDef
  <2> QED
    BY <2>1, <2>3 DEF PacketsMatchTheirFrame, PacketsAs
<1> QED
  BY <1>5, <1>6

(* A frame submitted later leaves what the frames before were submitted as. *)
LEMMA AsBefore ==
  ASSUME TypeOK, Len(submitted') = Len(submitted) + 1,
         \A f \in Frames : submitted'[f] = submitted[f]
  PROVE  /\ \A w, h, p : FramesAs(w, h, p) \subseteq FramesAs(w, h, p)'
         /\ PacketsAs \subseteq PacketsAs'
         /\ PacketsInPacketsAs =>
              /\ stream \in Seq(PacketsAs')
              /\ calls \in Seq([frame : Frames', rest : Seq(PacketsAs')])
<1> DEFINE D == [frame : Frames, rest : Seq(PacketsAs)]
           E == [frame : Frames', rest : Seq(PacketsAs')]
<1>1. \A w, h, p : FramesAs(w, h, p) \subseteq FramesAs(w, h, p)'
  BY HistoryGrows DEF FramesAs, SubmittedAs
<1>2. PacketsAs \subseteq PacketsAs'
  <2>1. Packets \subseteq Packets'
    BY HistoryGrows
  <2>2. \A p \in Packets : p.frame \in Frames
    BY DEF Packets
  <2> QED
    BY <2>1, <2>2 DEF PacketsAs, SubmittedAs
<1>3. Seq(PacketsAs) \subseteq Seq(PacketsAs')
  BY <1>2, SeqMonotonic
<1>4. D \subseteq E
  BY <1>3, HistoryGrows
<1>5. ASSUME PacketsInPacketsAs
      PROVE  stream \in Seq(PacketsAs') /\ calls \in Seq(E)
  <2>1. stream \in Seq(PacketsAs) /\ calls \in Seq(D)
    BY <1>5 DEF PacketsInPacketsAs
  <2>2. stream \in Seq(PacketsAs')
    BY <1>3, <2>1
  <2>3. calls \in Seq(E)
    <3> HIDE DEF D, E
    <3> QED
      BY <1>4, <2>1, SeqMonotonic
  <2> QED
    BY <2>2, <2>3
<1> QED
  BY <1>1, <1>2, <1>5

LEMMA PacketsMatchAsTypesNext ==
  TypeOK' => (PacketsMatchTheirFrame' <=> PacketsInPacketsAs')
<1>1. TypeOK => (PacketsMatchTheirFrame <=> PacketsInPacketsAs)
  BY PacketsMatchAsTypes
<1> QED
  BY <1>1, PTL

(* EncodeInternal, in a context that has the configuration of the encoder,
   makes packets that have that of their frames. *)
LEMMA EncodeInternalMatches ==
  ASSUME ConfigInv, NEW w \in Lengths, NEW h \in Lengths, Submit(w, h),
         NEW c \in Contexts, HoldsFramesAs(c),
         c.w = w, c.h = h, c.params = params,
         EncodeInternal(c)
  PROVE  /\ PacketsInPacketsAs'
         /\ HoldsFramesAs(context)'
         /\ context'.w = c.w /\ context'.h = c.h /\ context'.params = c.params
<1> DEFINE F == FramesAs(c.w, c.h, c.params)'
<1>1. /\ TypeOK /\ Len(submitted') = Len(submitted) + 1
      /\ \A f \in Frames : submitted'[f] = submitted[f]
      /\ submitted'[NextFrame].w = w
      /\ submitted'[NextFrame].h = h
      /\ submitted'[NextFrame].params = params
      /\ width' = w /\ height' = h
  BY SubmitGrows DEF ConfigInv
<1>2. /\ stream \in Seq(PacketsAs')
      /\ calls \in Seq([frame : Frames', rest : Seq(PacketsAs')])
      /\ FramesAs(c.w, c.h, c.params) \subseteq F
  BY <1>1, AsBefore, PacketsMatchAsTypes DEF ConfigInv
<1>3. c.held \in Seq(F)
  BY <1>2, SeqMonotonic DEF HoldsFramesAs
<1>4. NextFrame \in F
  <2>1. NextFrame \in Frames'
    BY <1>1, HistoryGrows
  <2> QED
    BY <1>1, <2>1 DEF FramesAs, SubmittedAs
<1>5. \A f \in F, key \in BOOLEAN : Packet(c, f, key) \in PacketsAs'
  <2> TAKE f \in F, key \in BOOLEAN
  <2>1. f \in Frames' /\ SubmittedAs(f, c.w, c.h, c.params)'
    BY DEF FramesAs
  <2>2. Packet(c, f, key) = [frame |-> f, w |-> c.w, h |-> c.h, params |-> c.params, key |-> key]
    BY <1>1 DEF Packet
  <2>3. Packet(c, f, key) \in Packets'
    BY <2>1, <2>2 DEF Packets, Contexts
  <2> QED
    BY <2>1, <2>2, <2>3 DEF PacketsAs
<1>6. /\ stream' \in Seq(PacketsAs')
      /\ calls' \in Seq([frame : Frames', rest : Seq(PacketsAs')])
      /\ \E held \in Seq(F), started, eos \in BOOLEAN :
           context' = [w |-> c.w, h |-> c.h, params |-> c.params,
                       held |-> held, started |-> started, eos |-> eos]
  <2> HIDE DEF F
  <2> QED
    BY <1>1, <1>2, <1>3, <1>4, <1>5, EncodeInternalKeeps
<1>7. /\ context'.held \in Seq(F)
      /\ context'.w = c.w /\ context'.h = c.h /\ context'.params = c.params
  <2> HIDE DEF F
  <2> QED
    BY <1>6
<1>8. HoldsFramesAs(context)'
  BY <1>7 DEF HoldsFramesAs
<1> QED
  BY <1>6, <1>7, <1>8 DEF PacketsInPacketsAs

LEMMA HeldMatchAsTypes ==
  ASSUME TypeOK
  PROVE  ContextIsCurrent <=> ContextHoldsFramesAs
<1>1. CASE initialized
  <2>1. context.held \in Seq(Frames)
    BY <1>1 DEF TypeOK, Contexts
  <2>2. ASSUME HoldsFramesAs(context), NEW i \in DOMAIN context.held
        PROVE  SubmittedAs(context.held[i], context.w, context.h, context.params)
    <3>1. context.held[i] \in FramesAs(context.w, context.h, context.params)
      BY <2>2, ElementsOfSeq DEF HoldsFramesAs
    <3> QED
      BY <3>1 DEF FramesAs
  <2>3. ASSUME \A i \in DOMAIN context.held :
                 SubmittedAs(context.held[i], context.w, context.h, context.params)
        PROVE  HoldsFramesAs(context)
    <3>1. \A i \in DOMAIN context.held :
            context.held[i] \in FramesAs(context.w, context.h, context.params)
      BY <2>1, <2>3, ElementsOfSeq DEF FramesAs
    <3> QED
      BY <2>1, <3>1, SeqOfSubset DEF HoldsFramesAs
  <2> QED
    BY <1>1, <2>2, <2>3 DEF ContextIsCurrent, ContextHoldsFramesAs
<1> QED
  BY <1>1 DEF ContextIsCurrent, ContextHoldsFramesAs

LEMMA HeldMatchAsTypesNext ==
  TypeOK' => (ContextIsCurrent' <=> ContextHoldsFramesAs')
<1>1. TypeOK => (ContextIsCurrent <=> ContextHoldsFramesAs)
  BY HeldMatchAsTypes
<1> QED
  BY <1>1, PTL

(* Nothing of a submitted frame or of a packet changes. *)
LEMMA OutputUnchangedMatches ==
  ASSUME ConfigInv, UNCHANGED output
  PROVE  /\ PacketsMatchTheirFrame'
         /\ \A f, w, h, p : SubmittedAs(f, w, h, p)' <=> SubmittedAs(f, w, h, p)
BY DEF ConfigInv, output, PacketsMatchTheirFrame, SubmittedAs

LEMMA SetterConfig ==
  ASSUME ConfigInv, Setter, UNCHANGED <<context, dropped>>
  PROVE  StaleIffTouched' /\ ContextIsCurrent' /\ PacketsMatchTheirFrame'
<1>1. /\ UNCHANGED <<lastSetupMTime, initialized, context>>
      /\ UNCHANGED output
  BY DEF Setter, SetWidth, SetHeight, SetParams, SetForceIFrame,
         SetOutputHandler, setup
<1>2. \/ UNCHANGED <<mtime, touched, width, height, params>>
      \/ mtime' = mtime + 1 /\ touched' = TRUE
  BY DEF Setter, SetWidth, SetHeight, SetParams, SetForceIFrame,
         SetOutputHandler, Modified, setup
<1>3. StaleIffTouched'
  <2>1. CASE UNCHANGED <<mtime, touched>>
    BY <1>1, <2>1 DEF ConfigInv, StaleIffTouched
  <2>2. CASE mtime' = mtime + 1 /\ touched' = TRUE
    <3>1. lastSetupMTime' < mtime'
      BY <1>1, <2>2 DEF ConfigInv, TypeOK
    <3> QED
      BY <2>2, <3>1 DEF StaleIffTouched
  <2> QED
    BY <1>2, <2>1, <2>2
<1>4. ContextIsCurrent'
  BY <1>1, <1>2, OutputUnchangedMatches DEF ConfigInv, ContextIsCurrent
<1> QED
  BY <1>1, <1>3, <1>4, OutputUnchangedMatches

(* A context that was set up is current. *)
LEMMA SetupConfig ==
  ASSUME ConfigInv, SetupSucceeded \/ SetupFails
  PROVE  StaleIffTouched'
<1>1. CASE SetupSucceeded
  BY <1>1, SetupTypes DEF ConfigInv, StaleIffTouched
<1>2. CASE SetupFails
  BY <1>2, SetupTypes DEF ConfigInv, StaleIffTouched
<1> QED
  BY <1>1, <1>2

LEMMA InitializeConfig ==
  ASSUME ConfigInv, Initialize
  PROVE  StaleIffTouched' /\ ContextIsCurrent' /\ PacketsMatchTheirFrame'
<1>1. UNCHANGED <<width, height, output>>
  BY DEF Initialize
<1>2. CASE SetupSucceeded /\ context' = NewContext(width, height, params)
  <2>1. /\ context'.w = width' /\ context'.h = height' /\ context'.params = params'
        /\ context'.held = <<>>
    BY <1>1, <1>2, SetupTypes DEF NewContext, ConfigInv
  <2> QED
    BY <1>1, <1>2, <2>1, SetupConfig, OutputUnchangedMatches DEF ContextIsCurrent
<1>3. CASE SetupFails
  BY <1>1, <1>3, SetupConfig, SetupTypes, OutputUnchangedMatches
     DEF ConfigInv, ContextIsCurrent
<1> QED
  BY <1>2, <1>3 DEF Initialize

LEMMA DrainConfig ==
  ASSUME ConfigInv, Drain
  PROVE  StaleIffTouched' /\ ContextIsCurrent' /\ PacketsMatchTheirFrame'
<1>1. /\ UNCHANGED <<width, height, params, setup, output>>
      /\ initialized
      /\ context' = [context EXCEPT !.held = <<>>, !.eos = TRUE]
  BY DEF Drain, baseVars, config
<1>2. /\ context'.w = context.w /\ context'.h = context.h
      /\ context'.params = context.params /\ context'.held = <<>>
  BY <1>1 DEF ConfigInv, TypeOK, Contexts
<1>3. StaleIffTouched'
  BY <1>1 DEF ConfigInv, StaleIffTouched, setup
<1>4. ContextIsCurrent'
  BY <1>1, <1>2 DEF ConfigInv, ContextIsCurrent, setup
<1> QED
  BY <1>1, <1>3, <1>4, OutputUnchangedMatches

LEMMA ShutdownConfig ==
  ASSUME ConfigInv, Shutdown
  PROVE  StaleIffTouched' /\ ContextIsCurrent' /\ PacketsMatchTheirFrame'
BY OutputUnchangedMatches DEF Shutdown, StaleIffTouched, ContextIsCurrent

LEMMA StutterConfig ==
  ASSUME ConfigInv, UNCHANGED vars
  PROVE  StaleIffTouched' /\ ContextIsCurrent' /\ PacketsMatchTheirFrame'
<1>1. UNCHANGED <<width, height, params, mtime, lastSetupMTime, initialized, touched,
                  output, context>>
  BY DEF vars, baseVars, config, setup
<1> QED
  BY <1>1, OutputUnchangedMatches DEF ConfigInv, StaleIffTouched, ContextIsCurrent

(* A report of no packet keeps what was reported matching. *)
LEMMA NoContextMatches ==
  ASSUME ConfigInv, NEW w \in Lengths, NEW h \in Lengths, Submit(w, h),
         ReportNoContext
  PROVE  PacketsInPacketsAs'
<1>1. /\ TypeOK /\ Len(submitted') = Len(submitted) + 1
      /\ \A f \in Frames : submitted'[f] = submitted[f]
  BY SubmitGrows DEF ConfigInv
<1>2. /\ stream \in Seq(PacketsAs')
      /\ calls \in Seq([frame : Frames', rest : Seq(PacketsAs')])
  BY <1>1, AsBefore, PacketsMatchAsTypes DEF ConfigInv
<1>3. <<>> \in Seq(PacketsAs') /\ CallBack("Error", <<>>, <<>>)
  BY EmptySeq DEF ReportNoContext
<1> QED
  BY <1>1, <1>2, <1>3, ReportKeeps DEF PacketsInPacketsAs

LEMMA EncodeConfig ==
  ASSUME ConfigInv, NEW w \in Lengths, NEW h \in Lengths, Encode(w, h)
  PROVE  StaleIffTouched' /\ ContextIsCurrent' /\ PacketsMatchTheirFrame'
<1>1. /\ Submit(w, h) /\ width' = w /\ height' = h
      /\ TypeOK /\ TypeOK'
  BY EncodeTypes DEF Encode, Submit, ConfigInv
<1> DEFINE Goal == StaleIffTouched' /\ ContextHoldsFramesAs' /\ PacketsInPacketsAs'
(* The context is kept: the modification time says that no setter made it
   stale, hence that it has the settings in force. *)
<1>2. ASSUME UpToDate(w, h) /\ UNCHANGED <<params, setup, dropped>>
             /\ EncodeInternal(context)
      PROVE  Goal
  <2>1. /\ initialized /\ context \in Contexts
        /\ w = width /\ h = height /\ lastSetupMTime >= mtime
    BY <1>1, <1>2 DEF UpToDate, TypeOK
  <2>2. ~touched
    BY <2>1, <1>1 DEF ConfigInv, StaleIffTouched, TypeOK
  <2>3. context.w = w /\ context.h = h /\ context.params = params /\ HoldsFramesAs(context)
    BY <2>1, <2>2, <1>1, HeldMatchAsTypes DEF ConfigInv, ContextHoldsFramesAs
  <2>5. /\ PacketsInPacketsAs' /\ HoldsFramesAs(context)'
        /\ context'.w = w /\ context'.h = h /\ context'.params = params
    BY <1>1, <1>2, <2>1, <2>3, EncodeInternalMatches
  <2>6. UNCHANGED <<params, mtime, lastSetupMTime, initialized, touched>>
    BY <1>2 DEF setup
  <2>7. StaleIffTouched'
    BY <2>6 DEF ConfigInv, StaleIffTouched
  <2> QED
    BY <1>1, <2>5, <2>6, <2>7 DEF ContextHoldsFramesAs
(* It is replaced by one with the settings in force. *)
<1>3. ASSUME DropHeld /\ SetupSucceeded /\ EncodeInternal(NewContext(w, h, params))
      PROVE  Goal
  <2> DEFINE c == NewContext(w, h, params)
  <2>1. params' = params /\ params \in Params
    BY <1>1, <1>3, SetupTypes DEF TypeOK
  <2>2. /\ c \in Contexts /\ c.held = <<>>
        /\ c.w = w /\ c.h = h /\ c.params = params
    BY <2>1, NewContextType DEF NewContext
  <2>3. HoldsFramesAs(c)
    BY <2>2, EmptySeq DEF HoldsFramesAs
  <2>4. /\ PacketsInPacketsAs' /\ HoldsFramesAs(context)'
        /\ context'.w = w /\ context'.h = h /\ context'.params = params'
    <3> HIDE DEF c
    <3>1. EncodeInternal(c)
      BY <1>3 DEF c
    <3> QED
      BY <1>1, <2>1, <2>2, <2>3, <3>1, EncodeInternalMatches
  <2>5. StaleIffTouched'
    BY <1>3, SetupConfig
  <2> QED
    BY <1>1, <2>4, <2>5 DEF ContextHoldsFramesAs
<1>4. ASSUME DropHeld /\ SetupFails /\ ReportNoContext
      PROVE  Goal
  <2>1. initialized' = FALSE
    BY <1>1, <1>4, SetupTypes
  <2> QED
    BY <1>1, <1>4, <2>1, NoContextMatches, SetupConfig DEF ContextHoldsFramesAs
<1>5. Goal
  BY <1>2, <1>3, <1>4 DEF Encode
<1> QED
  BY <1>1, <1>5, PacketsMatchAsTypesNext, HeldMatchAsTypesNext

LEMMA CallBackReturnsConfig ==
  ASSUME ConfigInv, CallBackReturns, UNCHANGED <<context, dropped>>
  PROVE  StaleIffTouched' /\ ContextIsCurrent' /\ PacketsMatchTheirFrame'
<1> DEFINE C == [frame : Frames, rest : Seq(PacketsAs)]
           top == Head(calls)
<1>1. /\ UNCHANGED <<width, height, params, mtime, lastSetupMTime, initialized,
                     touched, submitted, context>>
      /\ calls # <<>>
  BY DEF CallBackReturns, config, setup
<1>2. StaleIffTouched' /\ ContextIsCurrent'
  BY <1>1 DEF ConfigInv, StaleIffTouched, ContextIsCurrent, SubmittedAs
<1>3. stream \in Seq(PacketsAs) /\ calls \in Seq(C)
  BY PacketsMatchAsTypes DEF ConfigInv, PacketsInPacketsAs
<1>4. top \in C /\ Tail(calls) \in Seq(C)
  <2> HIDE DEF C
  <2> QED
    BY <1>1, <1>3, HeadTailProperties
<1>5. stream' \in Seq(PacketsAs) /\ calls' \in Seq(C)
  <2>1. CASE top.rest = <<>> /\ calls' = Tail(calls) /\ UNCHANGED <<reports, stream>>
    BY <1>3, <1>4, <2>1
  <2>2. CASE /\ top.rest # <<>>
             /\ stream' = Append(stream, Head(top.rest))
             /\ calls' = <<[top EXCEPT !.rest = Tail(@)]>> \o Tail(calls)
    <3>1. Head(top.rest) \in PacketsAs /\ Tail(top.rest) \in Seq(PacketsAs)
      BY <1>4, <2>2, HeadTailProperties
    <3>2. [top EXCEPT !.rest = Tail(@)] \in C
      BY <1>4, <3>1
    <3>3. calls' \in Seq(C)
      <4> HIDE DEF C, top
      <4>1. <<[top EXCEPT !.rest = Tail(@)]>> \in Seq(C)
        BY <3>2
      <4> QED
        BY <1>4, <2>2, <4>1, ConcatProperties
    <3> QED
      BY <1>3, <2>2, <3>1, <3>3, AppendProperties
  <2> QED
    BY <2>1, <2>2 DEF CallBackReturns
<1>6. PacketsInPacketsAs'
  <2>1. Frames' = Frames /\ PacketsAs' = PacketsAs
    BY <1>1 DEF Frames, Packets, PacketsAs, SubmittedAs
  <2> QED
    BY <1>5, <2>1 DEF PacketsInPacketsAs
<1>7. TypeOK'
  BY CallBackReturnsTypes DEF ConfigInv
<1> QED
  BY <1>2, <1>6, <1>7, PacketsMatchAsTypesNext

LEMMA InitConfig ==
  ASSUME Init
  PROVE  ConfigInv
<1>1. /\ initialized = FALSE /\ stream = <<>> /\ calls = <<>>
  BY DEF Init, BaseInit
<1> QED
  BY <1>1, InitTypes
     DEF ConfigInv, StaleIffTouched, ContextIsCurrent, PacketsMatchTheirFrame

LEMMA NextConfig ==
  ASSUME ConfigInv, [Next]_vars
  PROVE  ConfigInv'
<1>1. TypeOK'
  BY NextTypes DEF ConfigInv
<1>2. CASE Setter /\ UNCHANGED <<context, dropped>>
  BY <1>1, <1>2, SetterConfig DEF ConfigInv
<1>3. CASE Initialize
  BY <1>1, <1>3, InitializeConfig DEF ConfigInv
<1>4. CASE Drain
  BY <1>1, <1>4, DrainConfig DEF ConfigInv
<1>5. CASE Shutdown
  BY <1>1, <1>5, ShutdownConfig DEF ConfigInv
<1>6. ASSUME NEW w \in Lengths, NEW h \in Lengths, Encode(w, h) PROVE ConfigInv'
  BY <1>1, <1>6, EncodeConfig DEF ConfigInv
<1>7. CASE CallBackReturns /\ UNCHANGED <<context, dropped>>
  BY <1>1, <1>7, CallBackReturnsConfig DEF ConfigInv
<1>8. CASE UNCHANGED vars
  BY <1>1, <1>8, StutterConfig DEF ConfigInv
<1> QED
  BY <1>2, <1>3, <1>4, <1>5, <1>6, <1>7, <1>8 DEF Next

LEMMA ConfigInvariant == Spec => []ConfigInv
<1>1. Init => ConfigInv
  BY InitConfig
<1>2. ConfigInv /\ [Next]_vars => ConfigInv'
  BY NextConfig
<1> QED
  BY <1>1, <1>2, PTL DEF Spec

(* The modification time is a sound and complete test of whether a setter was
   called since the context was set up: UpdateEncoderContext never keeps a
   context with other settings, and never replaces one for ForceIFrame alone
   or for the settings that the subclass selected itself. *)
THEOREM StaleContextDetected == Spec => []StaleIffTouched
<1>1. ConfigInv => StaleIffTouched
  BY DEF ConfigInv
<1> QED
  BY <1>1, ConfigInvariant, PTL

(* The context encodes with the settings of the encoder, and holds only frames
   submitted with its own. *)
THEOREM ContextCurrent == Spec => []ContextIsCurrent
<1>1. ConfigInv => ContextIsCurrent
  BY DEF ConfigInv
<1> QED
  BY <1>1, ConfigInvariant, PTL

(* Every packet, delivered or to be, carries the size its frame was given to
   Encode with and was encoded with the settings in force then. *)
THEOREM PacketsMatch == Spec => []PacketsMatchTheirFrame
<1>1. ConfigInv => PacketsMatchTheirFrame
  BY DEF ConfigInv
<1> QED
  BY <1>1, ConfigInvariant, PTL
-----------------------------------------------------------------------------
(* The order of packets and reports, and where each frame is. *)


(* A sequence with an element in front. *)
LEMMA Pushed ==
  ASSUME NEW S, NEW x \in S, NEW s \in Seq(S)
  PROVE  /\ <<x>> \o s \in Seq(S)
         /\ Len(s) \in Nat
         /\ DOMAIN s = 1..Len(s)
         /\ DOMAIN (<<x>> \o s) = 1..(Len(s) + 1)
         /\ (<<x>> \o s)[1] = x
         /\ \A i \in 1..Len(s) : (<<x>> \o s)[i + 1] = s[i]
         /\ Head(<<x>> \o s) = x
<1>1. <<x>> \in Seq(S) /\ Len(<<x>>) = 1 /\ <<x>>[1] = x
  OBVIOUS
<1>2. Len(s) \in Nat /\ DOMAIN s = 1..Len(s)
  BY LenProperties
<1> DEFINE one == <<x>>
<1> HIDE DEF one
<1>3. /\ one \o s \in Seq(S)
      /\ Len(one \o s) = Len(s) + 1
      /\ \A i \in 1..(Len(s) + 1) : (one \o s)[i] = IF i <= 1 THEN one[i] ELSE s[i - 1]
  BY <1>1, <1>2, ConcatProperties DEF one
<1>4. DOMAIN (one \o s) = 1..(Len(s) + 1)
  BY <1>3, LenProperties
<1>5. (one \o s)[1] = x
  BY <1>1, <1>2, <1>3 DEF one
<1>6. \A i \in 1..Len(s) : (one \o s)[i + 1] = s[i]
  <2> TAKE i \in 1..Len(s)
  <2>1. i + 1 \in 1..(Len(s) + 1) /\ ~(i + 1 <= 1) /\ (i + 1) - 1 = i
    BY <1>2
  <2> QED
    BY <1>3, <2>1
<1>7. Head(one \o s) = x
  <2> DEFINE t == one \o s
  <2>1. t \in Seq(S) /\ t[1] = x
    BY <1>3, <1>5
  <2> HIDE DEF t
  <2>2. Head(t) = x
    BY <2>1
  <2> QED
    BY <2>2 DEF t
<1> QED
  BY <1>2, <1>3, <1>4, <1>5, <1>6, <1>7 DEF one

LEMMA Popped ==
  ASSUME NEW S, NEW s \in Seq(S), s # <<>>
  PROVE  /\ Head(s) \in S
         /\ Tail(s) \in Seq(S)
         /\ s = <<Head(s)>> \o Tail(s)
<1> DEFINE t == <<Head(s)>> \o Tail(s)
<1>1. /\ Head(s) \in S /\ Tail(s) \in Seq(S) /\ Len(Tail(s)) = Len(s) - 1
      /\ \A i \in 1..Len(Tail(s)) : Tail(s)[i] = s[i + 1]
  BY HeadTailProperties
<1>2. Len(s) \in Nat \ {0} /\ Head(s) = s[1]
  BY EmptySeq
<1>3. /\ t \in Seq(S)
      /\ DOMAIN t = 1..(Len(Tail(s)) + 1)
      /\ t[1] = Head(s)
      /\ \A i \in 1..Len(Tail(s)) : t[i + 1] = Tail(s)[i]
  BY <1>1, Pushed
<1> HIDE DEF t
<1>4. Len(t) = Len(s)
  BY <1>1, <1>2, <1>3, LenProperties
<1>5. ASSUME NEW i \in 1..Len(s)
      PROVE  s[i] = t[i]
  <2>1. CASE i = 1
    BY <1>2, <1>3, <2>1
  <2>2. CASE i # 1
    <3>1. i - 1 \in 1..Len(Tail(s)) /\ (i - 1) + 1 = i
      BY <1>1, <1>2, <2>2
    <3> QED
      BY <1>1, <1>3, <3>1
  <2> QED
    BY <2>1, <2>2
<1>6. s = t
  BY <1>3, <1>4, <1>5, SeqEqual
<1> QED
  BY <1>1, <1>6 DEF t
-----------------------------------------------------------------------------
(* What a call of Encode does, whichever way it goes. *)

(* The packets are handed over, at once or in an event each. *)
Reports ==
  \E status \in {"Success", "Error"} :
    reports' = Append(reports, [frame |-> NextFrame, status |-> status])

Hands(packets) ==
  \/ /\ Reports
     /\ stream' = stream \o packets
     /\ calls' = <<[frame |-> NextFrame, rest |-> <<>>]>> \o calls
  \/ /\ ~handlerSet
     /\ packets # <<>>
     /\ Reports
     /\ stream' = stream \o <<Head(packets)>>
     /\ calls' = <<[frame |-> NextFrame, rest |-> Tail(packets)]>> \o calls
  \/ /\ ~handlerSet
     /\ packets = <<>>
     /\ UNCHANGED <<stream, calls, reports>>

(* The encoding starts in the context there is, or in a new one. *)
Kept(c) == initialized /\ c = context /\ UNCHANGED dropped
Made(c) == DropHeld /\ c = NewContext(width', height', params)

(* Context c takes the frame in and gives the packets of the first k frames it
   waits with. *)
Waiting(c) == Append(c.held, NextFrame)
Left(c, k) == SubSeq(Waiting(c), k + 1, Len(Waiting(c)))

IsPacketOf(p, c, f) ==
  p.frame = f /\ p.w = width' /\ p.h = height' /\ p.params = c.params

Gives(c, k, packets) ==
  /\ k \in 0..Len(Waiting(c))
  /\ Len(packets) = k
  /\ \A i \in 1..k : IsPacketOf(packets[i], c, Waiting(c)[i])
  /\ k > 0 /\ ~c.started => packets[1].key
  /\ context' = [w |-> c.w, h |-> c.h, params |-> c.params,
                 held |-> Left(c, k), started |-> c.started \/ k > 0, eos |-> c.eos]
  /\ UNCHANGED failed

Refuses(c, packets) ==
  /\ packets = <<>>
  /\ context' = c
  /\ failed' = failed \cup {NextFrame}

HasNoContext(packets) ==
  /\ packets = <<>>
  /\ DropHeld
  /\ initialized' = FALSE
  /\ failed' = failed \cup {NextFrame}

EncodesIn(c, packets) ==
  /\ Kept(c) \/ Made(c)
  /\ initialized' = TRUE
  /\ c.w = width' /\ c.h = height' /\ c.params = params
  /\ Refuses(c, packets) \/ \E k \in Nat : Gives(c, k, packets)

LEMMA ReportHands ==
  ASSUME NEW status \in {"Success", "Error"}, NEW packets, ReportResult(status, packets)
  PROVE  Hands(packets)
BY DEF ReportResult, CallBack, Hands, Reports

LEMMA EmptyCallBackHands ==
  ASSUME NEW status \in {"Success", "Error"}, CallBack(status, <<>>, <<>>)
  PROVE  Hands(<<>>)
BY DEF CallBack, Hands, Reports

LEMMA InternalEffect ==
  ASSUME TypeOK, NEW w \in Lengths, NEW h \in Lengths, Submit(w, h),
         NEW c \in Contexts, c.w = w, c.h = h, EncodeInternal(c)
  PROVE  \E packets \in Seq(Packets') :
           /\ Hands(packets)
           /\ Refuses(c, packets) \/ \E k \in Nat : Gives(c, k, packets)
<1>1. /\ Len(submitted') = Len(submitted) + 1
      /\ width' = w /\ height' = h
  BY SubmitGrows
<1>2. /\ Frames \subseteq Frames' /\ NextFrame \in Frames'
  BY <1>1, HistoryGrows
<1>3. c.held \in Seq(Frames') /\ c.started \in BOOLEAN
  BY <1>2, SeqMonotonic DEF Contexts
<1>4. /\ Waiting(c) \in Seq(Frames')
      /\ Len(Waiting(c)) \in Nat
  BY <1>2, <1>3, AppendProperties, LenProperties DEF Waiting
<1>5. CASE EncodeTakesIn(c)
  <2>1. PICK k \in 0..Len(Waiting(c)), status \in {"Success", "Error"} :
        \E keys \in [1..k -> BOOLEAN] :
          /\ \A i \in 1..k :
               submitted'[Waiting(c)[i]].forced \/ (i = 1 /\ ~c.started) => keys[i]
          /\ context' = [c EXCEPT !.held = Left(c, k), !.started = @ \/ k > 0]
          /\ ReportResult(status,
                          [i \in 1..k |-> Packet(c, Waiting(c)[i], keys[i])])
          /\ UNCHANGED failed
    BY <1>5 DEF EncodeTakesIn, Waiting, Left
  <2>2. PICK keys \in [1..k -> BOOLEAN] :
          /\ \A i \in 1..k :
               submitted'[Waiting(c)[i]].forced \/ (i = 1 /\ ~c.started) => keys[i]
          /\ context' = [c EXCEPT !.held = Left(c, k), !.started = @ \/ k > 0]
          /\ ReportResult(status,
                          [i \in 1..k |-> Packet(c, Waiting(c)[i], keys[i])])
          /\ UNCHANGED failed
    BY <2>1
  <2> DEFINE packets == [i \in 1..k |-> Packet(c, Waiting(c)[i], keys[i])]
  <2>3. \A i \in 1..k : Waiting(c)[i] \in Frames'
    BY <1>4, ElementOfSeq
  <2>4. \A i \in 1..k : Packet(c, Waiting(c)[i], keys[i]) \in Packets'
    BY <1>1, <2>3 DEF Packet, Packets, Contexts
  <2>5. packets \in [1..k -> Packets'] /\ k \in Nat
    BY <1>4, <2>4
  <2>6. \A i \in 1..k : IsPacketOf(packets[i], c, Waiting(c)[i]) /\ packets[i].key = keys[i]
    BY DEF Packet, IsPacketOf
  <2>7. Hands(packets)
    BY <2>2, ReportHands
  <2>8. k > 0 /\ ~c.started => packets[1].key
    <3> SUFFICES ASSUME k > 0, ~c.started
                 PROVE  packets[1].key
      OBVIOUS
    <3>1. 1 \in 1..k
      BY <2>5
    <3> HIDE DEF packets
    <3> QED
      BY <2>2, <2>6, <3>1
  <2>9. context' = [w |-> c.w, h |-> c.h, params |-> c.params,
                    held |-> Left(c, k), started |-> c.started \/ k > 0, eos |-> c.eos]
    <3>1. c = [w |-> c.w, h |-> c.h, params |-> c.params,
               held |-> c.held, started |-> c.started, eos |-> c.eos]
      BY DEF Contexts
    <3> QED
      BY <2>2, <3>1
  <2> HIDE DEF packets
  <2>10. packets \in Seq(Packets') /\ Len(packets) = k
    <3>1. packets \in Seq(Packets')
      BY <2>5, SeqDef
    <3>2. DOMAIN packets = 1..Len(packets) /\ Len(packets) \in Nat
      BY <3>1, LenProperties
    <3> QED
      BY <2>5, <3>1, <3>2
  <2>11. Gives(c, k, packets)
    BY <2>2, <2>6, <2>8, <2>9, <2>10 DEF Gives
  <2> QED
    BY <2>5, <2>7, <2>10, <2>11
<1>6. CASE EncodeRefuses(c)
  <2>1. <<>> \in Seq(Packets')
    BY EmptySeq
  <2>2. Hands(<<>>)
    BY <1>6, ReportHands DEF EncodeRefuses
  <2>3. Refuses(c, <<>>)
    BY <1>6 DEF EncodeRefuses, Refuses
  <2> QED
    BY <2>1, <2>2, <2>3
<1> QED
  BY <1>5, <1>6 DEF EncodeInternal

LEMMA EncodeEffectBy ==
  ASSUME ConfigInv, NEW w \in Lengths, NEW h \in Lengths, Encode(w, h)
  PROVE  \E packets \in Seq(Packets') :
           /\ Hands(packets)
           /\ \/ HasNoContext(packets)
              \/ \E c \in Contexts :
                   /\ EncodesIn(c, packets)
                   /\ IF UpToDate(w, h) THEN Kept(c) ELSE Made(c)
<1>1. /\ Submit(w, h) /\ TypeOK /\ width' = w /\ height' = h
  BY DEF Encode, ConfigInv, Submit
<1>2. CASE UpToDate(w, h) /\ UNCHANGED <<params, setup, dropped>> /\ EncodeInternal(context)
  <2>1. /\ initialized /\ context \in Contexts
        /\ w = width /\ h = height /\ lastSetupMTime >= mtime
    BY <1>1, <1>2 DEF UpToDate, TypeOK
  <2>2. ~touched
    BY <2>1, <1>1 DEF ConfigInv, StaleIffTouched, TypeOK
  <2>3. context.w = w /\ context.h = h /\ context.params = params
    BY <2>1, <2>2 DEF ConfigInv, ContextIsCurrent
  <2>4. PICK packets \in Seq(Packets') :
          /\ Hands(packets)
          /\ Refuses(context, packets) \/ \E k \in Nat : Gives(context, k, packets)
    BY <1>1, <1>2, <2>1, <2>3, InternalEffect
  <2>5. initialized' = TRUE /\ Kept(context)
    BY <1>1, <1>2, <2>1 DEF setup, Kept, TypeOK
  <2>6. EncodesIn(context, packets)
    BY <1>1, <2>3, <2>4, <2>5 DEF EncodesIn
  <2> QED
    BY <1>2, <2>1, <2>4, <2>5, <2>6
<1>3. CASE /\ ~UpToDate(w, h) /\ DropHeld /\ SetupSucceeded
           /\ EncodeInternal(NewContext(w, h, params))
  <2> DEFINE c == NewContext(w, h, params)
  <2>1. initialized' = TRUE /\ params \in Params
    BY <1>1, <1>3, SetupTypes DEF TypeOK
  <2>2. c \in Contexts /\ c.w = w /\ c.h = h /\ c.params = params
    BY <2>1, NewContextType DEF NewContext
  <2>3. Made(c)
    BY <1>1, <1>3 DEF Made
  <2>4. EncodeInternal(c)
    BY <1>3
  <2> HIDE DEF c
  <2>5. PICK packets \in Seq(Packets') :
          /\ Hands(packets)
          /\ Refuses(c, packets) \/ \E k \in Nat : Gives(c, k, packets)
    BY <1>1, <2>2, <2>4, InternalEffect
  <2>6. EncodesIn(c, packets)
    BY <1>1, <2>1, <2>2, <2>3, <2>5 DEF EncodesIn
  <2> QED
    BY <1>3, <2>2, <2>3, <2>5, <2>6
<1>4. CASE DropHeld /\ SetupFails /\ ReportNoContext
  <2>1. <<>> \in Seq(Packets')
    BY EmptySeq
  <2>2. Hands(<<>>)
    BY <1>4, EmptyCallBackHands DEF ReportNoContext
  <2>3. HasNoContext(<<>>)
    BY <1>1, <1>4, SetupTypes DEF ReportNoContext, HasNoContext
  <2> QED
    BY <2>1, <2>2, <2>3
<1> QED
  BY <1>2, <1>3, <1>4 DEF Encode

LEMMA EncodeEffect ==
  ASSUME ConfigInv, NEW w \in Lengths, NEW h \in Lengths, Encode(w, h)
  PROVE  \E packets \in Seq(Packets') :
           /\ Hands(packets)
           /\ HasNoContext(packets) \/ \E c \in Contexts : EncodesIn(c, packets)
BY EncodeEffectBy
-----------------------------------------------------------------------------
(* The packets delivered, and those that the events of the top call are to
   deliver: while nobody calls Encode between two events, that is all there is
   on its way. *)
Coming == stream \o (IF calls = <<>> THEN <<>> ELSE calls[1].rest)

Ordered(s) == \A i, j \in DOMAIN s : i < j => s[i].frame < s[j].frame
Rising(f) == \A i, j \in DOMAIN f : i < j => f[i] < f[j]
Before(s, f) == \A i \in DOMAIN s, j \in DOMAIN f : s[i].frame < f[j]

SameConfig(p, q) == p.w = q.w /\ p.h = q.h /\ p.params = q.params
KeyFirst(s) == \A i \in DOMAIN s : i = 1 \/ ~SameConfig(s[i], s[i - 1]) => s[i].key
EndsIn(s, c) == s # <<>> /\ SameConfig(s[Len(s)], c)

(* The context may go on after the packets of s. *)
Follows(c, s) == Before(s, c.held) /\ (c.started => EndsIn(s, c))

(* A context holds frames in their order; unless Encode was called between two
   events, they are later than those of the packets on their way, which are in
   their order, and the last of which is of the context once that has given
   one. *)
OrderInv ==
  /\ initialized => Rising(context.held)
  /\ ~reentered =>
       /\ \A i \in DOMAIN calls : i > 1 => calls[i].rest = <<>>
       /\ Ordered(Coming)
       /\ KeyFirst(Coming)
       /\ initialized => Follows(context, Coming)

LEMMA SubSeqElement ==
  ASSUME NEW S, NEW s, NEW m \in Int, NEW n \in Int, \A i \in m..n : s[i] \in S,
         NEW i \in 1..(n - m + 1)
  PROVE  SubSeq(s, m, n)[i] = s[m + i - 1]
BY SubSeqProperties

LEMMA WaitingRises ==
  ASSUME NEW n \in Nat, NEW held \in Seq(1..n), Rising(held)
  PROVE  /\ Append(held, n + 1) \in Seq(1..(n + 1))
         /\ Len(Append(held, n + 1)) = Len(held) + 1
         /\ Len(held) \in Nat
         /\ \A i \in 1..Len(held) : Append(held, n + 1)[i] = held[i]
         /\ Append(held, n + 1)[Len(held) + 1] = n + 1
         /\ Rising(Append(held, n + 1))
<1> DEFINE waiting == Append(held, n + 1)
           m == Len(held)
<1>1. m \in Nat /\ DOMAIN held = 1..m /\ \A i \in 1..m : held[i] \in 1..n
  BY LenProperties, ElementOfSeq
<1>2. held \in Seq(1..(n + 1)) /\ n + 1 \in 1..(n + 1)
  <2>1. 1..n \subseteq 1..(n + 1)
    OBVIOUS
  <2> QED
    BY <2>1, SeqMonotonic
<1>3. /\ waiting \in Seq(1..(n + 1))
      /\ Len(waiting) = m + 1
      /\ \A i \in 1..m : waiting[i] = held[i]
      /\ waiting[m + 1] = n + 1
  BY <1>2, AppendProperties
<1> HIDE DEF waiting, m
<1>4. DOMAIN waiting = 1..(m + 1)
  BY <1>3, LenProperties
<1>5. Rising(waiting)
  <2> SUFFICES ASSUME NEW i \in 1..(m + 1), NEW j \in 1..(m + 1), i < j
               PROVE  waiting[i] < waiting[j]
    BY <1>4 DEF Rising
  <2>1. i \in 1..m /\ (j \in 1..m \/ j = m + 1)
    BY <1>1
  <2>2. CASE j \in 1..m
    BY <1>1, <1>3, <2>1, <2>2 DEF Rising
  <2>3. CASE j = m + 1
    BY <1>1, <1>3, <2>1, <2>3
  <2> QED
    BY <2>1, <2>2, <2>3
<1> QED
  BY <1>1, <1>3, <1>5 DEF waiting, m

(* What is left of rising frames when the first k are gone. *)
LEMMA LeftRises ==
  ASSUME NEW n \in Nat, NEW f \in Seq(1..n), Rising(f), NEW k \in 0..Len(f)
  PROVE  /\ SubSeq(f, k + 1, Len(f)) \in Seq(1..n)
         /\ Len(SubSeq(f, k + 1, Len(f))) = Len(f) - k
         /\ Len(f) \in Nat
         /\ \A i \in 1..(Len(f) - k) :
              k + i \in 1..Len(f) /\ SubSeq(f, k + 1, Len(f))[i] = f[k + i]
         /\ Rising(SubSeq(f, k + 1, Len(f)))
<1> DEFINE left == SubSeq(f, k + 1, Len(f))
           m == Len(f)
<1>1. m \in Nat /\ DOMAIN f = 1..m /\ \A i \in 1..m : f[i] \in 1..n
  BY LenProperties, ElementOfSeq
<1>2. k + 1 \in Int /\ m \in Int /\ k \in Nat /\ k <= m
  BY <1>1
<1>3. \A i \in (k + 1)..m : f[i] \in 1..n
  BY <1>1, <1>2
<1>4. left \in Seq(1..n)
  BY <1>2, <1>3, SubSeqProperties
<1>5. Len(left) = IF k + 1 <= m THEN m - (k + 1) + 1 ELSE 0
  BY <1>2, <1>3, SubSeqProperties
<1>6. ASSUME NEW i \in 1..(m - k)
      PROVE  k + i \in 1..m /\ left[i] = f[k + i]
  <2>1. i \in 1..(m - (k + 1) + 1) /\ (k + 1) + i - 1 = k + i /\ k + i \in 1..m
    BY <1>1, <1>2
  <2>2. left[i] = f[(k + 1) + i - 1]
    BY <1>2, <1>3, <2>1, SubSeqElement
  <2> QED
    BY <2>1, <2>2
<1> HIDE DEF left, m
<1>7. Len(left) = m - k
  BY <1>2, <1>5
<1>8. Rising(left)
  <2>1. DOMAIN left = 1..(m - k)
    BY <1>4, <1>7, LenProperties
  <2> SUFFICES ASSUME NEW i \in 1..(m - k), NEW j \in 1..(m - k), i < j
               PROVE  left[i] < left[j]
    BY <2>1 DEF Rising
  <2>2. /\ k + i \in 1..m /\ k + j \in 1..m
        /\ left[i] = f[k + i] /\ left[j] = f[k + j]
    BY <1>6
  <2>3. k + i < k + j
    BY <1>1, <1>2
  <2> QED
    BY <1>1, <2>2, <2>3 DEF Rising
<1> QED
  BY <1>1, <1>4, <1>6, <1>7, <1>8 DEF left, m

LEMMA OrderedConcat ==
  ASSUME NEW P, NEW s \in Seq(P), NEW t \in Seq(P), \A p \in P : p.frame \in Nat,
         Ordered(s), Ordered(t),
         \A i \in DOMAIN s, j \in DOMAIN t : s[i].frame < t[j].frame
  PROVE  Ordered(s \o t)
<1> DEFINE m == Len(s)
           n == Len(t)
           u == s \o t
<1>1. m \in Nat /\ n \in Nat /\ DOMAIN s = 1..m /\ DOMAIN t = 1..n
  BY LenProperties
<1>2. /\ u \in Seq(P) /\ Len(u) = m + n
      /\ \A i \in 1..(m + n) : u[i] = IF i <= m THEN s[i] ELSE t[i - m]
  BY ConcatProperties
<1> HIDE DEF m, n, u
<1>3. DOMAIN u = 1..(m + n)
  BY <1>2, LenProperties
<1> SUFFICES ASSUME NEW i \in 1..(m + n), NEW j \in 1..(m + n), i < j
             PROVE  u[i].frame < u[j].frame
  BY <1>3 DEF Ordered, u
<1>4. CASE j <= m
  <2>1. i \in 1..m /\ j \in 1..m /\ u[i] = s[i] /\ u[j] = s[j]
    BY <1>1, <1>2, <1>4
  <2> QED
    BY <1>1, <2>1 DEF Ordered
<1>5. CASE i <= m /\ ~(j <= m)
  <2>1. i \in 1..m /\ j - m \in 1..n /\ u[i] = s[i] /\ u[j] = t[j - m]
    BY <1>1, <1>2, <1>5
  <2> QED
    BY <1>1, <2>1
<1>6. CASE ~(i <= m)
  <2>1. /\ i - m \in 1..n /\ j - m \in 1..n /\ i - m < j - m
        /\ u[i] = t[i - m] /\ u[j] = t[j - m]
    BY <1>1, <1>2, <1>6
  <2> QED
    BY <1>1, <2>1 DEF Ordered
<1> QED
  BY <1>1, <1>4, <1>5, <1>6

LEMMA KeysConcat ==
  ASSUME NEW P, NEW s \in Seq(P), NEW t \in Seq(P), NEW c,
         KeyFirst(s), \A i \in DOMAIN t : SameConfig(t[i], c),
         t # <<>> => t[1].key \/ EndsIn(s, c)
  PROVE  /\ KeyFirst(s \o t)
         /\ t # <<>> => EndsIn(s \o t, c)
<1> DEFINE m == Len(s)
           n == Len(t)
           u == s \o t
<1>1. m \in Nat /\ n \in Nat /\ DOMAIN s = 1..m /\ DOMAIN t = 1..n
  BY LenProperties
<1>2. /\ u \in Seq(P) /\ Len(u) = m + n
      /\ \A i \in 1..(m + n) : u[i] = IF i <= m THEN s[i] ELSE t[i - m]
  BY ConcatProperties
<1>3. (t # <<>> => n # 0) /\ (s # <<>> => m # 0)
  BY EmptySeq
<1>4. (s = <<>> => m = 0) /\ (t = <<>> => n = 0)
  OBVIOUS
<1> HIDE DEF m, n, u
<1>5. DOMAIN u = 1..(m + n)
  BY <1>2, LenProperties
<1>6. ASSUME NEW i \in 1..(m + n), i = 1 \/ ~SameConfig(u[i], u[i - 1])
      PROVE  u[i].key
  <2>1. CASE i <= m
    <3>1. i \in 1..m /\ u[i] = s[i]
      BY <1>1, <1>2, <2>1
    <3>2. i # 1 => u[i - 1] = s[i - 1]
      <4> SUFFICES ASSUME i # 1
                   PROVE  u[i - 1] = s[i - 1]
        OBVIOUS
      <4>1. i - 1 \in 1..(m + n) /\ i - 1 <= m
        BY <1>1, <3>1
      <4> QED
        BY <1>2, <4>1
    <3> QED
      BY <1>1, <1>6, <3>1, <3>2 DEF KeyFirst
  <2>2. CASE i = m + 1
    <3>1. /\ i - m = 1 /\ 1 \in 1..n /\ t # <<>>
          /\ u[i] = t[i - m]
      BY <1>1, <1>2, <1>4, <2>2
    <3>2. u[i] = t[1] /\ SameConfig(t[1], c)
      BY <1>1, <3>1
    <3>3. CASE t[1].key
      BY <3>2, <3>3
    <3>4. CASE EndsIn(s, c)
      <4>1. m # 0 /\ SameConfig(s[m], c)
        BY <1>3, <3>4 DEF EndsIn, m
      <4>2. i - 1 = m /\ m \in 1..(m + n) /\ i # 1
        BY <1>1, <2>2, <4>1
      <4>3. u[i - 1] = s[m]
        BY <1>1, <1>2, <4>2
      <4>4. SameConfig(u[i], u[i - 1])
        BY <3>2, <4>1, <4>3 DEF SameConfig
      <4> QED
        BY <1>6, <4>2, <4>4
    <3> QED
      BY <3>1, <3>3, <3>4
  <2>3. CASE i > m + 1
    <3>1. /\ i - m \in 1..n /\ (i - 1) - m \in 1..n /\ i # 1
          /\ i - 1 \in 1..(m + n) /\ ~(i <= m) /\ ~(i - 1 <= m)
      BY <1>1, <2>3
    <3>2. u[i] = t[i - m] /\ u[i - 1] = t[(i - 1) - m]
      BY <1>2, <3>1
    <3>3. SameConfig(u[i], u[i - 1])
      BY <1>1, <3>1, <3>2 DEF SameConfig
    <3> QED
      BY <1>6, <3>1, <3>3
  <2> QED
    BY <1>1, <2>1, <2>2, <2>3
<1>7. KeyFirst(u)
  BY <1>5, <1>6 DEF KeyFirst
<1>8. ASSUME t # <<>>
      PROVE  EndsIn(u, c)
  <2>1. m + n \in 1..(m + n) /\ ~(m + n <= m) /\ (m + n) - m = n /\ n \in 1..n
    BY <1>1, <1>3, <1>8
  <2>2. u[m + n] = t[n]
    BY <1>2, <2>1
  <2>3. u # <<>>
    BY <1>5, <2>1
  <2> QED
    BY <1>1, <1>2, <2>1, <2>2, <2>3 DEF EndsIn
<1> QED
  BY <1>7, <1>8 DEF u

(* Types of the parts of a call that packets of the next state are in. *)
Events == [frame : Frames, rest : Seq(Packets)]

LEMMA EventsGrow ==
  ASSUME TypeOK, Len(submitted') = Len(submitted) + 1
  PROVE  /\ stream \in Seq(Packets')
         /\ calls \in Seq(Events')
         /\ NextFrame \in Frames'
         /\ Len(submitted) \in Nat
         /\ Frames = 1..Len(submitted)
         /\ Frames' = 1..(Len(submitted) + 1)
         /\ NextFrame = Len(submitted) + 1
BY HistoryGrows, LenProperties DEF TypeOK, Events, Frames, NextFrame

(* The packets of a result are on their way behind those delivered. *)
LEMMA HandsComing ==
  ASSUME TypeOK, Len(submitted') = Len(submitted) + 1,
         NEW packets \in Seq(Packets'), Hands(packets),
         \A i \in DOMAIN calls : calls[i].rest = <<>>
  PROVE  /\ Coming = stream
         /\ Coming' = stream \o packets
         /\ \A i \in DOMAIN calls' : i > 1 => calls'[i].rest = <<>>
<1>1. /\ stream \in Seq(Packets') /\ calls \in Seq(Events') /\ NextFrame \in Frames'
  BY EventsGrow
<1>2. Len(calls) \in Nat /\ DOMAIN calls = 1..Len(calls)
  BY <1>1, LenProperties
<1>3. Coming = stream
  <2>1. CASE calls = <<>>
    BY <1>1, <2>1, ConcatEmptySeq DEF Coming
  <2>2. CASE calls # <<>>
    <3>1. 1 \in DOMAIN calls
      BY <1>1, <1>2, <2>2, EmptySeq
    <3> QED
      BY <1>1, <2>2, <3>1, ConcatEmptySeq DEF Coming
  <2> QED
    BY <2>1, <2>2
<1>4. ASSUME NEW rest \in Seq(Packets'),
             calls' = <<[frame |-> NextFrame, rest |-> rest]>> \o calls
      PROVE  /\ Coming' = stream' \o rest
             /\ \A i \in DOMAIN calls' : i > 1 => calls'[i].rest = <<>>
  <2> DEFINE e == [frame |-> NextFrame, rest |-> rest]
  <2>1. e \in Events' /\ e.rest = rest
    BY <1>1 DEF Events
  <2> HIDE DEF e
  <2>2. calls' = <<e>> \o calls
    BY <1>4 DEF e
  <2>3. /\ DOMAIN calls' = 1..(Len(calls) + 1)
        /\ calls'[1] = e
        /\ \A i \in 1..Len(calls) : calls'[i + 1] = calls[i]
    BY <1>1, <2>1, <2>2, Pushed
  <2>4. calls' # <<>>
    BY <1>2, <2>3
  <2>5. Coming' = stream' \o rest
    BY <2>1, <2>3, <2>4 DEF Coming
  <2>6. ASSUME NEW i \in DOMAIN calls', i > 1
        PROVE  calls'[i].rest = <<>>
    <3>1. i - 1 \in 1..Len(calls) /\ (i - 1) + 1 = i
      BY <1>2, <2>3, <2>6
    <3> QED
      BY <1>2, <2>3, <3>1
  <2> QED
    BY <2>5, <2>6
<1>5. CASE /\ stream' = stream \o packets
           /\ calls' = <<[frame |-> NextFrame, rest |-> <<>>]>> \o calls
  <2>1. stream \o packets \in Seq(Packets') /\ <<>> \in Seq(Packets')
    BY <1>1, ConcatProperties, EmptySeq
  <2> QED
    BY <1>3, <1>4, <1>5, <2>1, ConcatEmptySeq
<1>6. CASE /\ packets # <<>>
           /\ stream' = stream \o <<Head(packets)>>
           /\ calls' = <<[frame |-> NextFrame, rest |-> Tail(packets)]>> \o calls
  <2>1. /\ Head(packets) \in Packets' /\ Tail(packets) \in Seq(Packets')
        /\ packets = <<Head(packets)>> \o Tail(packets)
    BY <1>6, Popped
  <2>2. <<Head(packets)>> \in Seq(Packets')
    BY <2>1
  <2>3. stream' \o Tail(packets) = stream \o (<<Head(packets)>> \o Tail(packets))
    BY <1>1, <1>6, <2>1, <2>2, ConcatAssociative
  <2> QED
    BY <1>3, <1>4, <1>6, <2>1, <2>3
<1>7. CASE packets = <<>> /\ UNCHANGED <<stream, calls>>
  <2>1. Coming' = Coming
    BY <1>7 DEF Coming
  <2> QED
    BY <1>1, <1>3, <1>7, <2>1, ConcatEmptySeq
<1> QED
  BY <1>3, <1>5, <1>6, <1>7 DEF Hands

(* A context that gives packets, and may go on after those of s, may go on
   after its own. *)
LEMMA GivesInOrder ==
  ASSUME TypeOK, Len(submitted') = Len(submitted) + 1,
         NEW c \in Contexts, Rising(c.held), NEW k \in Nat,
         NEW packets \in Seq(Packets'), Gives(c, k, packets)
  PROVE  /\ Rising(context'.held)
         /\ Before(stream, c.held) /\ Ordered(stream) =>
              Ordered(stream \o packets) /\ Before(stream \o packets, context'.held)
<1> DEFINE n == Len(submitted)
           f == Waiting(c)
           m == Len(c.held)
<1>1. /\ n \in Nat /\ Frames = 1..n /\ Frames' = 1..(n + 1) /\ NextFrame = n + 1
      /\ stream \in Seq(Packets')
  BY EventsGrow
<1>2. c.held \in Seq(1..n)
  BY <1>1 DEF Contexts
<1>3. f = Append(c.held, n + 1)
  BY <1>1 DEF Waiting
<1> HIDE DEF n, f
<1>4. /\ f \in Seq(1..(n + 1))
      /\ Len(f) = m + 1
      /\ m \in Nat
      /\ \A i \in 1..m : f[i] = c.held[i]
      /\ f[m + 1] = n + 1
      /\ Rising(f)
  BY <1>1, <1>2, <1>3, WaitingRises
<1>5. /\ k \in 0..Len(f) /\ Len(packets) = k
      /\ \A i \in 1..k : packets[i].frame = f[i]
      /\ context'.held = SubSeq(f, k + 1, Len(f))
  BY DEF Gives, IsPacketOf, Left, f
<1> DEFINE left == SubSeq(f, k + 1, Len(f))
<1>6. /\ left \in Seq(1..(n + 1))
      /\ Len(left) = Len(f) - k
      /\ \A i \in 1..(Len(f) - k) : k + i \in 1..Len(f) /\ left[i] = f[k + i]
      /\ Rising(left)
  <2>1. n + 1 \in Nat
    BY <1>1
  <2> QED
    BY <1>4, <1>5, <2>1, LeftRises
<1> HIDE DEF left, m
<1>7. Rising(context'.held)
  BY <1>5, <1>6 DEF left
<1>8. /\ DOMAIN f = 1..(m + 1) /\ DOMAIN packets = 1..k /\ DOMAIN left = 1..((m + 1) - k)
      /\ k \in 0..(m + 1)
      /\ DOMAIN c.held = 1..m
  BY <1>2, <1>4, <1>5, <1>6, LenProperties DEF m
<1>9. \A i \in DOMAIN stream : stream[i].frame \in 1..n
  <2>1. stream \in Seq(Packets) /\ \A p \in Packets : p.frame \in 1..n
    BY <1>1 DEF TypeOK, Packets
  <2> QED
    BY <2>1, ElementsOfSeq
<1>10. ASSUME Before(stream, c.held)
       PROVE  \A i \in DOMAIN stream, j \in 1..(m + 1) : stream[i].frame < f[j]
  <2> TAKE i \in DOMAIN stream, j \in 1..(m + 1)
  <2>1. j \in 1..m \/ j = m + 1
    BY <1>4 DEF m
  <2>2. CASE j \in 1..m
    BY <1>4, <1>8, <1>10, <2>2 DEF Before, m
  <2>3. CASE j = m + 1
    BY <1>1, <1>4, <1>9, <2>3 DEF m
  <2> QED
    BY <2>1, <2>2, <2>3
<1>11. Ordered(packets)
  <2> SUFFICES ASSUME NEW i \in 1..k, NEW j \in 1..k, i < j
               PROVE  packets[i].frame < packets[j].frame
    BY <1>8 DEF Ordered
  <2>1. i \in 1..(m + 1) /\ j \in 1..(m + 1)
    BY <1>4, <1>8 DEF m
  <2> QED
    BY <1>4, <1>5, <1>8, <2>1 DEF Rising
<1>12. \A p \in Packets' : p.frame \in Nat
  BY <1>1 DEF Packets
<1>13. ASSUME Before(stream, c.held), Ordered(stream)
       PROVE  Ordered(stream \o packets) /\ Before(stream \o packets, left)
  <2>1. \A i \in DOMAIN stream, j \in DOMAIN packets : stream[i].frame < packets[j].frame
    <3> TAKE i \in DOMAIN stream, j \in DOMAIN packets
    <3>1. j \in 1..(m + 1) /\ j \in 1..k
      BY <1>4, <1>8 DEF m
    <3> QED
      BY <1>5, <1>10, <1>13, <3>1
  <2>2. Ordered(stream \o packets)
    BY <1>1, <1>11, <1>12, <1>13, <2>1, OrderedConcat
  <2> DEFINE u == stream \o packets
             l == Len(stream)
  <2>3. /\ u \in Seq(Packets') /\ Len(u) = l + k
        /\ \A i \in 1..(l + k) : u[i] = IF i <= l THEN stream[i] ELSE packets[i - l]
    BY <1>1, <1>5, ConcatProperties
  <2>4. l \in Nat /\ DOMAIN stream = 1..l
    BY <1>1, LenProperties
  <2> HIDE DEF u, l
  <2>5. DOMAIN u = 1..(l + k)
    BY <2>3, LenProperties
  <2>6. ASSUME NEW i \in 1..(l + k), NEW j \in 1..((m + 1) - k)
        PROVE  u[i].frame < left[j]
    <3>1. k + j \in 1..(m + 1) /\ left[j] = f[k + j]
      BY <1>4, <1>6 DEF m
    <3>2. CASE i <= l
      <4>1. i \in 1..l /\ u[i] = stream[i]
        BY <2>3, <2>4, <3>2
      <4> QED
        BY <1>10, <1>13, <2>4, <3>1, <4>1
    <3>3. CASE ~(i <= l)
      <4>1. i - l \in 1..k /\ u[i] = packets[i - l]
        BY <2>3, <2>4, <3>3
      <4>2. i - l \in 1..(m + 1) /\ i - l < k + j
        BY <1>4, <1>8, <2>4, <4>1 DEF m
      <4> QED
        BY <1>4, <1>5, <1>8, <3>1, <4>1, <4>2 DEF Rising
    <3> QED
      BY <3>2, <3>3
  <2>7. Before(u, left)
    BY <1>8, <2>5, <2>6 DEF Before
  <2> QED
    BY <2>2, <2>7 DEF u
<1> QED
  BY <1>5, <1>7, <1>13 DEF left

LEMMA GivesWithKeys ==
  ASSUME TypeOK, Len(submitted') = Len(submitted) + 1,
         NEW c \in Contexts, c.w = width', c.h = height', NEW k \in Nat,
         NEW packets \in Seq(Packets'), Gives(c, k, packets),
         KeyFirst(stream), c.started => EndsIn(stream, c)
  PROVE  /\ KeyFirst(stream \o packets)
         /\ context'.started => EndsIn(stream \o packets, context')
<1>1. stream \in Seq(Packets')
  BY EventsGrow
<1>2. /\ Len(packets) = k
      /\ \A i \in 1..k : IsPacketOf(packets[i], c, Waiting(c)[i])
      /\ k > 0 /\ ~c.started => packets[1].key
      /\ context'.w = c.w /\ context'.h = c.h /\ context'.params = c.params
      /\ context'.started = (c.started \/ k > 0)
  BY DEF Gives
<1>3. DOMAIN packets = 1..k
  BY <1>2, LenProperties
<1>4. \A i \in DOMAIN packets : SameConfig(packets[i], c)
  BY <1>2, <1>3 DEF IsPacketOf, SameConfig
<1>5. packets # <<>> => k # 0
  BY <1>2, EmptySeq
<1>6. packets # <<>> => packets[1].key \/ EndsIn(stream, c)
  BY <1>2, <1>5
<1>7. /\ KeyFirst(stream \o packets)
      /\ packets # <<>> => EndsIn(stream \o packets, c)
  BY <1>1, <1>4, <1>6, KeysConcat
<1>8. packets = <<>> => stream \o packets = stream
  BY <1>1, ConcatEmptySeq
<1>9. packets = <<>> => k = 0
  BY <1>2
<1>10. ASSUME context'.started
       PROVE  EndsIn(stream \o packets, c)
  <2>1. CASE packets = <<>>
    <3>1. c.started
      <4>1. ~(k > 0)
        BY <1>9, <2>1
      <4>2. c.started \/ k > 0
        BY <1>2, <1>10, Zenon
      <4> QED
        BY <4>1, <4>2
    <3> QED
      BY <1>8, <2>1, <3>1
  <2>2. CASE packets # <<>>
    BY <1>7, <2>2
  <2> QED
    BY <2>1, <2>2
<1> QED
  BY <1>2, <1>7, <1>10 DEF EndsIn, SameConfig

(* Every step keeps the order. *)
LEMMA EncodeOrders ==
  ASSUME ConfigInv, OrderInv, NEW w \in Lengths, NEW h \in Lengths, Encode(w, h)
  PROVE  OrderInv'
<1>1. /\ TypeOK /\ Submit(w, h)
      /\ Len(submitted') = Len(submitted) + 1
  BY SubmitGrows DEF ConfigInv, Encode
<1>2. PICK packets \in Seq(Packets') :
        /\ Hands(packets)
        /\ HasNoContext(packets) \/ \E c \in Contexts : EncodesIn(c, packets)
  BY EncodeEffect
<1>3. stream \in Seq(Packets')
  BY <1>1, EventsGrow
<1>4. ~reentered' => ~reentered /\ \A i \in DOMAIN calls : calls[i].rest = <<>>
  BY <1>1 DEF Submit
<1>5. ASSUME ~reentered'
      PROVE  /\ Coming = stream /\ Coming' = stream \o packets
             /\ \A i \in DOMAIN calls' : i > 1 => calls'[i].rest = <<>>
             /\ Ordered(stream) /\ KeyFirst(stream)
             /\ initialized => Follows(context, stream)
  <2>1. /\ Coming = stream /\ Coming' = stream \o packets
        /\ \A i \in DOMAIN calls' : i > 1 => calls'[i].rest = <<>>
    BY <1>1, <1>2, <1>4, <1>5, HandsComing
  <2> QED
    BY <1>4, <1>5, <2>1 DEF OrderInv
<1>6. CASE HasNoContext(packets)
  <2>1. packets = <<>> /\ initialized' = FALSE
    BY <1>6 DEF HasNoContext
  <2>2. ~reentered' => Coming' = stream
    BY <1>3, <1>5, <2>1, ConcatEmptySeq
  <2> QED
    BY <1>5, <2>1, <2>2 DEF OrderInv
<1>7. ASSUME NEW c \in Contexts, EncodesIn(c, packets)
      PROVE  OrderInv'
  <2>1. /\ Kept(c) \/ Made(c)
        /\ initialized' = TRUE
        /\ c.w = width' /\ c.h = height'
        /\ Refuses(c, packets) \/ \E k \in Nat : Gives(c, k, packets)
    BY <1>7 DEF EncodesIn
  <2>2. Rising(c.held) /\ (~reentered' => Follows(c, stream))
    <3>1. CASE Kept(c)
      BY <1>5, <3>1 DEF Kept, OrderInv
    <3>2. CASE Made(c)
      <4>1. c.held = <<>> /\ c.started = FALSE
        BY <3>2 DEF Made, NewContext
      <4> QED
        BY <4>1 DEF Rising, Follows, Before
    <3> QED
      BY <2>1, <3>1, <3>2
  <2>3. CASE Refuses(c, packets)
    <3>1. packets = <<>> /\ context' = c
      BY <2>3 DEF Refuses
    <3>2. ~reentered' => Coming' = stream
      BY <1>3, <1>5, <3>1, ConcatEmptySeq
    <3> QED
      BY <1>5, <2>2, <3>1, <3>2 DEF OrderInv
  <2>4. ASSUME NEW k \in Nat, Gives(c, k, packets)
        PROVE  OrderInv'
    <3>1. /\ Rising(context'.held)
          /\ Before(stream, c.held) /\ Ordered(stream) =>
               Ordered(stream \o packets) /\ Before(stream \o packets, context'.held)
      BY <1>1, <2>2, <2>4, GivesInOrder
    <3>2. ASSUME ~reentered'
          PROVE  /\ KeyFirst(stream \o packets)
                 /\ context'.started => EndsIn(stream \o packets, context')
      <4>1. KeyFirst(stream) /\ (c.started => EndsIn(stream, c))
        BY <1>5, <2>2, <3>2 DEF Follows
      <4> QED
        BY <1>1, <2>1, <2>4, <4>1, GivesWithKeys
    <3>3. ~reentered' => Before(stream, c.held) /\ Ordered(stream)
      BY <1>5, <2>2 DEF Follows
    <3> QED
      BY <1>5, <3>1, <3>2, <3>3 DEF OrderInv, Follows
  <2> QED
    BY <2>1, <2>3, <2>4
<1> QED
  BY <1>2, <1>6, <1>7

(* An event hands over the packet that comes first. *)
LEMMA CallBackReturnsComing ==
  ASSUME TypeOK, CallBackReturns,
         \A i \in DOMAIN calls : i > 1 => calls[i].rest = <<>>
  PROVE  /\ Coming' = Coming
         /\ \A i \in DOMAIN calls' : i > 1 => calls'[i].rest = <<>>
<1> DEFINE top == Head(calls)
           rest == Tail(calls)
<1>1. calls \in Seq(Events) /\ calls # <<>> /\ stream \in Seq(Packets)
  BY DEF TypeOK, Events, CallBackReturns
<1>2. /\ top \in Events /\ rest \in Seq(Events) /\ top = calls[1]
      /\ calls = <<top>> \o rest
  BY <1>1, Popped, EmptySeq
<1>3. top.frame \in Frames /\ top.rest \in Seq(Packets)
  BY <1>2 DEF Events
<1>4. CASE top.rest = <<>> /\ calls' = rest /\ UNCHANGED <<reports, stream>>
  <2> HIDE DEF top, rest
  <2>1. /\ DOMAIN rest = 1..Len(rest) /\ Len(rest) \in Nat
        /\ DOMAIN calls = 1..(Len(rest) + 1)
        /\ \A i \in 1..Len(rest) : calls[i + 1] = rest[i]
    BY <1>2, Pushed
  <2>2. \A i \in DOMAIN rest : rest[i].rest = <<>>
    <3> TAKE i \in DOMAIN rest
    <3>1. i + 1 \in DOMAIN calls /\ i + 1 > 1
      BY <2>1
    <3> QED
      BY <2>1, <3>1
  <2>3. Coming = stream
    BY <1>1, <1>2, <1>4, ConcatEmptySeq DEF Coming
  <2>4. Coming' = stream
    <3>1. CASE rest = <<>>
      BY <1>1, <1>4, <3>1, ConcatEmptySeq DEF Coming
    <3>2. CASE rest # <<>>
      <4>1. 1 \in DOMAIN rest
        BY <1>2, <2>1, <3>2, EmptySeq
      <4> QED
        BY <1>1, <1>4, <2>2, <3>2, <4>1, ConcatEmptySeq DEF Coming
    <3> QED
      BY <3>1, <3>2
  <2> QED
    BY <1>4, <2>2, <2>3, <2>4
<1>5. CASE /\ top.rest # <<>>
           /\ stream' = Append(stream, Head(top.rest))
           /\ calls' = <<[top EXCEPT !.rest = Tail(@)]>> \o rest
  <2> DEFINE e == [top EXCEPT !.rest = Tail(@)]
  <2>1. /\ Head(top.rest) \in Packets /\ Tail(top.rest) \in Seq(Packets)
        /\ top.rest = <<Head(top.rest)>> \o Tail(top.rest)
    BY <1>3, <1>5, Popped
  <2>2. e \in Events /\ e.rest = Tail(top.rest)
    BY <1>2, <2>1 DEF Events
  <2>3. calls' = <<e>> \o rest
    BY <1>5
  <2> HIDE DEF top, rest, e
  <2>4. /\ DOMAIN rest = 1..Len(rest) /\ Len(rest) \in Nat
        /\ DOMAIN calls = 1..(Len(rest) + 1)
        /\ \A i \in 1..Len(rest) : calls[i + 1] = rest[i]
    BY <1>2, Pushed
  <2>5. /\ DOMAIN calls' = 1..(Len(rest) + 1)
        /\ calls'[1] = e
        /\ \A i \in 1..Len(rest) : calls'[i + 1] = rest[i]
    BY <1>2, <2>2, <2>3, Pushed
  <2>6. calls' # <<>>
    BY <2>4, <2>5
  <2>7. Coming = stream \o top.rest
    BY <1>1, <1>2 DEF Coming
  <2>8. Coming' = stream' \o Tail(top.rest)
    BY <2>2, <2>5, <2>6 DEF Coming
  <2>9. stream' = stream \o <<Head(top.rest)>>
    BY <1>1, <1>5, <2>1, AppendIsConcat
  <2>10. <<Head(top.rest)>> \in Seq(Packets)
    BY <2>1
  <2>11. Coming' = Coming
    <3> DEFINE one == <<Head(top.rest)>>
               more == Tail(top.rest)
    <3>1. one \in Seq(Packets) /\ more \in Seq(Packets) /\ top.rest = one \o more
      BY <2>1, <2>10
    <3>2. Coming' = (stream \o one) \o more
      BY <2>8, <2>9
    <3> HIDE DEF one, more
    <3>3. (stream \o one) \o more = stream \o (one \o more)
      BY <1>1, <3>1, ConcatAssociative
    <3> QED
      BY <2>7, <3>1, <3>2, <3>3
  <2>12. ASSUME NEW i \in DOMAIN calls', i > 1
         PROVE  calls'[i].rest = <<>>
    <3>1. i - 1 \in 1..Len(rest) /\ (i - 1) + 1 = i /\ i \in DOMAIN calls
      BY <2>4, <2>5, <2>12
    <3> QED
      BY <2>4, <2>5, <2>12, <3>1
  <2> QED
    BY <2>11, <2>12
<1> QED
  BY <1>4, <1>5 DEF CallBackReturns

LEMMA NextOrders ==
  ASSUME ConfigInv, OrderInv, [Next]_vars
  PROVE  OrderInv'
<1>1. ASSUME UNCHANGED output,
             initialized' => /\ Rising(context'.held)
                             /\ ~reentered => Follows(context', Coming)
      PROVE  OrderInv'
  <2>1. UNCHANGED <<calls, stream, reentered>> /\ Coming' = Coming
    BY <1>1 DEF output, Coming
  <2> QED
    BY <1>1, <2>1 DEF OrderInv
<1>2. CASE Setter /\ UNCHANGED <<context, dropped>>
  <2>1. UNCHANGED <<initialized, context, output>>
    BY <1>2 DEF Setter, SetWidth, SetHeight, SetParams, SetForceIFrame, SetOutputHandler, setup
  <2> QED
    BY <1>1, <2>1 DEF OrderInv
<1>3. CASE Initialize
  <2>1. UNCHANGED output
    BY <1>3 DEF Initialize
  <2>2. CASE context' = NewContext(width, height, params)
    <3>1. context'.held = <<>> /\ context'.started = FALSE
      BY <2>2 DEF NewContext
    <3> QED
      BY <1>1, <2>1, <3>1 DEF Rising, Follows, Before
  <2>3. CASE SetupFails
    BY <1>1, <2>1, <2>3 DEF SetupFails, SetupFailed
  <2> QED
    BY <1>3, <2>2, <2>3 DEF Initialize
<1>4. CASE Drain
  <2>1. /\ UNCHANGED output
        /\ initialized /\ context \in Contexts
        /\ context' = [context EXCEPT !.held = <<>>, !.eos = TRUE]
    BY <1>4 DEF Drain, baseVars, ConfigInv, TypeOK
  <2>2. /\ context'.held = <<>> /\ context'.started = context.started
        /\ context'.w = context.w /\ context'.h = context.h
        /\ context'.params = context.params
    BY <2>1 DEF Contexts
  <2> QED
    BY <1>1, <2>1, <2>2 DEF OrderInv, Rising, Follows, Before, EndsIn, SameConfig
<1>5. CASE Shutdown
  BY <1>1, <1>5 DEF Shutdown
<1>6. ASSUME NEW w \in Lengths, NEW h \in Lengths, Encode(w, h)
      PROVE  OrderInv'
  BY <1>6, EncodeOrders
<1>7. CASE CallBackReturns /\ UNCHANGED <<context, dropped>>
  <2>1. UNCHANGED <<initialized, reentered, context>>
    BY <1>7 DEF CallBackReturns, setup
  <2>2. ~reentered =>
          /\ Coming' = Coming
          /\ \A i \in DOMAIN calls' : i > 1 => calls'[i].rest = <<>>
    BY <1>7, CallBackReturnsComing DEF ConfigInv, OrderInv
  <2> QED
    BY <2>1, <2>2 DEF OrderInv
<1>8. CASE UNCHANGED vars
  <2>1. UNCHANGED <<initialized, context, output>>
    BY <1>8 DEF vars, baseVars, setup
  <2> QED
    BY <1>1, <2>1 DEF OrderInv
<1> QED
  BY <1>2, <1>3, <1>4, <1>5, <1>6, <1>7, <1>8 DEF Next

LEMMA OrderInvariant == Spec => []OrderInv
<1>1. Init => OrderInv
  <2> SUFFICES ASSUME Init
               PROVE  OrderInv
    OBVIOUS
  <2>1. initialized = FALSE /\ calls = <<>> /\ stream = <<>>
    BY DEF Init, BaseInit
  <2>2. Coming = <<>>
    BY <2>1, EmptySeq, ConcatEmptySeq DEF Coming
  <2> QED
    BY <2>1, <2>2 DEF OrderInv, Ordered, KeyFirst
<1>2. ConfigInv /\ OrderInv /\ [Next]_vars => OrderInv'
  BY NextOrders
<1> QED
  BY <1>1, <1>2, ConfigInvariant, PTL DEF Spec

(* The packets delivered are the first of those coming. *)
LEMMA StreamIsComing ==
  ASSUME TypeOK
  PROVE  /\ DOMAIN stream \subseteq DOMAIN Coming
         /\ \A i \in DOMAIN stream : Coming[i] = stream[i]
         /\ \A i \in DOMAIN stream : i # 1 => i - 1 \in DOMAIN stream
<1> DEFINE rest == IF calls = <<>> THEN <<>> ELSE calls[1].rest
<1>1. stream \in Seq(Packets) /\ rest \in Seq(Packets)
  <2>1. CASE calls = <<>>
    BY <2>1, EmptySeq DEF TypeOK
  <2>2. CASE calls # <<>>
    <3>1. calls \in Seq(Events)
      BY DEF TypeOK, Events
    <3>2. calls[1] \in Events
      BY <2>2, <3>1, EmptySeq, ElementOfSeq
    <3> QED
      BY <2>2, <3>2 DEF Events, TypeOK
  <2> QED
    BY <2>1, <2>2
<1> HIDE DEF rest
<1>2. /\ stream \o rest \in Seq(Packets)
      /\ Len(stream \o rest) = Len(stream) + Len(rest)
      /\ \A i \in 1..(Len(stream) + Len(rest)) :
           (stream \o rest)[i] = IF i <= Len(stream) THEN stream[i] ELSE rest[i - Len(stream)]
  BY <1>1, ConcatProperties
<1>3. /\ Len(stream) \in Nat /\ Len(rest) \in Nat /\ DOMAIN stream = 1..Len(stream)
      /\ DOMAIN (stream \o rest) = 1..(Len(stream) + Len(rest))
  BY <1>1, <1>2, LenProperties
<1>4. Coming = stream \o rest
  BY DEF Coming, rest
<1> QED
  BY <1>2, <1>3, <1>4

(* As long as the application does not call Encode between two events of one
   result, packets reach it in the order of their frames, also of frames that
   the subclass held over several calls. *)
THEOREM AlwaysDeliveredInOrder == Spec => []DeliveredInOrder
<1>1. TypeOK /\ OrderInv => DeliveredInOrder
  BY StreamIsComing DEF OrderInv, Ordered, DeliveredInOrder
<1> QED
  BY <1>1, OrderInvariant, TypeCorrect, PTL

(* And a packet whose configuration is not that of the packet before it is a
   key frame: whichever way a context was replaced. *)
THEOREM AlwaysKeyFirst == Spec => []NewConfigurationStartsWithKey
<1>1. ASSUME TypeOK, OrderInv, ~reentered, NEW i \in DOMAIN stream,
             \/ i = 1
             \/ ~SameConfig(stream[i], stream[i - 1])
      PROVE  stream[i].key
  <2>1. /\ i \in DOMAIN Coming /\ Coming[i] = stream[i]
        /\ i # 1 => Coming[i - 1] = stream[i - 1]
    BY <1>1, StreamIsComing
  <2> QED
    BY <1>1, <2>1 DEF OrderInv, KeyFirst
<1>2. TypeOK /\ OrderInv => NewConfigurationStartsWithKey
  BY <1>1 DEF NewConfigurationStartsWithKey, SameConfig
<1> QED
  BY <1>2, OrderInvariant, TypeCorrect, PTL
-----------------------------------------------------------------------------
(* A call made for a handler has no events to come: what is reported late is
   never of its frame. *)
EventsAreForObservers ==
  \A i \in DOMAIN calls : calls[i].rest # <<>> => ~submitted[calls[i].frame].toHandler

ReportInv == OneReportPerFrame /\ EventsAreForObservers

ReportedOnce(f, rs) ==
  \E i \in DOMAIN rs :
    /\ rs[i].frame = f
    /\ \A j \in DOMAIN rs : rs[j].frame >= f /\ j # i => i < j /\ rs[j].frame > f

ReportOf(n) == [frame : 1..n, status : {"Success", "Error"}]

LEMMA LaterReport ==
  ASSUME NEW n \in Nat, NEW rs \in Seq(ReportOf(n)), NEW r \in ReportOf(n),
         NEW f \in 1..n, r.frame # f, ReportedOnce(f, rs)
  PROVE  ReportedOnce(f, Append(rs, r))
<1> DEFINE m == Len(rs)
           qs == Append(rs, r)
<1>1. m \in Nat /\ DOMAIN rs = 1..m
  BY LenProperties
<1>2. /\ qs \in Seq(ReportOf(n)) /\ Len(qs) = m + 1
      /\ \A i \in 1..m : qs[i] = rs[i]
      /\ qs[m + 1] = r
  BY AppendProperties
<1> HIDE DEF m, qs
<1>3. DOMAIN qs = 1..(m + 1)
  BY <1>2, LenProperties
<1>4. PICK i \in 1..m :
        /\ rs[i].frame = f
        /\ \A j \in 1..m : rs[j].frame >= f /\ j # i => i < j /\ rs[j].frame > f
  BY <1>1 DEF ReportedOnce
<1>5. r.frame \in 1..n
  BY DEF ReportOf
<1>6. ASSUME NEW j \in 1..(m + 1), qs[j].frame >= f, j # i
      PROVE  i < j /\ qs[j].frame > f
  <2>1. CASE j \in 1..m
    BY <1>2, <1>4, <1>6, <2>1
  <2>2. CASE j = m + 1
    BY <1>1, <1>2, <1>5, <1>6, <2>2
  <2>3. j \in 1..m \/ j = m + 1
    BY <1>1
  <2> QED
    BY <2>1, <2>2, <2>3
<1>7. i \in 1..(m + 1) /\ qs[i].frame = f
  BY <1>1, <1>2, <1>4
<1>8. ReportedOnce(f, qs)
  BY <1>3, <1>6, <1>7 DEF ReportedOnce
<1> QED
  BY <1>8 DEF qs

LEMMA FirstReport ==
  ASSUME NEW n \in Nat, NEW rs \in Seq(ReportOf(n)), NEW r, r.frame = n + 1,
         r \in ReportOf(n + 1)
  PROVE  ReportedOnce(n + 1, Append(rs, r))
<1> DEFINE m == Len(rs)
           qs == Append(rs, r)
<1>1. m \in Nat /\ DOMAIN rs = 1..m /\ \A i \in 1..m : rs[i].frame \in 1..n
  <2>1. m \in Nat /\ DOMAIN rs = 1..m /\ \A i \in 1..m : rs[i] \in ReportOf(n)
    BY LenProperties, ElementOfSeq
  <2> QED
    BY <2>1 DEF ReportOf
<1>2. rs \in Seq(ReportOf(n + 1))
  <2>1. ReportOf(n) \subseteq ReportOf(n + 1)
    BY DEF ReportOf
  <2> QED
    BY <2>1, SeqMonotonic
<1>3. /\ qs \in Seq(ReportOf(n + 1)) /\ Len(qs) = m + 1
      /\ \A i \in 1..m : qs[i] = rs[i]
      /\ qs[m + 1] = r
  BY <1>2, AppendProperties
<1> HIDE DEF m, qs
<1>4. DOMAIN qs = 1..(m + 1)
  BY <1>3, LenProperties
<1>5. ASSUME NEW j \in 1..(m + 1), j # m + 1
      PROVE  ~(qs[j].frame >= n + 1)
  <2>1. j \in 1..m
    BY <1>1, <1>5
  <2> QED
    BY <1>1, <1>3, <2>1
<1>6. m + 1 \in 1..(m + 1)
  BY <1>1
<1>7. ReportedOnce(n + 1, qs)
  BY <1>3, <1>4, <1>5, <1>6 DEF ReportedOnce
<1> QED
  BY <1>7 DEF qs

LEMMA EncodeReports ==
  ASSUME ConfigInv, ReportInv, NEW w \in Lengths, NEW h \in Lengths, Encode(w, h)
  PROVE  ReportInv'
<1> DEFINE n == Len(submitted)
<1>1. /\ TypeOK /\ Submit(w, h)
      /\ Len(submitted') = n + 1
      /\ \A f \in Frames : submitted'[f] = submitted[f]
  BY SubmitGrows DEF ConfigInv, Encode
<1>2. /\ n \in Nat /\ Frames = 1..n /\ Frames' = 1..(n + 1) /\ NextFrame = n + 1
      /\ calls \in Seq(Events') /\ NextFrame \in Frames'
  BY <1>1, EventsGrow
<1>3. submitted'[n + 1].toHandler = handlerSet
  <2> DEFINE r == [w |-> w, h |-> h, params |-> params,
                   forced |-> forceIFrame, toHandler |-> handlerSet]
  <2>1. r \in [w : Lengths, h : Lengths, params : Params,
               forced : BOOLEAN, toHandler : BOOLEAN]
    BY <1>1 DEF TypeOK
  <2>2. submitted' = Append(submitted, r)
    BY <1>1 DEF Submit
  <2>3. submitted'[n + 1] = r
    BY <1>1, <2>1, <2>2, AppendProperties DEF TypeOK
  <2> QED
    BY <2>3
<1>4. PICK packets \in Seq(Packets') : Hands(packets)
  BY EncodeEffect
<1>5. reports \in Seq(ReportOf(n))
  BY <1>1, <1>2 DEF TypeOK, ReportOf
<1>6. calls \in Seq(Events)
  BY <1>1 DEF TypeOK, Events
<1> HIDE DEF n
<1>7. OneReportPerFrame'
  <2> SUFFICES ASSUME NEW f \in 1..(n + 1), submitted'[f].toHandler
               PROVE  ReportedOnce(f, reports')
    BY <1>2 DEF OneReportPerFrame, ReportedOnce
  <2>1. ASSUME f \in 1..n
        PROVE  ReportedOnce(f, reports)
    BY <1>1, <1>2, <2>1 DEF ReportInv, OneReportPerFrame, ReportedOnce
  <2>2. CASE Reports
    <3>1. PICK status \in {"Success", "Error"} :
            reports' = Append(reports, [frame |-> n + 1, status |-> status])
      BY <1>2, <2>2 DEF Reports
    <3> DEFINE r == [frame |-> n + 1, status |-> status]
    <3>2. r.frame = n + 1 /\ r \in ReportOf(n + 1) /\ n + 1 \in Nat
      BY <1>2 DEF ReportOf
    <3>3. reports' = Append(reports, r)
      BY <3>1
    <3> HIDE DEF r
    <3>4. CASE f = n + 1
      BY <1>2, <1>5, <3>2, <3>3, <3>4, FirstReport
    <3>5. CASE f # n + 1
      <4>1. f \in 1..n
        BY <1>2, <3>5
      <4>2. reports \in Seq(ReportOf(n + 1))
        <5>1. ReportOf(n) \subseteq ReportOf(n + 1)
          BY <1>2 DEF ReportOf
        <5> QED
          BY <1>5, <5>1, SeqMonotonic
      <4> QED
        BY <2>1, <3>2, <3>3, <3>5, <4>1, <4>2, LaterReport
    <3> QED
      BY <3>4, <3>5
  <2>3. CASE ~handlerSet /\ UNCHANGED reports
    <3>1. f # n + 1
      BY <1>3, <2>3
    <3>2. f \in 1..n
      BY <1>2, <3>1
    <3> QED
      BY <2>1, <2>3, <3>2
  <2> QED
    BY <1>4, <2>2, <2>3 DEF Hands
<1>8. EventsAreForObservers'
  <2>1. /\ DOMAIN calls = 1..Len(calls) /\ Len(calls) \in Nat
        /\ \A i \in DOMAIN calls : calls[i].frame \in Frames
    <3>1. /\ DOMAIN calls = 1..Len(calls) /\ Len(calls) \in Nat
          /\ \A i \in DOMAIN calls : calls[i] \in Events
      BY <1>6, LenProperties, ElementsOfSeq
    <3> QED
      BY <3>1 DEF Events
  <2>2. \A i \in DOMAIN calls : calls[i].rest # <<>> => ~submitted'[calls[i].frame].toHandler
    BY <1>1, <2>1 DEF ReportInv, EventsAreForObservers
  <2>3. ASSUME NEW rest \in Seq(Packets'),
               calls' = <<[frame |-> NextFrame, rest |-> rest]>> \o calls,
               rest # <<>> => ~handlerSet
        PROVE  EventsAreForObservers'
    <3> DEFINE e == [frame |-> NextFrame, rest |-> rest]
    <3>1. e \in Events' /\ e.frame = n + 1 /\ e.rest = rest /\ calls' = <<e>> \o calls
      BY <1>2, <2>3 DEF Events
    <3> HIDE DEF e
    <3>2. /\ DOMAIN calls' = 1..(Len(calls) + 1)
          /\ calls'[1] = e
          /\ \A i \in 1..Len(calls) : calls'[i + 1] = calls[i]
      BY <1>2, <3>1, Pushed
    <3>3. ASSUME NEW i \in DOMAIN calls', calls'[i].rest # <<>>
          PROVE  ~submitted'[calls'[i].frame].toHandler
      <4>1. CASE i = 1
        BY <1>3, <2>3, <3>1, <3>2, <3>3, <4>1
      <4>2. CASE i # 1
        <5>1. i - 1 \in 1..Len(calls) /\ (i - 1) + 1 = i
          BY <2>1, <3>2, <4>2
        <5> QED
          BY <2>1, <2>2, <3>2, <3>3, <5>1
      <4> QED
        BY <4>1, <4>2
    <3> QED
      BY <3>3 DEF EventsAreForObservers
  <2>4. CASE calls' = <<[frame |-> NextFrame, rest |-> <<>>]>> \o calls
    BY <2>3, <2>4, EmptySeq
  <2>5. CASE /\ ~handlerSet /\ packets # <<>>
             /\ calls' = <<[frame |-> NextFrame, rest |-> Tail(packets)]>> \o calls
    BY <2>3, <2>5, Popped
  <2>6. CASE UNCHANGED calls
    BY <2>2, <2>6 DEF EventsAreForObservers
  <2> QED
    BY <1>4, <2>4, <2>5, <2>6 DEF Hands
<1> QED
  BY <1>7, <1>8 DEF ReportInv

LEMMA CallBackReturnsReports ==
  ASSUME TypeOK, ReportInv, CallBackReturns
  PROVE  ReportInv'
<1> DEFINE top == Head(calls)
           tail == Tail(calls)
           n == Len(submitted)
<1>1. calls \in Seq(Events) /\ calls # <<>> /\ UNCHANGED submitted
  BY DEF TypeOK, Events, CallBackReturns
<1>2. /\ top \in Events /\ tail \in Seq(Events) /\ top = calls[1]
      /\ calls = <<top>> \o tail /\ 1 \in DOMAIN calls
  BY <1>1, Popped, EmptySeq, LenProperties
<1>3. top.frame \in Frames /\ top.rest \in Seq(Packets) /\ Frames = 1..n /\ Frames' = Frames
  BY <1>1, <1>2 DEF Events, Frames
<1>4. n \in Nat /\ reports \in Seq(ReportOf(n))
  BY <1>3, LenProperties DEF TypeOK, ReportOf
<1>5. CASE top.rest = <<>> /\ calls' = tail /\ UNCHANGED <<reports, stream>>
  <2> HIDE DEF top, tail, n
  <2>1. /\ DOMAIN tail = 1..Len(tail) /\ Len(tail) \in Nat
        /\ DOMAIN calls = 1..(Len(tail) + 1)
        /\ \A i \in 1..Len(tail) : calls[i + 1] = tail[i]
    BY <1>2, Pushed
  <2>2. ASSUME NEW i \in DOMAIN tail, tail[i].rest # <<>>
        PROVE  ~submitted[tail[i].frame].toHandler
    <3>1. i + 1 \in DOMAIN calls /\ calls[i + 1] = tail[i]
      BY <2>1
    <3> QED
      BY <2>2, <3>1 DEF ReportInv, EventsAreForObservers
  <2> QED
    BY <1>1, <1>3, <1>5, <2>2 DEF ReportInv, EventsAreForObservers, OneReportPerFrame
<1>6. CASE /\ top.rest # <<>>
           /\ reports' = Append(reports, [frame |-> top.frame, status |-> "Success"])
           /\ calls' = <<[top EXCEPT !.rest = Tail(@)]>> \o tail
  <2> DEFINE e == [top EXCEPT !.rest = Tail(@)]
             r == [frame |-> top.frame, status |-> "Success"]
  <2>1. e \in Events /\ e.frame = top.frame /\ calls' = <<e>> \o tail
    <3>1. Tail(top.rest) \in Seq(Packets)
      BY <1>3, <1>6, Popped
    <3> QED
      BY <1>2, <1>6, <3>1 DEF Events
  <2>2. ~submitted[top.frame].toHandler
    BY <1>2, <1>6 DEF ReportInv, EventsAreForObservers
  <2>3. r \in ReportOf(n) /\ r.frame = top.frame /\ reports' = Append(reports, r)
    BY <1>3, <1>6 DEF ReportOf
  <2> HIDE DEF top, tail, n, e, r
  <2>4. OneReportPerFrame'
    <3> SUFFICES ASSUME NEW f \in 1..n, submitted[f].toHandler
                 PROVE  ReportedOnce(f, reports')
      BY <1>1, <1>3 DEF OneReportPerFrame, ReportedOnce
    <3>1. ReportedOnce(f, reports)
      BY <1>3 DEF ReportInv, OneReportPerFrame, ReportedOnce
    <3>2. f # top.frame
      BY <2>2
    <3> QED
      BY <1>4, <2>3, <3>1, <3>2, LaterReport
  <2>5. /\ DOMAIN tail = 1..Len(tail) /\ Len(tail) \in Nat
        /\ DOMAIN calls = 1..(Len(tail) + 1)
        /\ \A i \in 1..Len(tail) : calls[i + 1] = tail[i]
    BY <1>2, Pushed
  <2>6. /\ DOMAIN calls' = 1..(Len(tail) + 1)
        /\ calls'[1] = e
        /\ \A i \in 1..Len(tail) : calls'[i + 1] = tail[i]
    BY <1>2, <2>1, Pushed
  <2>7. ASSUME NEW i \in DOMAIN calls', calls'[i].rest # <<>>
        PROVE  ~submitted[calls'[i].frame].toHandler
    <3>1. CASE i = 1
      BY <2>1, <2>2, <2>6, <3>1
    <3>2. CASE i # 1
      <4>1. i - 1 \in 1..Len(tail) /\ (i - 1) + 1 = i /\ i \in DOMAIN calls
        BY <2>5, <2>6, <3>2
      <4>2. calls'[i] = calls[i]
        BY <2>5, <2>6, <4>1
      <4> QED
        BY <2>7, <4>1, <4>2 DEF ReportInv, EventsAreForObservers
    <3> QED
      BY <3>1, <3>2
  <2> QED
    BY <1>1, <2>4, <2>7 DEF ReportInv, EventsAreForObservers
<1> QED
  BY <1>5, <1>6 DEF CallBackReturns

LEMMA NextReports ==
  ASSUME ConfigInv, ReportInv, [Next]_vars
  PROVE  ReportInv'
<1>1. ASSUME UNCHANGED output
      PROVE  ReportInv'
  BY <1>1 DEF output, ReportInv, OneReportPerFrame, EventsAreForObservers, Frames
<1>2. CASE \/ Setter
           \/ Initialize
           \/ Drain
           \/ Shutdown
           \/ UNCHANGED vars
  BY <1>1, <1>2 DEF Setter, SetWidth, SetHeight, SetParams, SetForceIFrame,
     SetOutputHandler, Initialize, Drain, Shutdown, vars, baseVars
<1>3. ASSUME NEW w \in Lengths, NEW h \in Lengths, Encode(w, h)
      PROVE  ReportInv'
  BY <1>3, EncodeReports
<1>4. CASE CallBackReturns
  BY <1>4, CallBackReturnsReports DEF ConfigInv
<1> QED
  BY <1>2, <1>3, <1>4 DEF Next

(* The handler hears of every frame that was submitted while it was set: once,
   and in the order of the calls, whichever of them fail. *)
THEOREM AlwaysOneReport == Spec => []OneReportPerFrame
<1>1. Init => ReportInv
  <2> SUFFICES ASSUME Init
               PROVE  ReportInv
    OBVIOUS
  <2>1. submitted = <<>> /\ calls = <<>>
    BY DEF Init, BaseInit
  <2>2. Frames = {}
    BY <2>1 DEF Frames
  <2> QED
    BY <2>1, <2>2 DEF ReportInv, OneReportPerFrame, EventsAreForObservers
<1>2. ConfigInv /\ ReportInv /\ [Next]_vars => ReportInv'
  BY NextReports
<1>3. ReportInv => OneReportPerFrame
  BY DEF ReportInv
<1> QED
  BY <1>1, <1>2, <1>3, ConfigInvariant, PTL DEF Spec
-----------------------------------------------------------------------------
(* Where each frame is: no frame is lost, none is in two places. *)

FramesOf(s) == {p.frame : p \in Range(s)}
EventFrames(cs) == {p.frame : p \in UNION {Range(cs[i].rest) : i \in DOMAIN cs}}

(* No two packets of a sequence, or of the events of some calls, are of the
   same frame. *)
Distinct(s) == \A i, j \in DOMAIN s : s[i].frame = s[j].frame => i = j

DistinctEvents(cs) ==
  \A a, b \in DOMAIN cs : \A i \in DOMAIN cs[a].rest, j \in DOMAIN cs[b].rest :
    cs[a].rest[i].frame = cs[b].rest[j].frame => a = b /\ i = j

(* Four sets are disjoint, and A is their union. *)
Partition(D, H, F, X, A) ==
  /\ D \cap H = {} /\ D \cap F = {} /\ D \cap X = {}
  /\ H \cap F = {} /\ H \cap X = {} /\ F \cap X = {}
  /\ D \cup H \cup F \cup X = A

PlacesInv ==
  /\ Delivered \cap InEvents = {}
  /\ Partition(Delivered \cup InEvents, Held, failed, dropped, Frames)
  /\ DistinctEvents(calls)

LEMMA PlacesAsPartition ==
  PlacesInv => EveryFrameInOnePlace
<1> SUFFICES ASSUME PlacesInv
             PROVE  EveryFrameInOnePlace
  OBVIOUS
<1> DEFINE places == <<Delivered, InEvents, Held, failed, dropped>>
<1>1. DOMAIN places = 1..5
  OBVIOUS
<1>2. /\ places[1] = Delivered /\ places[2] = InEvents /\ places[3] = Held
      /\ places[4] = failed /\ places[5] = dropped
  OBVIOUS
<1>3. 1..5 = {1, 2, 3, 4, 5}
  OBVIOUS
<1> HIDE DEF places
<1>4. Range(places) = {Delivered, InEvents, Held, failed, dropped}
  BY <1>1, <1>2, <1>3 DEF Range
<1>5. UNION Range(places) = Frames
  BY <1>4 DEF PlacesInv, Partition
<1>6. \A i, j \in DOMAIN places : i # j => places[i] \cap places[j] = {}
  <2>1. /\ Delivered \cap InEvents = {} /\ Delivered \cap Held = {}
        /\ Delivered \cap failed = {} /\ Delivered \cap dropped = {}
        /\ InEvents \cap Held = {} /\ InEvents \cap failed = {}
        /\ InEvents \cap dropped = {} /\ Held \cap failed = {}
        /\ Held \cap dropped = {} /\ failed \cap dropped = {}
    BY DEF PlacesInv, Partition
  <2> QED
    BY <1>1, <1>2, <1>3, <2>1
<1> QED
  BY <1>5, <1>6 DEF EveryFrameInOnePlace, places

LEMMA InFramesOf ==
  \A s, f : f \in FramesOf(s) <=> \E i \in DOMAIN s : s[i].frame = f
BY DEF FramesOf, Range

LEMMA InEventFrames ==
  \A cs, f : f \in EventFrames(cs) <=>
    \E a \in DOMAIN cs : \E i \in DOMAIN cs[a].rest : cs[a].rest[i].frame = f
BY DEF EventFrames, Range

LEMMA FramesConcat ==
  ASSUME NEW P, NEW s \in Seq(P), NEW t \in Seq(P)
  PROVE  FramesOf(s \o t) = FramesOf(s) \cup FramesOf(t)
<1>1. Range(s \o t) = Range(s) \cup Range(t)
  BY RangeConcatenation
<1> QED
  BY <1>1 DEF FramesOf

LEMMA DistinctConcat ==
  ASSUME NEW P, NEW s \in Seq(P), NEW t \in Seq(P), Distinct(s \o t)
  PROVE  /\ FramesOf(s) \cap FramesOf(t) = {}
         /\ Distinct(t)
<1> DEFINE m == Len(s)
           n == Len(t)
           u == s \o t
<1>1. m \in Nat /\ n \in Nat /\ DOMAIN s = 1..m /\ DOMAIN t = 1..n
  BY LenProperties
<1>2. /\ u \in Seq(P) /\ Len(u) = m + n
      /\ \A i \in 1..(m + n) : u[i] = IF i <= m THEN s[i] ELSE t[i - m]
  BY ConcatProperties
<1> HIDE DEF m, n, u
<1>3. DOMAIN u = 1..(m + n)
  BY <1>2, LenProperties
<1>4. \A i \in 1..m : i \in DOMAIN u /\ u[i] = s[i]
  BY <1>1, <1>2, <1>3
<1>5. \A i \in 1..n : m + i \in DOMAIN u /\ u[m + i] = t[i]
  <2> TAKE i \in 1..n
  <2>1. m + i \in 1..(m + n) /\ ~(m + i <= m) /\ (m + i) - m = i
    BY <1>1
  <2> QED
    BY <1>2, <1>3, <2>1
<1>6. Distinct(u)
  BY DEF u
<1>7. ASSUME NEW i \in 1..m, NEW j \in 1..n
      PROVE  s[i].frame # t[j].frame
  <2>1. i # m + j
    BY <1>1
  <2> QED
    BY <1>4, <1>5, <1>6, <2>1 DEF Distinct
<1>8. FramesOf(s) \cap FramesOf(t) = {}
  BY <1>1, <1>7, InFramesOf
<1>9. ASSUME NEW i \in 1..n, NEW j \in 1..n, t[i].frame = t[j].frame
      PROVE  i = j
  <2>1. m + i = m + j
    BY <1>5, <1>6, <1>9 DEF Distinct
  <2> QED
    BY <1>1, <2>1
<1> QED
  BY <1>1, <1>8, <1>9 DEF Distinct

(* A call is pushed on the stack, or taken from it. *)
LEMMA EventsPushed ==
  ASSUME NEW S, NEW e \in S, NEW cs \in Seq(S)
  PROVE  /\ EventFrames(<<e>> \o cs) = FramesOf(e.rest) \cup EventFrames(cs)
         /\ DistinctEvents(<<e>> \o cs) <=>
              /\ Distinct(e.rest)
              /\ FramesOf(e.rest) \cap EventFrames(cs) = {}
              /\ DistinctEvents(cs)
<1> DEFINE ds == <<e>> \o cs
           m == Len(cs)
<1>1. /\ m \in Nat /\ DOMAIN cs = 1..m /\ DOMAIN ds = 1..(m + 1)
      /\ ds[1] = e
      /\ \A i \in 1..m : ds[i + 1] = cs[i]
  BY Pushed
<1> HIDE DEF ds, m
<1>2. 1 \in DOMAIN ds /\ \A i \in DOMAIN cs : i + 1 \in DOMAIN ds /\ i + 1 # 1
  BY <1>1
<1>3. \A a \in DOMAIN ds : a = 1 \/ (a - 1 \in DOMAIN cs /\ ds[a] = cs[a - 1] /\ (a - 1) + 1 = a)
  <2> TAKE a \in DOMAIN ds
  <2>1. a # 1 => a - 1 \in DOMAIN cs /\ (a - 1) + 1 = a
    BY <1>1
  <2> QED
    BY <1>1, <2>1
<1>4. EventFrames(ds) = FramesOf(e.rest) \cup EventFrames(cs)
  <2>1. ASSUME NEW f \in EventFrames(ds)
        PROVE  f \in FramesOf(e.rest) \cup EventFrames(cs)
    <3>1. PICK a \in DOMAIN ds : \E i \in DOMAIN ds[a].rest : ds[a].rest[i].frame = f
      BY <2>1, InEventFrames
    <3>2. CASE a = 1
      BY <1>1, <3>1, <3>2, InFramesOf
    <3>3. CASE a # 1
      BY <1>3, <3>1, <3>3, InEventFrames
    <3> QED
      BY <3>2, <3>3
  <2>2. FramesOf(e.rest) \subseteq EventFrames(ds)
    BY <1>1, <1>2, InFramesOf, InEventFrames
  <2>3. ASSUME NEW f \in EventFrames(cs)
        PROVE  f \in EventFrames(ds)
    <3>1. PICK a \in DOMAIN cs : \E i \in DOMAIN cs[a].rest : cs[a].rest[i].frame = f
      BY <2>3, InEventFrames
    <3>2. a + 1 \in DOMAIN ds /\ ds[a + 1] = cs[a]
      BY <1>1, <1>2
    <3> QED
      BY <3>1, <3>2, InEventFrames
  <2> QED
    BY <2>1, <2>2, <2>3
<1>5. ASSUME DistinctEvents(ds)
      PROVE  /\ Distinct(e.rest)
             /\ FramesOf(e.rest) \cap EventFrames(cs) = {}
             /\ DistinctEvents(cs)
  <2>1. Distinct(e.rest)
    BY <1>1, <1>2, <1>5 DEF Distinct, DistinctEvents
  <2>2. ASSUME NEW f, f \in FramesOf(e.rest), f \in EventFrames(cs)
        PROVE  FALSE
    <3>1. PICK i \in DOMAIN e.rest : e.rest[i].frame = f
      BY <2>2, InFramesOf
    <3>2. PICK a \in DOMAIN cs : \E j \in DOMAIN cs[a].rest : cs[a].rest[j].frame = f
      BY <2>2, InEventFrames
    <3>3. a + 1 \in DOMAIN ds /\ ds[a + 1] = cs[a] /\ a + 1 # 1
      BY <1>1, <1>2
    <3> QED
      BY <1>1, <1>2, <1>5, <3>1, <3>2, <3>3 DEF DistinctEvents
  <2>3. ASSUME NEW a \in DOMAIN cs, NEW b \in DOMAIN cs,
               NEW i \in DOMAIN cs[a].rest, NEW j \in DOMAIN cs[b].rest,
               cs[a].rest[i].frame = cs[b].rest[j].frame
        PROVE  a = b /\ i = j
    <3>1. /\ a + 1 \in DOMAIN ds /\ ds[a + 1] = cs[a]
          /\ b + 1 \in DOMAIN ds /\ ds[b + 1] = cs[b]
      BY <1>1, <1>2
    <3>2. a + 1 = b + 1 /\ i = j
      BY <1>5, <2>3, <3>1 DEF DistinctEvents
    <3> QED
      BY <1>1, <3>2
  <2> QED
    BY <2>1, <2>2, <2>3 DEF DistinctEvents
<1>6. ASSUME Distinct(e.rest), FramesOf(e.rest) \cap EventFrames(cs) = {}, DistinctEvents(cs)
      PROVE  DistinctEvents(ds)
  <2> SUFFICES ASSUME NEW a \in DOMAIN ds, NEW b \in DOMAIN ds,
                      NEW i \in DOMAIN ds[a].rest, NEW j \in DOMAIN ds[b].rest,
                      ds[a].rest[i].frame = ds[b].rest[j].frame
               PROVE  a = b /\ i = j
    BY DEF DistinctEvents
  <2>1. CASE a = 1 /\ b = 1
    BY <1>1, <1>6, <2>1 DEF Distinct
  <2>2. CASE a = 1 /\ b # 1
    <3>1. ds[a].rest[i].frame \in FramesOf(e.rest)
      BY <1>1, <2>2, InFramesOf
    <3>2. ds[b].rest[j].frame \in EventFrames(cs)
      BY <1>3, <2>2, InEventFrames
    <3> QED
      BY <1>6, <3>1, <3>2
  <2>3. CASE a # 1 /\ b = 1
    <3>1. ds[b].rest[j].frame \in FramesOf(e.rest)
      BY <1>1, <2>3, InFramesOf
    <3>2. ds[a].rest[i].frame \in EventFrames(cs)
      BY <1>3, <2>3, InEventFrames
    <3> QED
      BY <1>6, <3>1, <3>2
  <2>4. CASE a # 1 /\ b # 1
    <3>1. /\ a - 1 \in DOMAIN cs /\ ds[a] = cs[a - 1] /\ (a - 1) + 1 = a
          /\ b - 1 \in DOMAIN cs /\ ds[b] = cs[b - 1] /\ (b - 1) + 1 = b
      BY <1>3, <2>4
    <3>2. a - 1 = b - 1 /\ i = j
      BY <1>6, <3>1 DEF DistinctEvents
    <3> QED
      BY <3>1, <3>2
  <2> QED
    BY <2>1, <2>2, <2>3, <2>4
<1> QED
  BY <1>4, <1>5, <1>6 DEF ds
-----------------------------------------------------------------------------
(* The packets of a result, of frames that are in no event and not delivered,
   are afterwards in one of the two. *)
LEMMA HandsOver ==
  ASSUME TypeOK, Len(submitted') = Len(submitted) + 1, PlacesInv,
         NEW packets \in Seq(Packets'), Hands(packets), Distinct(packets),
         FramesOf(packets) \cap (Delivered \cup InEvents) = {}
  PROVE  /\ Delivered' \cup InEvents' = Delivered \cup InEvents \cup FramesOf(packets)
         /\ Delivered' \cap InEvents' = {}
         /\ DistinctEvents(calls')
<1> DEFINE Goal == /\ Delivered' \cup InEvents' = Delivered \cup InEvents \cup FramesOf(packets)
                   /\ Delivered' \cap InEvents' = {}
                   /\ DistinctEvents(calls')
<1>1. /\ stream \in Seq(Packets') /\ calls \in Seq(Events') /\ NextFrame \in Frames'
  BY EventsGrow
<1>2. /\ Delivered = FramesOf(stream) /\ Delivered' = FramesOf(stream')
      /\ InEvents = EventFrames(calls) /\ InEvents' = EventFrames(calls')
  BY DEF Delivered, InEvents, RestPackets, FramesOf, EventFrames
<1>3. Delivered \cap InEvents = {} /\ DistinctEvents(calls)
  BY DEF PlacesInv
<1>4. ASSUME NEW out \in Seq(Packets'), NEW rest \in Seq(Packets'),
             FramesOf(packets) = FramesOf(out) \cup FramesOf(rest),
             FramesOf(out) \cap FramesOf(rest) = {}, Distinct(rest),
             stream' = stream \o out,
             calls' = <<[frame |-> NextFrame, rest |-> rest]>> \o calls
      PROVE  Goal
  <2> DEFINE e == [frame |-> NextFrame, rest |-> rest]
  <2>1. e \in Events' /\ e.rest = rest /\ calls' = <<e>> \o calls
    BY <1>1, <1>4 DEF Events
  <2> HIDE DEF e
  <2>2. /\ EventFrames(calls') = FramesOf(rest) \cup EventFrames(calls)
        /\ DistinctEvents(calls') <=>
             /\ Distinct(rest)
             /\ FramesOf(rest) \cap EventFrames(calls) = {}
             /\ DistinctEvents(calls)
    BY <1>1, <2>1, EventsPushed
  <2>3. FramesOf(stream') = FramesOf(stream) \cup FramesOf(out)
    BY <1>1, <1>4, FramesConcat
  <2>4. FramesOf(rest) \cap EventFrames(calls) = {}
    BY <1>2, <1>4
  <2> QED
    BY <1>2, <1>3, <1>4, <2>2, <2>3, <2>4
<1>5. FramesOf(<<>>) = {} /\ Distinct(<<>>) /\ <<>> \in Seq(Packets')
  BY InFramesOf, EmptySeq DEF Distinct
<1>6. CASE /\ stream' = stream \o packets
           /\ calls' = <<[frame |-> NextFrame, rest |-> <<>>]>> \o calls
  <2>1. /\ FramesOf(packets) = FramesOf(packets) \cup FramesOf(<<>>)
        /\ FramesOf(packets) \cap FramesOf(<<>>) = {}
    BY <1>5
  <2> HIDE DEF Goal
  <2>2. Goal
    BY <1>4, <1>5, <1>6, <2>1
  <2> QED
    BY <2>2 DEF Goal
<1>7. CASE /\ packets # <<>>
           /\ stream' = stream \o <<Head(packets)>>
           /\ calls' = <<[frame |-> NextFrame, rest |-> Tail(packets)]>> \o calls
  <2> DEFINE one == <<Head(packets)>>
             more == Tail(packets)
  <2>1. one \in Seq(Packets') /\ more \in Seq(Packets') /\ packets = one \o more
    BY <1>7, Popped
  <2>2. stream' = stream \o one /\ calls' = <<[frame |-> NextFrame, rest |-> more]>> \o calls
    BY <1>7
  <2> HIDE DEF one, more, Goal
  <2>3. FramesOf(packets) = FramesOf(one) \cup FramesOf(more)
    BY <2>1, FramesConcat
  <2>4. FramesOf(one) \cap FramesOf(more) = {} /\ Distinct(more)
    BY <2>1, DistinctConcat
  <2>5. Goal
    BY <1>4, <2>1, <2>2, <2>3, <2>4
  <2> QED
    BY <2>5 DEF Goal
<1>8. CASE packets = <<>> /\ UNCHANGED <<stream, calls>>
  BY <1>2, <1>3, <1>5, <1>8
<1> QED
  BY <1>6, <1>7, <1>8 DEF Hands

(* Those that a context gives are of frames it held, or of the new one, and it
   holds the others. *)
LEMMA GivesHeld ==
  ASSUME TypeOK, Len(submitted') = Len(submitted) + 1,
         NEW c \in Contexts, Rising(c.held), NEW k \in Nat,
         NEW packets \in Seq(Packets'), Gives(c, k, packets)
  PROVE  /\ Distinct(packets)
         /\ FramesOf(packets) \cap Range(context'.held) = {}
         /\ FramesOf(packets) \cup Range(context'.held) = Range(c.held) \cup {NextFrame}
<1> DEFINE n == Len(submitted)
           f == Waiting(c)
           m == Len(c.held)
<1>1. n \in Nat /\ Frames = 1..n /\ NextFrame = n + 1
  BY EventsGrow
<1>2. c.held \in Seq(1..n)
  BY <1>1 DEF Contexts
<1>3. f = Append(c.held, n + 1)
  BY <1>1 DEF Waiting
<1> HIDE DEF n, f
<1>4. /\ f \in Seq(1..(n + 1))
      /\ Len(f) = m + 1
      /\ m \in Nat
      /\ \A i \in 1..m : f[i] = c.held[i]
      /\ f[m + 1] = n + 1
      /\ Rising(f)
  BY <1>1, <1>2, <1>3, WaitingRises
<1>5. /\ k \in 0..Len(f) /\ Len(packets) = k
      /\ \A i \in 1..k : packets[i].frame = f[i]
      /\ context'.held = SubSeq(f, k + 1, Len(f))
  BY DEF Gives, IsPacketOf, Left, f
<1> DEFINE left == SubSeq(f, k + 1, Len(f))
<1>6. /\ left \in Seq(1..(n + 1))
      /\ Len(left) = Len(f) - k
      /\ \A i \in 1..(Len(f) - k) : k + i \in 1..Len(f) /\ left[i] = f[k + i]
  <2>1. n + 1 \in Nat
    BY <1>1
  <2> QED
    BY <1>4, <1>5, <2>1, LeftRises
<1> HIDE DEF left, m
<1>7. /\ DOMAIN f = 1..(m + 1) /\ DOMAIN packets = 1..k /\ DOMAIN left = 1..((m + 1) - k)
      /\ k \in 0..(m + 1)
      /\ DOMAIN c.held = 1..m
  BY <1>2, <1>4, <1>5, <1>6, LenProperties DEF m
<1>8. \A i \in 1..(m + 1) : f[i] \in 1..(n + 1)
  BY <1>4, <1>7, ElementsOfSeq
<1>9. \A i, j \in 1..(m + 1) : f[i] = f[j] => i = j
  <2> SUFFICES ASSUME NEW i \in 1..(m + 1), NEW j \in 1..(m + 1), f[i] = f[j], i # j
               PROVE  FALSE
    OBVIOUS
  <2>1. i < j \/ j < i
    BY <1>4 DEF m
  <2>2. f[i] < f[j] \/ f[j] < f[i]
    BY <1>4, <1>7, <2>1 DEF Rising
  <2> QED
    BY <1>1, <1>8, <2>2
<1>10. \A i \in 1..k : i \in 1..(m + 1)
  BY <1>4, <1>7 DEF m
<1>11. Distinct(packets)
  BY <1>5, <1>7, <1>9, <1>10 DEF Distinct
<1>12. \A g : g \in Range(left) <=> \E i \in 1..((m + 1) - k) : f[k + i] = g
  <2>1. \A i \in 1..((m + 1) - k) : left[i] = f[k + i]
    BY <1>4, <1>6 DEF m
  <2> QED
    BY <1>7, <2>1 DEF Range
<1>13. \A g : g \in FramesOf(packets) <=> \E i \in 1..k : f[i] = g
  <2> TAKE g
  <2>1. g \in FramesOf(packets) <=> \E i \in 1..k : packets[i].frame = g
    BY <1>7, InFramesOf
  <2> QED
    BY <1>5, <2>1
<1>14. \A g : g \in Range(c.held) <=> \E i \in 1..m : f[i] = g
  BY <1>4, <1>7 DEF Range
<1>15. FramesOf(packets) \cap Range(left) = {}
  <2> SUFFICES ASSUME NEW i \in 1..k, NEW j \in 1..((m + 1) - k), f[i] = f[k + j]
               PROVE  FALSE
    BY <1>12, <1>13
  <2>1. i \in 1..(m + 1) /\ k + j \in 1..(m + 1) /\ i # k + j
    BY <1>4, <1>7 DEF m
  <2> QED
    BY <1>9, <2>1
<1>16. \A g : g \in FramesOf(packets) \cup Range(left) <=> \E i \in 1..(m + 1) : f[i] = g
  <2> TAKE g
  <2>1. ASSUME NEW i \in 1..(m + 1), f[i] = g
        PROVE  g \in FramesOf(packets) \cup Range(left)
    <3>1. CASE i <= k
      <4>1. i \in 1..k
        BY <1>4, <1>7, <3>1 DEF m
      <4> QED
        BY <1>13, <2>1, <4>1
    <3>2. CASE ~(i <= k)
      <4>1. i - k \in 1..((m + 1) - k) /\ k + (i - k) = i
        BY <1>4, <1>7, <3>2 DEF m
      <4> QED
        BY <1>12, <2>1, <4>1
    <3> QED
      BY <3>1, <3>2
  <2>2. \A i \in 1..((m + 1) - k) : k + i \in 1..(m + 1)
    BY <1>4, <1>7 DEF m
  <2> QED
    BY <1>10, <1>12, <1>13, <2>1, <2>2
<1>17. \A g : g \in Range(c.held) \cup {n + 1} <=> \E i \in 1..(m + 1) : f[i] = g
  <2> TAKE g
  <2>1. \A i \in 1..(m + 1) : i \in 1..m \/ i = m + 1
    BY <1>4 DEF m
  <2>2. m + 1 \in 1..(m + 1) /\ \A i \in 1..m : i \in 1..(m + 1)
    BY <1>4 DEF m
  <2>3. f[m + 1] = n + 1
    BY <1>4 DEF m
  <2> QED
    BY <1>14, <2>1, <2>2, <2>3
<1>18. FramesOf(packets) \cup Range(left) = Range(c.held) \cup {n + 1}
  BY <1>16, <1>17
<1> QED
  BY <1>1, <1>5, <1>11, <1>15, <1>18 DEF left

LEMMA EncodePlaces ==
  ASSUME ConfigInv, OrderInv, PlacesInv, NEW w \in Lengths, NEW h \in Lengths,
         Encode(w, h)
  PROVE  PlacesInv'
<1> DEFINE D == Delivered \cup InEvents
<1>1. /\ TypeOK /\ Submit(w, h)
      /\ Len(submitted') = Len(submitted) + 1
  BY SubmitGrows DEF ConfigInv, Encode
<1>2. PICK packets \in Seq(Packets') :
        /\ Hands(packets)
        /\ HasNoContext(packets) \/ \E c \in Contexts : EncodesIn(c, packets)
  BY EncodeEffect
<1>3. Frames' = Frames \cup {NextFrame} /\ NextFrame \notin Frames
  BY <1>1, EventsGrow
<1>4. Partition(D, Held, failed, dropped, Frames)
  BY DEF PlacesInv
<1>5. FramesOf(<<>>) = {} /\ Distinct(<<>>)
  BY InFramesOf DEF Distinct
<1>6. ASSUME Distinct(packets), FramesOf(packets) \cap D = {},
             Partition(D \cup FramesOf(packets), Held', failed', dropped', Frames')
      PROVE  PlacesInv'
  <2>1. /\ Delivered' \cup InEvents' = D \cup FramesOf(packets)
        /\ Delivered' \cap InEvents' = {}
        /\ DistinctEvents(calls')
    BY <1>1, <1>2, <1>6, HandsOver
  <2> QED
    BY <1>6, <2>1 DEF PlacesInv
<1> HIDE DEF D
<1>7. DropHeld => dropped' = dropped \cup Held
  BY DEF DropHeld, Held
<1>8. CASE HasNoContext(packets)
  <2>1. /\ packets = <<>> /\ failed' = failed \cup {NextFrame}
        /\ dropped' = dropped \cup Held /\ Held' = {}
    BY <1>7, <1>8 DEF HasNoContext, Held
  <2>2. Partition(D \cup {}, {}, failed \cup {NextFrame}, dropped \cup Held,
                  Frames \cup {NextFrame})
    BY <1>3, <1>4 DEF Partition
  <2> QED
    BY <1>3, <1>5, <1>6, <2>1, <2>2
<1>9. ASSUME NEW c \in Contexts, EncodesIn(c, packets)
      PROVE  PlacesInv'
  <2>1. /\ Kept(c) \/ Made(c)
        /\ initialized' = TRUE
        /\ Refuses(c, packets) \/ \E k \in Nat : Gives(c, k, packets)
    BY <1>9 DEF EncodesIn
  <2> DEFINE H == Range(c.held)
  <2>2. Rising(c.held) /\ Partition(D, H, failed, dropped', Frames)
    <3>1. CASE Kept(c)
      BY <1>4, <3>1 DEF Kept, OrderInv, Held
    <3>2. CASE Made(c)
      <4>1. c.held = <<>> /\ dropped' = dropped \cup Held
        BY <1>7, <3>2 DEF Made, NewContext
      <4>2. H = {}
        BY <4>1 DEF Range
      <4> HIDE DEF H
      <4>3. Partition(D, H, failed, dropped \cup Held, Frames)
        BY <1>4, <4>2 DEF Partition
      <4> QED
        BY <4>1, <4>3 DEF Rising
    <3> QED
      BY <2>1, <3>1, <3>2
  <2>3. Held' = Range(context'.held)
    BY <2>1 DEF Held
  <2> HIDE DEF H
  <2>4. CASE Refuses(c, packets)
    <3>1. packets = <<>> /\ failed' = failed \cup {NextFrame} /\ Held' = H
      BY <2>3, <2>4 DEF Refuses, H
    <3>2. Partition(D \cup {}, H, failed \cup {NextFrame}, dropped', Frames \cup {NextFrame})
      BY <1>3, <2>2 DEF Partition
    <3> QED
      BY <1>3, <1>5, <1>6, <3>1, <3>2
  <2>5. ASSUME NEW k \in Nat, Gives(c, k, packets)
        PROVE  PlacesInv'
    <3>1. /\ Distinct(packets)
          /\ FramesOf(packets) \cap Held' = {}
          /\ FramesOf(packets) \cup Held' = H \cup {NextFrame}
      BY <1>1, <2>2, <2>3, <2>5, GivesHeld DEF H
    <3>2. UNCHANGED failed
      BY <2>5 DEF Gives
    <3>3. /\ FramesOf(packets) \cap D = {}
          /\ Partition(D \cup FramesOf(packets), Held', failed, dropped',
                       Frames \cup {NextFrame})
      BY <1>3, <2>2, <3>1 DEF Partition
    <3> QED
      BY <1>3, <1>6, <3>1, <3>2, <3>3
  <2> QED
    BY <2>1, <2>4, <2>5
<1> QED
  BY <1>2, <1>8, <1>9

LEMMA CallBackReturnsPlaces ==
  ASSUME TypeOK, PlacesInv, CallBackReturns, UNCHANGED <<context, dropped>>
  PROVE  PlacesInv'
<1> DEFINE top == Head(calls)
           tail == Tail(calls)
<1>1. calls \in Seq(Events) /\ calls # <<>> /\ stream \in Seq(Packets)
  BY DEF TypeOK, Events, CallBackReturns
<1>2. /\ top \in Events /\ tail \in Seq(Events) /\ calls = <<top>> \o tail
  BY <1>1, Popped
<1>3. top.rest \in Seq(Packets)
  BY <1>2 DEF Events
<1>4. UNCHANGED <<Held, failed, dropped, Frames>>
  BY DEF CallBackReturns, setup, Held, Frames
<1>5. /\ Delivered = FramesOf(stream) /\ Delivered' = FramesOf(stream')
      /\ InEvents = EventFrames(calls) /\ InEvents' = EventFrames(calls')
  BY DEF Delivered, InEvents, RestPackets, FramesOf, EventFrames
<1>6. ASSUME Delivered' \cup InEvents' = Delivered \cup InEvents,
             Delivered' \cap InEvents' = {}, DistinctEvents(calls')
      PROVE  PlacesInv'
  BY <1>4, <1>6 DEF PlacesInv
<1>7. Delivered \cap InEvents = {} /\ DistinctEvents(calls)
  BY DEF PlacesInv
<1>8. CASE top.rest = <<>> /\ calls' = tail /\ UNCHANGED <<reports, stream>>
  <2> HIDE DEF top, tail
  <2>1. /\ EventFrames(calls) = FramesOf(top.rest) \cup EventFrames(tail)
        /\ DistinctEvents(tail)
    BY <1>2, <1>7, EventsPushed
  <2>2. FramesOf(top.rest) = {}
    BY <1>8, InFramesOf
  <2> QED
    BY <1>5, <1>6, <1>7, <1>8, <2>1, <2>2
<1>9. CASE /\ top.rest # <<>>
           /\ stream' = Append(stream, Head(top.rest))
           /\ calls' = <<[top EXCEPT !.rest = Tail(@)]>> \o tail
  <2> DEFINE e == [top EXCEPT !.rest = Tail(@)]
             one == <<Head(top.rest)>>
             more == Tail(top.rest)
  <2>1. Head(top.rest) \in Packets /\ more \in Seq(Packets) /\ top.rest = one \o more
    BY <1>3, <1>9, Popped
  <2>2. one \in Seq(Packets) /\ stream' = stream \o one
    BY <1>1, <1>9, <2>1, AppendIsConcat
  <2>3. e \in Events /\ e.rest = more /\ calls' = <<e>> \o tail
    BY <1>2, <1>9, <2>1 DEF Events
  <2> HIDE DEF top, tail, e, one, more
  <2>4. FramesOf(stream') = FramesOf(stream) \cup FramesOf(one)
    BY <1>1, <2>2, FramesConcat
  <2>5. FramesOf(top.rest) = FramesOf(one) \cup FramesOf(more)
    BY <2>1, <2>2, FramesConcat
  <2>6. /\ EventFrames(calls) = FramesOf(top.rest) \cup EventFrames(tail)
        /\ Distinct(top.rest)
        /\ FramesOf(top.rest) \cap EventFrames(tail) = {}
        /\ DistinctEvents(tail)
    BY <1>2, <1>7, EventsPushed
  <2>7. FramesOf(one) \cap FramesOf(more) = {} /\ Distinct(more)
    BY <2>1, <2>2, <2>6, DistinctConcat
  <2>8. /\ EventFrames(calls') = FramesOf(more) \cup EventFrames(tail)
        /\ DistinctEvents(calls') <=>
             /\ Distinct(more)
             /\ FramesOf(more) \cap EventFrames(tail) = {}
             /\ DistinctEvents(tail)
    BY <1>2, <2>3, EventsPushed
  <2>9. DistinctEvents(calls')
    BY <2>5, <2>6, <2>7, <2>8
  <2> QED
    BY <1>5, <1>6, <1>7, <2>4, <2>5, <2>6, <2>7, <2>8, <2>9
<1> QED
  BY <1>8, <1>9 DEF CallBackReturns

LEMMA NextPlaces ==
  ASSUME ConfigInv, OrderInv, PlacesInv, [Next]_vars
  PROVE  PlacesInv'
<1>1. ASSUME UNCHANGED output
      PROVE  UNCHANGED <<Delivered, InEvents, failed, Frames, calls>>
  BY <1>1 DEF output, Delivered, InEvents, RestPackets, Frames
<1>2. ASSUME UNCHANGED output, UNCHANGED dropped, Held' = Held
      PROVE  PlacesInv'
  BY <1>1, <1>2 DEF PlacesInv
<1>3. ASSUME UNCHANGED output, DropHeld, Held' = {}
      PROVE  PlacesInv'
  <2>1. dropped' = dropped \cup Held
    BY <1>3 DEF DropHeld, Held
  <2>2. Partition(Delivered \cup InEvents, {}, failed, dropped \cup Held, Frames)
    BY DEF PlacesInv, Partition
  <2> QED
    BY <1>1, <1>3, <2>1, <2>2 DEF PlacesInv
<1>4. CASE Setter /\ UNCHANGED <<context, dropped>>
  <2>1. UNCHANGED <<initialized, output>>
    BY <1>4 DEF Setter, SetWidth, SetHeight, SetParams, SetForceIFrame, SetOutputHandler, setup
  <2> QED
    BY <1>2, <1>4, <2>1 DEF Held
<1>5. CASE Initialize
  <2>1. UNCHANGED <<output, dropped>> /\ Held = {}
    BY <1>5 DEF Initialize, Held
  <2>2. Held' = {}
    <3>1. CASE context' = NewContext(width, height, params)
      BY <3>1 DEF NewContext, Held, Range
    <3>2. CASE SetupFails
      BY <3>2 DEF SetupFails, SetupFailed, Held
    <3> QED
      BY <1>5, <3>1, <3>2 DEF Initialize
  <2> QED
    BY <1>2, <2>1, <2>2
<1>6. CASE Drain
  <2>1. /\ UNCHANGED output /\ DropHeld
        /\ initialized /\ context \in Contexts
        /\ context' = [context EXCEPT !.held = <<>>, !.eos = TRUE]
    BY <1>6 DEF Drain, baseVars, ConfigInv, TypeOK
  <2>2. context'.held = <<>>
    BY <2>1 DEF Contexts
  <2>3. Held' = {}
    BY <2>2 DEF Held, Range
  <2> QED
    BY <1>3, <2>1, <2>3
<1>7. CASE Shutdown
  <2>1. UNCHANGED output /\ DropHeld /\ Held' = {}
    BY <1>7 DEF Shutdown, Held
  <2> QED
    BY <1>3, <2>1
<1>8. ASSUME NEW w \in Lengths, NEW h \in Lengths, Encode(w, h)
      PROVE  PlacesInv'
  BY <1>8, EncodePlaces
<1>9. CASE CallBackReturns /\ UNCHANGED <<context, dropped>>
  BY <1>9, CallBackReturnsPlaces DEF ConfigInv
<1>10. CASE UNCHANGED vars
  <2>1. UNCHANGED <<initialized, context, dropped, output>>
    BY <1>10 DEF vars, baseVars, setup
  <2> QED
    BY <1>2, <2>1 DEF Held
<1> QED
  BY <1>4, <1>5, <1>6, <1>7, <1>8, <1>9, <1>10 DEF Next

(* Whatever fails and whatever the callbacks call, each frame that was given to
   Encode is in exactly one place: with the application, in events to come, in
   the context, refused, or given up by Drain or Shutdown. *)
THEOREM NoFrameLostOrTwice == Spec => []EveryFrameInOnePlace
<1>1. Init => PlacesInv
  <2> SUFFICES ASSUME Init
               PROVE  PlacesInv
    OBVIOUS
  <2>1. /\ initialized = FALSE /\ calls = <<>> /\ stream = <<>> /\ submitted = <<>>
        /\ failed = {} /\ dropped = {}
    BY DEF Init, BaseInit
  <2>2. Delivered = {} /\ InEvents = {} /\ Held = {} /\ Frames = {}
    BY <2>1 DEF Delivered, InEvents, RestPackets, Held, Frames, Range
  <2> QED
    BY <2>1, <2>2 DEF PlacesInv, Partition, DistinctEvents
<1>2. ConfigInv /\ OrderInv /\ PlacesInv /\ [Next]_vars => PlacesInv'
  BY NextPlaces
<1> QED
  BY <1>1, <1>2, PlacesAsPartition, ConfigInvariant, OrderInvariant, PTL DEF Spec
=============================================================================

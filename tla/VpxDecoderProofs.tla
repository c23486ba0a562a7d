-------------------------- MODULE VpxDecoderProofs --------------------------
(***************************************************************************)
(* Proofs about VpxDecoder, for any lengths and bounds.                    *)
(***************************************************************************)
EXTENDS VpxDecoder, SequenceTheorems, TLAPS

(* The parts of the type invariant that speak of packets, of numbers N. *)
CallsOf(N) == [packet : N, stage : {"decode", "return"}]
ReportsOf(N) ==
  [packet : N, status : {"Success", "Error"}, handler : BOOLEAN, frames : 0..1]
FramesOf(N) == [packet : N, w : Lengths, h : Lengths]

ContextOf(w, h) == [w : {w}, h : {h}, keyed : BOOLEAN]
-----------------------------------------------------------------------------
(* A sequence with an element in front, and an element at the end. *)
LEMMA Pushed ==
  ASSUME NEW S, NEW x \in S, NEW s \in Seq(S)
  PROVE  /\ <<x>> \o s \in Seq(S)
         /\ Len(<<x>> \o s) = Len(s) + 1
         /\ (<<x>> \o s)[1] = x
         /\ \A i \in 2..Len(<<x>> \o s) : i - 1 \in 1..Len(s) /\ (<<x>> \o s)[i] = s[i - 1]
<1>1. <<x>> \in Seq(S) /\ Len(<<x>>) = 1 /\ <<x>>[1] = x
  OBVIOUS
<1>2. Len(s) \in Nat
  BY LenProperties
<1> DEFINE one == <<x>>
<1> HIDE DEF one
<1>3. /\ one \o s \in Seq(S)
      /\ Len(one \o s) = Len(s) + 1
      /\ \A i \in 1..(Len(s) + 1) : (one \o s)[i] = IF i <= 1 THEN one[i] ELSE s[i - 1]
  BY <1>1, <1>2, ConcatProperties DEF one
<1>4. (one \o s)[1] = x
  BY <1>1, <1>2, <1>3 DEF one
<1>5. \A i \in 2..Len(one \o s) : i - 1 \in 1..Len(s) /\ (one \o s)[i] = s[i - 1]
  <2> TAKE i \in 2..Len(one \o s)
  <2>1. i \in 1..(Len(s) + 1) /\ ~(i <= 1) /\ i - 1 \in 1..Len(s)
    BY <1>2, <1>3
  <2> QED
    BY <1>3, <2>1
<1> QED
  BY <1>3, <1>4, <1>5 DEF one

LEMMA Appended ==
  ASSUME NEW S, NEW x \in S, NEW s \in Seq(S)
  PROVE  /\ s \o <<x>> = Append(s, x)
         /\ Append(s, x) \in Seq(S)
         /\ Len(s) \in Nat
         /\ DOMAIN s = 1..Len(s)
         /\ DOMAIN Append(s, x) = 1..(Len(s) + 1)
         /\ Append(s, x)[Len(s) + 1] = x
         /\ \A i \in 1..Len(s) : Append(s, x)[i] = s[i]
<1>1. s \o <<x>> = Append(s, x)
  BY AppendIsConcat
<1>2. /\ Append(s, x) \in Seq(S) /\ Len(Append(s, x)) = Len(s) + 1
      /\ Append(s, x)[Len(s) + 1] = x
      /\ \A i \in 1..Len(s) : Append(s, x)[i] = s[i]
  BY AppendProperties
<1> QED
  BY <1>1, <1>2, LenProperties
-----------------------------------------------------------------------------
(* What decoding a packet does, whichever way it goes.  It is reported, and
   the call waits for that callback, or it is not and the call is over. *)
Reports(n, stage, waiting) ==
  \/ /\ \E status \in {"Success", "Error"}, count \in 0..1 :
          reports' = Append(reports, [packet |-> n, status |-> status,
                                      handler |-> handlerSet, frames |-> count])
     /\ calls' = <<[packet |-> n, stage |-> stage]>> \o waiting
  \/ reports' = reports /\ calls' = waiting

Fails(c) ==
  /\ shown' = shown
  /\ ctx' = IF c = Null THEN Null ELSE [c EXCEPT !.keyed = FALSE]

Shows(n, p, c) ==
  /\ c # Null /\ (c.keyed \/ p.key)
  /\ shown' = Append(shown, [packet |-> n, w |-> p.w, h |-> p.h])
  /\ ctx' = [c EXCEPT !.keyed = TRUE]

LEMMA InternalEffect ==
  ASSUME TypeOK, NEW n, NEW p, NEW c, NEW waiting, DecodeInternal(n, p, c, waiting)
  PROVE  /\ Reports(n, "return", waiting)
         /\ Fails(c) \/ Shows(n, p, c)
         /\ faults' \in 0..MaxFaults
<1>1. shown \o <<>> = shown
  BY ConcatEmptySeq DEF TypeOK
<1>2. Len(<<>>) = 0 /\ 0 \in 0..1 /\ 1 \in 0..1
  OBVIOUS
<1>3. CASE ReportResult(n, "Error", <<>>, waiting)
           /\ ctx' = (IF c = Null THEN Null ELSE [c EXCEPT !.keyed = FALSE])
           /\ (UNCHANGED faults \/ LibvpxFails)
  <2>1. Reports(n, "return", waiting) /\ shown' = shown
    BY <1>1, <1>2, <1>3 DEF ReportResult, CallBack, Reports
  <2>2. faults' \in 0..MaxFaults
    BY <1>3, VpxDecoderAssumption DEF LibvpxFails, TypeOK
  <2> QED
    BY <1>3, <2>1, <2>2 DEF Fails
<1>4. CASE /\ Decodable(p, c)
           /\ ctx' = [c EXCEPT !.keyed = TRUE]
           /\ UNCHANGED faults
           /\ ReportResult(n, "Success", <<[packet |-> n, w |-> p.w, h |-> p.h]>>, waiting)
  <2> DEFINE f == [packet |-> n, w |-> p.w, h |-> p.h]
  <2>1. <<f>> # <<>> /\ Len(<<f>>) = 1
    OBVIOUS
  <2>2. CallBack(n, "Success", <<f>>, "return", waiting)
    BY <1>4, <2>1 DEF ReportResult
  <2>3. shown \o <<f>> = Append(shown, f)
    BY AppendIsConcat DEF TypeOK
  <2>4. shown' = Append(shown, f)
    BY <2>2, <2>3 DEF CallBack
  <2>5. Reports(n, "return", waiting)
    BY <1>2, <2>1, <2>2 DEF CallBack, Reports
  <2>6. Shows(n, p, c)
    BY <1>4, <2>4 DEF Shows, Decodable
  <2>7. faults' \in 0..MaxFaults
    BY <1>4 DEF TypeOK
  <2> QED
    BY <2>5, <2>6, <2>7
<1> QED
  BY <1>3, <1>4 DEF DecodeInternal

(* A call of Decode keeps the context, replaces it, or loses it. *)
KeepsContext(p) ==
  /\ UpToDate(p)
  /\ UNCHANGED <<width, height, initialized>>
  /\ Fails(ctx) \/ Shows(Len(received) + 1, p, ctx)
  /\ Reports(Len(received) + 1, "return", calls)

ReplacesContext(p) ==
  /\ width' = p.w /\ height' = p.h /\ initialized' = TRUE
  /\ \/ Fails(NewCtx(p.w, p.h))
     \/ Shows(Len(received) + 1, p, NewCtx(p.w, p.h))
  /\ Reports(Len(received) + 1, "return", calls)

LosesContext(p) ==
  /\ width' = p.w /\ height' = p.h /\ initialized' = FALSE
  /\ ctx' = Null
  /\ shown' = shown
  /\ reports' = Append(reports, [packet |-> Len(received) + 1, status |-> "Error",
                                 handler |-> handlerSet, frames |-> 0])
  /\ calls' = <<[packet |-> Len(received) + 1, stage |-> "decode"]>> \o calls

LEMMA DecodeEffect ==
  ASSUME TypeOK, NEW p \in PacketInputs, Decode(p)
  PROVE  /\ received' = Append(received, p)
         /\ reentered' = (reentered \/ calls # <<>>)
         /\ UNCHANGED <<handlerSet, crashed>>
         /\ faults' \in 0..MaxFaults
         /\ KeepsContext(p) \/ ReplacesContext(p) \/ LosesContext(p)
<1> DEFINE n == Len(received) + 1
<1>1. /\ received' = Append(received, p)
      /\ reentered' = (reentered \/ calls # <<>>)
      /\ UNCHANGED <<handlerSet, crashed>>
  BY DEF Decode, Receive
<1>2. CASE /\ UpToDate(p)
           /\ DecodeInternal(n, p, ctx, calls)
           /\ UNCHANGED <<size, initialized>>
  BY <1>1, <1>2, InternalEffect DEF KeepsContext, size
<1>3. CASE /\ TakeSize(p)
           /\ initialized' = TRUE
           /\ DecodeInternal(n, p, NewCtx(p.w, p.h), calls)
  BY <1>1, <1>3, InternalEffect DEF ReplacesContext, TakeSize
<1>4. CASE LibvpxFails /\ TakeSize(p) /\ initialized' = FALSE /\ ctx' = Null
           /\ ReportNoContext(n)
  <2>1. shown \o <<>> = shown
    BY ConcatEmptySeq DEF TypeOK
  <2>2. Len(<<>>) = 0
    OBVIOUS
  <2>3. LosesContext(p)
    BY <1>4, <2>1, <2>2 DEF LosesContext, TakeSize, ReportNoContext, CallBack
  <2>4. faults' \in 0..MaxFaults
    BY <1>4, VpxDecoderAssumption DEF LibvpxFails, TypeOK
  <2> QED
    BY <1>1, <2>3, <2>4
<1> QED
  BY <1>1, <1>2, <1>3, <1>4 DEF Decode

(* A waiting call of Decode goes on. *)
LEMMA GoesOnEffect ==
  ASSUME TypeOK, DecodeGoesOn
  PROVE  /\ calls # <<>>
         /\ Head(calls).stage = "decode"
         /\ Head(calls).packet \in PacketNumbers
         /\ received[Head(calls).packet] \in PacketInputs
         /\ Reports(Head(calls).packet, "return", Tail(calls))
         /\ \/ Fails(ctx)
            \/ Shows(Head(calls).packet, received[Head(calls).packet], ctx)
         /\ faults' \in 0..MaxFaults
         /\ UNCHANGED <<width, height, initialized, handlerSet, received,
                        reentered, crashed>>
<1> DEFINE n == Head(calls).packet
<1>1. calls # <<>> /\ Head(calls).stage = "decode"
  BY DEF DecodeGoesOn
<1>2. Head(calls) \in CallsOf(PacketNumbers)
  BY <1>1, HeadTailProperties DEF TypeOK, CallsOf
<1>3. n \in PacketNumbers
  BY <1>2 DEF CallsOf
<1>4. received[n] \in PacketInputs
  BY <1>3, ElementOfSeq DEF PacketNumbers, TypeOK
<1>5. DecodeInternal(n, received[n], ctx, Tail(calls))
  BY DEF DecodeGoesOn
<1>6. UNCHANGED <<width, height, initialized, handlerSet, received, reentered, crashed>>
  BY DEF DecodeGoesOn, size
<1> QED
  BY <1>1, <1>3, <1>4, <1>5, <1>6, InternalEffect
-----------------------------------------------------------------------------
(* Types. *)

LEMMA ReportsTypes ==
  ASSUME NEW N, NEW n \in N, NEW stage \in {"decode", "return"},
         handlerSet \in BOOLEAN, reports \in Seq(ReportsOf(N)),
         NEW waiting \in Seq(CallsOf(N)), Reports(n, stage, waiting)
  PROVE  reports' \in Seq(ReportsOf(N)) /\ calls' \in Seq(CallsOf(N))
<1>1. CASE \E status \in {"Success", "Error"}, count \in 0..1 :
             reports' = Append(reports, [packet |-> n, status |-> status,
                                         handler |-> handlerSet, frames |-> count])
           /\ calls' = <<[packet |-> n, stage |-> stage]>> \o waiting
  <2>1. PICK status \in {"Success", "Error"}, count \in 0..1 :
          reports' = Append(reports, [packet |-> n, status |-> status,
                                      handler |-> handlerSet, frames |-> count])
    BY <1>1
  <2>2. [packet |-> n, status |-> status, handler |-> handlerSet, frames |-> count]
          \in ReportsOf(N)
    BY DEF ReportsOf
  <2>3. reports' \in Seq(ReportsOf(N))
    BY <2>1, <2>2, AppendProperties
  <2>4. [packet |-> n, stage |-> stage] \in CallsOf(N)
    BY DEF CallsOf
  <2>5. calls' \in Seq(CallsOf(N))
    BY <1>1, <2>4, Pushed
  <2> QED
    BY <2>3, <2>5
<1>2. CASE reports' = reports /\ calls' = waiting
  BY <1>2
<1> QED
  BY <1>1, <1>2 DEF Reports

LEMMA ShowsTypes ==
  ASSUME NEW N, NEW n \in N, NEW p \in PacketInputs, NEW w, NEW h, NEW c,
         c = Null \/ c \in ContextOf(w, h),
         shown \in Seq(FramesOf(N)), Fails(c) \/ Shows(n, p, c)
  PROVE  /\ shown' \in Seq(FramesOf(N))
         /\ c = Null => ctx' = Null
         /\ c \in ContextOf(w, h) => ctx' \in ContextOf(w, h)
<1>1. CASE Fails(c)
  BY <1>1 DEF Fails, ContextOf
<1>2. CASE Shows(n, p, c)
  <2>1. [packet |-> n, w |-> p.w, h |-> p.h] \in FramesOf(N)
    BY DEF FramesOf, PacketInputs
  <2>2. shown' \in Seq(FramesOf(N))
    BY <1>2, <2>1, AppendProperties DEF Shows
  <2>3. c # Null /\ c \in ContextOf(w, h) /\ ctx' = [c EXCEPT !.keyed = TRUE]
    BY <1>2 DEF Shows
  <2>4. ctx' \in ContextOf(w, h)
    BY <2>3 DEF ContextOf
  <2> QED
    BY <2>2, <2>3, <2>4
<1> QED
  BY <1>1, <1>2

(* What Decode receives is one more packet; the others are still there. *)
LEMMA ReceiveGrows ==
  ASSUME TypeOK, NEW p \in PacketInputs, received' = Append(received, p)
  PROVE  /\ Len(received) \in Nat
         /\ Len(received') = Len(received) + 1
         /\ received' \in Seq(PacketInputs)
         /\ received'[Len(received) + 1] = p
         /\ \A n \in PacketNumbers : received'[n] = received[n]
         /\ Len(received) + 1 \in PacketNumbers'
         /\ calls \in Seq(CallsOf(PacketNumbers'))
         /\ reports \in Seq(ReportsOf(PacketNumbers'))
         /\ shown \in Seq(FramesOf(PacketNumbers'))
<1>1. /\ Len(received) \in Nat
      /\ Len(received') = Len(received) + 1
      /\ received' \in Seq(PacketInputs)
      /\ received'[Len(received) + 1] = p
      /\ \A n \in PacketNumbers : received'[n] = received[n]
  BY AppendProperties, LenProperties DEF TypeOK, PacketNumbers
<1>2. PacketNumbers \subseteq PacketNumbers' /\ Len(received) + 1 \in PacketNumbers'
  BY <1>1 DEF PacketNumbers
<1>3. /\ CallsOf(PacketNumbers) \subseteq CallsOf(PacketNumbers')
      /\ ReportsOf(PacketNumbers) \subseteq ReportsOf(PacketNumbers')
      /\ FramesOf(PacketNumbers) \subseteq FramesOf(PacketNumbers')
  BY <1>2 DEF CallsOf, ReportsOf, FramesOf
<1>4. /\ calls \in Seq(CallsOf(PacketNumbers))
      /\ reports \in Seq(ReportsOf(PacketNumbers))
      /\ shown \in Seq(FramesOf(PacketNumbers))
  BY DEF TypeOK, CallsOf, ReportsOf, FramesOf
<1>5. /\ calls \in Seq(CallsOf(PacketNumbers'))
      /\ reports \in Seq(ReportsOf(PacketNumbers'))
      /\ shown \in Seq(FramesOf(PacketNumbers'))
  BY <1>3, <1>4, SeqMonotonic
<1> QED
  BY <1>1, <1>2, <1>5

LEMMA ContextType ==
  ASSUME TypeOK
  PROVE  /\ initialized => ctx \in ContextOf(width, height)
         /\ ~initialized => ctx = Null
  BY DEF TypeOK, ContextOf

(* The type invariant, in parts. *)
LEMMA TypeOKNext ==
  ASSUME width' \in Lengths \cup {0}, height' \in Lengths \cup {0},
         initialized' \in BOOLEAN, handlerSet' \in BOOLEAN,
         received' \in Seq(PacketInputs), reentered' \in BOOLEAN,
         crashed' \in BOOLEAN, faults' \in 0..MaxFaults,
         calls' \in Seq(CallsOf(PacketNumbers')),
         reports' \in Seq(ReportsOf(PacketNumbers')),
         shown' \in Seq(FramesOf(PacketNumbers')),
         initialized' => ctx' \in ContextOf(width', height'),
         ~initialized' => ctx' = Null
  PROVE  TypeOK'
  BY DEF TypeOK, CallsOf, ReportsOf, FramesOf, ContextOf

LEMMA DecodeTypes ==
  ASSUME TypeOK, NEW p \in PacketInputs, Decode(p)
  PROVE  TypeOK'
<1> DEFINE n == Len(received) + 1
           N == PacketNumbers'
           C == NewCtx(p.w, p.h)
<1>1. /\ received' = Append(received, p)
      /\ reentered' = (reentered \/ calls # <<>>)
      /\ UNCHANGED <<handlerSet, crashed>>
      /\ faults' \in 0..MaxFaults
      /\ KeepsContext(p) \/ ReplacesContext(p) \/ LosesContext(p)
  BY DecodeEffect
<1>2. /\ received' \in Seq(PacketInputs)
      /\ n \in N
      /\ calls \in Seq(CallsOf(N))
      /\ reports \in Seq(ReportsOf(N))
      /\ shown \in Seq(FramesOf(N))
  BY <1>1, ReceiveGrows
<1>3. /\ handlerSet' \in BOOLEAN /\ crashed' \in BOOLEAN /\ reentered' \in BOOLEAN
      /\ handlerSet \in BOOLEAN
      /\ width \in Lengths \cup {0} /\ height \in Lengths \cup {0}
  BY <1>1 DEF TypeOK
<1>4. p.w \in Lengths /\ p.h \in Lengths
  BY DEF PacketInputs
<1> HIDE DEF n, N
<1>5. CASE KeepsContext(p)
  <2>1. initialized /\ ctx \in ContextOf(width, height)
    BY <1>5, ContextType DEF KeepsContext, UpToDate
  <2>2. Fails(ctx) \/ Shows(n, p, ctx)
    BY <1>5 DEF KeepsContext, n
  <2>3. shown' \in Seq(FramesOf(N)) /\ ctx' \in ContextOf(width, height)
    BY <1>2, <2>1, <2>2, ShowsTypes
  <2>4. Reports(n, "return", calls)
    BY <1>5 DEF KeepsContext, n
  <2>5. reports' \in Seq(ReportsOf(N)) /\ calls' \in Seq(CallsOf(N))
    BY <1>2, <1>3, <2>4, ReportsTypes
  <2>6. width' = width /\ height' = height /\ initialized' = initialized
    BY <1>5 DEF KeepsContext
  <2>7. initialized' \in BOOLEAN /\ initialized'
    BY <2>1, <2>6 DEF TypeOK
  <2>8. ctx' \in ContextOf(width', height')
    BY <2>3, <2>6
  <2> QED
    BY <1>1, <1>2, <1>3, <2>3, <2>5, <2>6, <2>7, <2>8, TypeOKNext DEF N
<1>6. CASE ReplacesContext(p)
  <2>1. C \in ContextOf(p.w, p.h)
    BY DEF NewCtx, ContextOf
  <2>2. Fails(C) \/ Shows(n, p, C)
    BY <1>6 DEF ReplacesContext, n
  <2> HIDE DEF C
  <2>3. shown' \in Seq(FramesOf(N)) /\ ctx' \in ContextOf(p.w, p.h)
    BY <1>2, <2>1, <2>2, ShowsTypes
  <2>4. Reports(n, "return", calls)
    BY <1>6 DEF ReplacesContext, n
  <2>5. reports' \in Seq(ReportsOf(N)) /\ calls' \in Seq(CallsOf(N))
    BY <1>2, <1>3, <2>4, ReportsTypes
  <2>6. width' = p.w /\ height' = p.h /\ initialized' = TRUE
    BY <1>6 DEF ReplacesContext
  <2>7. ctx' \in ContextOf(width', height')
    BY <2>3, <2>6
  <2> QED
    BY <1>1, <1>2, <1>3, <1>4, <2>3, <2>5, <2>6, <2>7, TypeOKNext DEF N
<1>7. CASE LosesContext(p)
  <2>1. Reports(n, "decode", calls)
    BY <1>7 DEF LosesContext, Reports, n
  <2>2. reports' \in Seq(ReportsOf(N)) /\ calls' \in Seq(CallsOf(N))
    BY <1>2, <1>3, <2>1, ReportsTypes
  <2>3. /\ width' = p.w /\ height' = p.h /\ initialized' = FALSE
        /\ ctx' = Null /\ shown' = shown
    BY <1>7 DEF LosesContext
  <2> QED
    BY <1>1, <1>2, <1>3, <1>4, <2>2, <2>3, TypeOKNext DEF N
<1> QED
  BY <1>1, <1>5, <1>6, <1>7

LEMMA GoesOnTypes ==
  ASSUME TypeOK, DecodeGoesOn
  PROVE  TypeOK'
<1> DEFINE n == Head(calls).packet
           N == PacketNumbers
<1>1. /\ n \in N
      /\ received[n] \in PacketInputs
      /\ Reports(n, "return", Tail(calls))
      /\ Fails(ctx) \/ Shows(n, received[n], ctx)
      /\ faults' \in 0..MaxFaults
      /\ UNCHANGED <<width, height, initialized, handlerSet, received, reentered, crashed>>
      /\ calls # <<>>
  BY GoesOnEffect
<1>2. PacketNumbers' = N
  BY <1>1 DEF PacketNumbers
<1>3. /\ calls \in Seq(CallsOf(N))
      /\ reports \in Seq(ReportsOf(N))
      /\ shown \in Seq(FramesOf(N))
  BY DEF TypeOK, CallsOf, ReportsOf, FramesOf
<1>4. Tail(calls) \in Seq(CallsOf(N))
  BY <1>1, <1>3, HeadTailProperties
<1>5. handlerSet \in BOOLEAN
  BY DEF TypeOK
<1> HIDE DEF n, N
<1>6. reports' \in Seq(ReportsOf(N)) /\ calls' \in Seq(CallsOf(N))
  BY <1>1, <1>3, <1>4, <1>5, ReportsTypes
<1>7. /\ initialized => ctx \in ContextOf(width, height)
      /\ ~initialized => ctx = Null
      /\ initialized \in BOOLEAN
  BY ContextType DEF TypeOK
<1>8. ctx = Null \/ ctx \in ContextOf(width, height)
  BY <1>7
<1>9. /\ shown' \in Seq(FramesOf(N))
      /\ ctx = Null => ctx' = Null
      /\ ctx \in ContextOf(width, height) => ctx' \in ContextOf(width, height)
  BY <1>1, <1>3, <1>8, ShowsTypes
<1>10. /\ initialized' => ctx' \in ContextOf(width', height')
       /\ ~initialized' => ctx' = Null
  BY <1>1, <1>7, <1>9
<1>11. /\ width' \in Lengths \cup {0} /\ height' \in Lengths \cup {0}
       /\ initialized' \in BOOLEAN /\ handlerSet' \in BOOLEAN
       /\ received' \in Seq(PacketInputs) /\ reentered' \in BOOLEAN
       /\ crashed' \in BOOLEAN
  BY <1>1 DEF TypeOK
<1> QED
  BY <1>1, <1>2, <1>6, <1>9, <1>10, <1>11, TypeOKNext

(* Every other step changes no history. *)
LEMMA OtherTypes ==
  ASSUME TypeOK, UNCHANGED <<received, reports, shown, reentered>>,
         calls' = calls \/ (calls # <<>> /\ calls' = Tail(calls)),
         UNCHANGED <<width, height>>, initialized' \in BOOLEAN, handlerSet' \in BOOLEAN,
         crashed' \in BOOLEAN, faults' \in 0..MaxFaults,
         initialized' => ctx' \in ContextOf(width, height),
         ~initialized' => ctx' = Null
  PROVE  TypeOK'
<1>1. calls' \in Seq(CallsOf(PacketNumbers))
  <2>1. calls \in Seq(CallsOf(PacketNumbers))
    BY DEF TypeOK, CallsOf
  <2>2. calls # <<>> => Tail(calls) \in Seq(CallsOf(PacketNumbers))
    BY <2>1, HeadTailProperties
  <2> QED
    BY <2>1, <2>2
<1>2. PacketNumbers' = PacketNumbers
  BY DEF PacketNumbers
<1>3. /\ reports' \in Seq(ReportsOf(PacketNumbers))
      /\ shown' \in Seq(FramesOf(PacketNumbers))
      /\ received' \in Seq(PacketInputs)
      /\ reentered' \in BOOLEAN
      /\ width' \in Lengths \cup {0} /\ height' \in Lengths \cup {0}
  BY DEF TypeOK, ReportsOf, FramesOf
<1> QED
  BY <1>1, <1>2, <1>3, TypeOKNext

LEMMA NextTypes ==
  ASSUME TypeOK, [Next]_vars
  PROVE  TypeOK'
<1> USE DEF output
<1>1. /\ initialized => ctx \in ContextOf(width, height)
      /\ ~initialized => ctx = Null
      /\ initialized \in BOOLEAN /\ handlerSet \in BOOLEAN /\ crashed \in BOOLEAN
      /\ faults \in 0..MaxFaults
  BY ContextType DEF TypeOK
<1>2. ASSUME NEW set \in BOOLEAN, SetOutputHandler(set), UNCHANGED <<ctx, crashed, faults>>
      PROVE  TypeOK'
  BY <1>1, <1>2, OtherTypes DEF SetOutputHandler, size
<1>3. CASE Initialize
  <2>1. NewCtx(width, height) \in ContextOf(width, height)
    BY DEF NewCtx, ContextOf
  <2>2. faults' \in 0..MaxFaults
    BY <1>1, <1>3, VpxDecoderAssumption DEF Initialize, LibvpxFails
  <2>3. /\ UNCHANGED <<width, height, handlerSet, crashed>>
        /\ UNCHANGED <<calls, received, reports, shown, reentered>>
    BY <1>3 DEF Initialize, size
  <2>4. CASE initialized' = TRUE /\ ctx' = NewCtx(width, height)
    BY <1>1, <2>1, <2>2, <2>3, <2>4, OtherTypes
  <2>5. CASE UNCHANGED <<initialized, ctx>>
    BY <1>1, <2>2, <2>3, <2>5, OtherTypes
  <2> QED
    BY <1>3, <2>4, <2>5 DEF Initialize
<1>4. CASE Shutdown
  BY <1>1, <1>4, OtherTypes DEF Shutdown, size
<1>5. CASE Drain
  BY <1>1, <1>5, OtherTypes DEF Drain, baseVars, size
<1>6. ASSUME NEW p \in PacketInputs, Decode(p)
      PROVE  TypeOK'
  BY <1>6, DecodeTypes
<1>7. CASE DecodeGoesOn
  BY <1>7, GoesOnTypes
<1>8. CASE DecodeReturns /\ UNCHANGED <<ctx, crashed, faults>>
  BY <1>1, <1>8, OtherTypes DEF DecodeReturns, size
<1>9. CASE UNCHANGED vars
  BY <1>1, <1>9, OtherTypes DEF vars, baseVars, size
<1> QED
  BY <1>2, <1>3, <1>4, <1>5, <1>6, <1>7, <1>8, <1>9 DEF Next

LEMMA InitTypes == Init => TypeOK
<1> SUFFICES ASSUME Init
             PROVE  TypeOK
  OBVIOUS
<1>1. /\ calls \in Seq([packet : PacketNumbers, stage : {"decode", "return"}])
      /\ received \in Seq(PacketInputs)
      /\ reports \in Seq([packet : PacketNumbers, status : {"Success", "Error"},
                          handler : BOOLEAN, frames : 0..1])
      /\ shown \in Seq([packet : PacketNumbers, w : Lengths, h : Lengths])
  BY EmptySeq DEF Init, BaseInit
<1>2. /\ width \in Lengths \cup {0} /\ height \in Lengths \cup {0}
      /\ initialized \in BOOLEAN /\ handlerSet \in BOOLEAN
      /\ reentered \in BOOLEAN /\ crashed \in BOOLEAN
  BY DEF Init, BaseInit
<1>3. ctx \in (IF initialized THEN [w : {width}, h : {height}, keyed : BOOLEAN] ELSE {Null})
  BY DEF Init, BaseInit
<1>4. faults \in 0..MaxFaults
  BY VpxDecoderAssumption DEF Init
<1> QED
  BY <1>1, <1>2, <1>3, <1>4 DEF TypeOK

(* Types, and that there is a context of the decoder's size exactly when
   UpdateDecoderContext believes so, whatever failed. *)
THEOREM TypesKept == Spec => []TypeOK
<1>1. Init => TypeOK
  BY InitTypes
<1>2. TypeOK /\ [Next]_vars => TypeOK'
  BY NextTypes
<1> QED
  BY <1>1, <1>2, PTL DEF Spec
-----------------------------------------------------------------------------
(* The order of what is shown, and what it is predicted from. *)

Ordered == \A i, j \in DOMAIN shown : i < j => shown[i].packet < shown[j].packet

PredictedAt(i) ==
  \/ received[shown[i].packet].key
  \/ i > 1 /\ shown[i - 1].packet = shown[i].packet - 1

Predicted == \A i \in DOMAIN shown : PredictedAt(i)

(* The context can predict the next picture from its last. *)
Keyed == ctx # Null /\ ctx.keyed

(* The call on top has reported that there is no context, and will decode. *)
Pending == calls # <<>> /\ Head(calls).stage = "decode"

(* Unless a callback calls Decode, one call waits at most, and it is for the
   last packet.  What a context predicts from is the picture of the last
   packet, which was shown; and nothing was shown for a packet that is yet to
   be decoded. *)
OrderInv ==
  ~reentered =>
    /\ calls # <<>> => Tail(calls) = <<>>
    /\ Ordered
    /\ Predicted
    /\ Keyed => /\ ~Pending
                /\ shown # <<>>
                /\ shown[Len(shown)].packet = Len(received)
    /\ Pending => /\ Head(calls).packet = Len(received)
                  /\ \A i \in DOMAIN shown : shown[i].packet < Len(received)

(* A frame is shown after those of earlier packets. *)
LEMMA NextShown ==
  ASSUME TypeOK, Ordered, Predicted, NEW n \in Nat, NEW p \in PacketInputs,
         shown' = Append(shown, [packet |-> n, w |-> p.w, h |-> p.h]),
         \A i \in DOMAIN shown : shown[i].packet < n,
         \A m \in PacketNumbers : received'[m] = received[m],
         received'[n] = p,
         p.key \/ (shown # <<>> /\ shown[Len(shown)].packet = n - 1)
  PROVE  /\ Ordered' /\ Predicted'
         /\ shown' # <<>> /\ shown'[Len(shown')].packet = n
<1> DEFINE f == [packet |-> n, w |-> p.w, h |-> p.h]
           S == [packet : Nat, w : Lengths, h : Lengths]
           k == Len(shown) + 1
<1>1. f \in S
  BY DEF PacketInputs
<1>2. shown \in Seq(S)
  <2>1. PacketNumbers \subseteq Nat
    BY DEF PacketNumbers
  <2>2. [packet : PacketNumbers, w : Lengths, h : Lengths] \subseteq S
    BY <2>1
  <2> HIDE DEF S
  <2> QED
    BY <2>2, SeqMonotonic DEF TypeOK
<1>3. /\ Len(shown) \in Nat
      /\ DOMAIN shown = 1..Len(shown)
      /\ DOMAIN shown' = 1..k
      /\ shown'[k] = f
      /\ \A i \in 1..Len(shown) : shown'[i] = shown[i]
      /\ shown' \in Seq(S)
  BY <1>1, <1>2, Appended
<1>4. f.packet = n
  OBVIOUS
<1> HIDE DEF f
<1>5. Len(shown') = k /\ shown' # <<>>
  <2>1. Len(shown') \in Nat /\ DOMAIN shown' = 1..Len(shown')
    BY <1>3, LenProperties
  <2>2. Len(shown') = k
    BY <1>3, <2>1
  <2> QED
    BY <1>3, <2>2, EmptySeq
<1>6. shown'[Len(shown')].packet = n
  BY <1>3, <1>4, <1>5
<1>7. \A i \in 1..Len(shown) : shown[i].packet \in Nat /\ shown[i].packet < n
  <2> TAKE i \in 1..Len(shown)
  <2>1. shown[i] \in S
    BY <1>2, ElementOfSeq
  <2>2. shown[i].packet \in Nat
    BY <2>1
  <2> QED
    BY <1>3, <2>2
<1>8. ASSUME NEW i \in 1..k, NEW j \in 1..k, i < j
      PROVE  shown'[i].packet < shown'[j].packet
  <2>1. i \in 1..Len(shown) /\ shown'[i] = shown[i]
    BY <1>3, <1>8
  <2>2. CASE j = k
    BY <1>3, <1>4, <1>7, <2>1, <2>2
  <2>3. CASE j # k
    <3>1. j \in 1..Len(shown) /\ shown'[j] = shown[j]
      BY <1>3, <2>3
    <3> QED
      BY <1>3, <1>8, <2>1, <3>1 DEF Ordered
  <2> QED
    BY <2>2, <2>3
<1>9. Ordered'
  BY <1>3, <1>8 DEF Ordered
<1>10. ASSUME NEW i \in 1..k
       PROVE  PredictedAt(i)'
  <2>1. CASE i = k
    <3>1. shown'[i].packet = n
      BY <1>3, <1>4, <2>1
    <3>2. received'[shown'[i].packet] = p
      BY <3>1
    <3>3. CASE p.key
      BY <3>2, <3>3 DEF PredictedAt
    <3>4. CASE shown # <<>> /\ shown[Len(shown)].packet = n - 1
      <4>1. Len(shown) # 0
        BY <1>2, <3>4, EmptySeq
      <4>2. i - 1 = Len(shown) /\ i - 1 \in 1..Len(shown) /\ i > 1
        BY <1>3, <2>1, <4>1
      <4>3. shown'[i - 1].packet = n - 1
        BY <1>3, <3>4, <4>2
      <4>4. i > 1 /\ shown'[i - 1].packet = shown'[i].packet - 1
        BY <3>1, <4>2, <4>3
      <4> QED
        BY <4>4 DEF PredictedAt
    <3> QED
      BY <3>3, <3>4
  <2>2. CASE i # k
    <3>1. i \in 1..Len(shown) /\ shown'[i] = shown[i]
      BY <1>3, <2>2
    <3>2. shown[i] \in [packet : PacketNumbers, w : Lengths, h : Lengths]
      BY <1>3, <3>1, ElementOfSeq DEF TypeOK
    <3>3. received'[shown'[i].packet] = received[shown[i].packet]
      BY <3>1, <3>2
    <3>4. PredictedAt(i)
      BY <1>3, <3>1 DEF Predicted
    <3>5. CASE received[shown[i].packet].key
      BY <3>3, <3>5 DEF PredictedAt
    <3>6. CASE i > 1 /\ shown[i - 1].packet = shown[i].packet - 1
      <4>1. i - 1 \in 1..Len(shown) /\ shown'[i - 1] = shown[i - 1]
        BY <1>3, <3>1, <3>6
      <4>2. i > 1 /\ shown'[i - 1].packet = shown'[i].packet - 1
        BY <3>1, <3>6, <4>1
      <4> QED
        BY <4>2 DEF PredictedAt
    <3> QED
      BY <3>4, <3>5, <3>6 DEF PredictedAt
  <2> QED
    BY <2>1, <2>2
<1>11. Predicted'
  BY <1>3, <1>10 DEF Predicted
<1> QED
  BY <1>5, <1>6, <1>9, <1>11

(* Nothing is shown. *)
LEMMA NothingShown ==
  ASSUME TypeOK, Ordered, Predicted, shown' = shown,
         \A m \in PacketNumbers : received'[m] = received[m]
  PROVE  Ordered' /\ Predicted'
<1>1. Ordered'
  BY DEF Ordered
<1>2. ASSUME NEW i \in DOMAIN shown
      PROVE  PredictedAt(i)'
  <2>1. shown[i] \in [packet : PacketNumbers, w : Lengths, h : Lengths]
    BY ElementOfSeq, LenProperties DEF TypeOK
  <2>2. received'[shown'[i].packet] = received[shown[i].packet]
    BY <2>1
  <2>3. PredictedAt(i)
    BY DEF Predicted
  <2> QED
    BY <2>2, <2>3 DEF PredictedAt
<1>3. Predicted'
  BY <1>2 DEF Predicted
<1> QED
  BY <1>1, <1>3

(* One call, if any, is left waiting. *)
LEMMA OneCall ==
  ASSUME NEW n, NEW stage,
         calls' = <<[packet |-> n, stage |-> stage]>> \o <<>>
  PROVE  /\ Tail(calls') = <<>>
         /\ calls' # <<>>
         /\ Head(calls') = [packet |-> n, stage |-> stage]
<1> DEFINE c == [packet |-> n, stage |-> stage]
<1>1. <<c>> \in Seq({c})
  OBVIOUS
<1>2. <<c>> \o <<>> = <<c>>
  BY <1>1, ConcatEmptySeq
<1>3. Tail(<<c>>) = <<>> /\ <<c>> # <<>> /\ Head(<<c>>) = c
  OBVIOUS
<1> QED
  BY <1>2, <1>3

LEMMA ReportsLeaves ==
  ASSUME NEW n, Reports(n, "return", <<>>)
  PROVE  (calls' # <<>> => Tail(calls') = <<>>) /\ ~Pending'
<1>1. CASE calls' = <<[packet |-> n, stage |-> "return"]>> \o <<>>
  <2>1. Tail(calls') = <<>> /\ Head(calls') = [packet |-> n, stage |-> "return"]
    BY <1>1, OneCall
  <2>2. Head(calls').stage = "return"
    BY <2>1
  <2> QED
    BY <2>1, <2>2 DEF Pending
<1>2. CASE calls' = <<>>
  BY <1>2 DEF Pending
<1> QED
  BY <1>1, <1>2 DEF Reports

(* A context that failed has nothing to predict from. *)
LEMMA FailsForgets ==
  ASSUME NEW w, NEW h, NEW c, c = Null \/ c \in ContextOf(w, h), Fails(c)
  PROVE  ~Keyed'
<1>1. CASE c = Null
  BY <1>1 DEF Fails, Keyed
<1>2. CASE c # Null /\ c \in ContextOf(w, h)
  <2>1. ctx' = [c EXCEPT !.keyed = FALSE]
    BY <1>2 DEF Fails
  <2>2. ctx'.keyed = FALSE
    BY <1>2, <2>1 DEF ContextOf
  <2> QED
    BY <2>2 DEF Keyed
<1> QED
  BY <1>1, <1>2

(* Decoding packet n, the last, which no frame was shown for. *)
LEMMA DecodesInOrder ==
  ASSUME TypeOK, Ordered, Predicted, ~reentered',
         NEW n \in Nat, NEW p \in PacketInputs, NEW w, NEW h, NEW c,
         c = Null \/ c \in ContextOf(w, h),
         Fails(c) \/ Shows(n, p, c),
         Reports(n, "return", <<>>),
         n = Len(received'), received'[n] = p,
         \A m \in PacketNumbers : received'[m] = received[m],
         \A i \in DOMAIN shown : shown[i].packet < n,
         c # Null /\ c.keyed => shown # <<>> /\ shown[Len(shown)].packet = n - 1
  PROVE  OrderInv'
<1>1. (calls' # <<>> => Tail(calls') = <<>>) /\ ~Pending'
  BY ReportsLeaves
<1>2. CASE Fails(c)
  <2>1. ~Keyed'
    BY <1>2, FailsForgets
  <2>2. shown' = shown
    BY <1>2 DEF Fails
  <2>3. Ordered' /\ Predicted'
    BY <2>2, NothingShown
  <2> QED
    BY <1>1, <2>1, <2>3 DEF OrderInv
<1>3. CASE Shows(n, p, c)
  <2>1. shown' = Append(shown, [packet |-> n, w |-> p.w, h |-> p.h])
    BY <1>3 DEF Shows
  <2>2. c # Null /\ (c.keyed \/ p.key)
    BY <1>3 DEF Shows
  <2>3. p.key \/ (shown # <<>> /\ shown[Len(shown)].packet = n - 1)
    BY <2>2
  <2>4. /\ Ordered' /\ Predicted'
        /\ shown' # <<>> /\ shown'[Len(shown')].packet = n
    BY <2>1, <2>3, NextShown
  <2> QED
    BY <1>1, <2>4 DEF OrderInv
<1> QED
  BY <1>2, <1>3

LEMMA ShownSoFar ==
  ASSUME TypeOK
  PROVE  \A i \in DOMAIN shown :
           shown[i].packet \in PacketNumbers /\ shown[i].packet < Len(received) + 1
<1> SUFFICES ASSUME NEW i \in DOMAIN shown
             PROVE  shown[i].packet \in PacketNumbers /\ shown[i].packet < Len(received) + 1
  OBVIOUS
<1>1. shown[i] \in [packet : PacketNumbers, w : Lengths, h : Lengths]
  BY ElementOfSeq, LenProperties DEF TypeOK
<1>2. Len(received) \in Nat
  BY LenProperties DEF TypeOK
<1>3. shown[i].packet \in PacketNumbers
  BY <1>1
<1> QED
  BY <1>2, <1>3 DEF PacketNumbers

LEMMA DecodeOrders ==
  ASSUME TypeOK, OrderInv, NEW p \in PacketInputs, Decode(p)
  PROVE  OrderInv'
<1> SUFFICES ASSUME ~reentered'
             PROVE  OrderInv'
  BY DEF OrderInv
<1> DEFINE n == Len(received) + 1
           C == NewCtx(p.w, p.h)
<1>1. /\ received' = Append(received, p)
      /\ reentered' = (reentered \/ calls # <<>>)
      /\ KeepsContext(p) \/ ReplacesContext(p) \/ LosesContext(p)
  BY DecodeEffect
<1>2. ~reentered /\ calls = <<>>
  BY <1>1
<1>3. /\ Len(received) \in Nat
      /\ Len(received') = n
      /\ received'[n] = p
      /\ \A m \in PacketNumbers : received'[m] = received[m]
  BY <1>1, ReceiveGrows
<1>4. n \in Nat /\ n - 1 = Len(received)
  BY <1>3
<1>5. /\ Ordered /\ Predicted
      /\ Keyed => shown # <<>> /\ shown[Len(shown)].packet = Len(received)
  BY <1>2 DEF OrderInv
<1>6. \A i \in DOMAIN shown : shown[i].packet < n
  BY ShownSoFar
<1> HIDE DEF n
<1>7. CASE KeepsContext(p)
  <2>1. /\ Fails(ctx) \/ Shows(n, p, ctx)
        /\ Reports(n, "return", <<>>)
    BY <1>2, <1>7 DEF KeepsContext, n
  <2>2. ctx = Null \/ ctx \in ContextOf(width, height)
    BY ContextType DEF TypeOK
  <2>3. ctx # Null /\ ctx.keyed => shown # <<>> /\ shown[Len(shown)].packet = n - 1
    BY <1>4, <1>5 DEF Keyed
  <2> QED
    BY <1>3, <1>4, <1>5, <1>6, <2>1, <2>2, <2>3, DecodesInOrder
<1>8. CASE ReplacesContext(p)
  <2>1. /\ Fails(C) \/ Shows(n, p, C)
        /\ Reports(n, "return", <<>>)
    BY <1>2, <1>8 DEF ReplacesContext, n
  <2>2. C \in ContextOf(p.w, p.h) /\ ~C.keyed
    BY DEF NewCtx, ContextOf
  <2> HIDE DEF C
  <2> QED
    BY <1>3, <1>4, <1>5, <1>6, <2>1, <2>2, DecodesInOrder
<1>9. CASE LosesContext(p)
  <2>1. calls' = <<[packet |-> n, stage |-> "decode"]>> \o <<>>
    BY <1>2, <1>9 DEF LosesContext, n
  <2>2. Tail(calls') = <<>> /\ Head(calls') = [packet |-> n, stage |-> "decode"]
    BY <2>1, OneCall
  <2>3. Head(calls').packet = Len(received')
    BY <1>3, <2>2
  <2>4. ~Keyed' /\ shown' = shown
    BY <1>9 DEF LosesContext, Keyed
  <2>5. Ordered' /\ Predicted'
    BY <1>3, <1>5, <2>4, NothingShown
  <2>6. \A i \in DOMAIN shown' : shown'[i].packet < Len(received')
    BY <1>3, <1>6, <2>4
  <2> QED
    BY <2>2, <2>3, <2>4, <2>5, <2>6 DEF OrderInv
<1> QED
  BY <1>1, <1>7, <1>8, <1>9

LEMMA GoesOnOrders ==
  ASSUME TypeOK, OrderInv, DecodeGoesOn
  PROVE  OrderInv'
<1> SUFFICES ASSUME ~reentered'
             PROVE  OrderInv'
  BY DEF OrderInv
<1> DEFINE n == Head(calls).packet
           p == received[n]
<1>1. /\ calls # <<>>
      /\ Head(calls).stage = "decode"
      /\ n \in PacketNumbers
      /\ p \in PacketInputs
      /\ Reports(n, "return", Tail(calls))
      /\ Fails(ctx) \/ Shows(n, p, ctx)
      /\ received' = received /\ reentered' = reentered
  BY GoesOnEffect
<1>2. Pending /\ ~reentered
  BY <1>1 DEF Pending
<1>3. /\ Tail(calls) = <<>>
      /\ Ordered /\ Predicted
      /\ ~Keyed
      /\ n = Len(received)
      /\ \A i \in DOMAIN shown : shown[i].packet < n
  BY <1>1, <1>2 DEF OrderInv
<1>4. n \in Nat
  BY <1>1 DEF PacketNumbers
<1> HIDE DEF n
<1>5. Reports(n, "return", <<>>)
  BY <1>1, <1>3
<1>6. ctx = Null \/ ctx \in ContextOf(width, height)
  BY ContextType DEF TypeOK
<1>7. ~(ctx # Null /\ ctx.keyed)
  BY <1>3 DEF Keyed
<1>8. /\ n = Len(received') /\ received'[n] = p
      /\ \A m \in PacketNumbers : received'[m] = received[m]
  BY <1>1, <1>3
<1> HIDE DEF p
<1> QED
  BY <1>1, <1>3, <1>4, <1>5, <1>6, <1>7, <1>8, DecodesInOrder

(* Every other step shows nothing, and gives no context a picture. *)
LEMMA OtherOrders ==
  ASSUME TypeOK, OrderInv, UNCHANGED <<received, shown, reentered>>,
         calls' = calls \/ (calls # <<>> /\ calls' = Tail(calls)),
         Keyed' => Keyed
  PROVE  OrderInv'
<1> SUFFICES ASSUME ~reentered
             PROVE  OrderInv'
  BY DEF OrderInv
<1>1. Ordered' /\ Predicted'
  BY NothingShown DEF OrderInv
<1>2. calls' # <<>> => calls' = calls
  BY DEF OrderInv
<1>3. (calls' # <<>> => Tail(calls') = <<>>) /\ (Pending' => Pending)
  BY <1>2 DEF OrderInv, Pending
<1> QED
  BY <1>1, <1>2, <1>3 DEF OrderInv, Pending

LEMMA NextOrders ==
  ASSUME TypeOK, OrderInv, [Next]_vars
  PROVE  OrderInv'
<1> USE DEF output
<1>1. ASSUME NEW set \in BOOLEAN, SetOutputHandler(set), UNCHANGED <<ctx, crashed, faults>>
      PROVE  OrderInv'
  <2>1. Keyed' => Keyed
    BY <1>1 DEF Keyed
  <2> QED
    BY <1>1, <2>1, OtherOrders DEF SetOutputHandler
<1>2. CASE Initialize
  <2>1. CASE ctx' = NewCtx(width, height)
    <3>1. ~Keyed'
      BY <2>1 DEF NewCtx, Keyed
    <3> QED
      BY <1>2, <3>1, OtherOrders DEF Initialize
  <2>2. CASE ctx' = ctx
    <3>1. Keyed' => Keyed
      BY <2>2 DEF Keyed
    <3> QED
      BY <1>2, <3>1, OtherOrders DEF Initialize
  <2> QED
    BY <1>2, <2>1, <2>2 DEF Initialize
<1>3. CASE Shutdown
  <2>1. ~Keyed'
    BY <1>3 DEF Shutdown, Keyed
  <2> QED
    BY <1>3, <2>1, OtherOrders DEF Shutdown
<1>4. CASE Drain
  <2>1. Keyed' => Keyed
    BY <1>4 DEF Drain, Keyed
  <2> QED
    BY <1>4, <2>1, OtherOrders DEF Drain, baseVars
<1>5. ASSUME NEW p \in PacketInputs, Decode(p)
      PROVE  OrderInv'
  BY <1>5, DecodeOrders
<1>6. CASE DecodeGoesOn
  BY <1>6, GoesOnOrders
<1>7. CASE DecodeReturns /\ UNCHANGED <<ctx, crashed, faults>>
  <2>1. Keyed' => Keyed
    BY <1>7 DEF Keyed
  <2> QED
    BY <1>7, <2>1, OtherOrders DEF DecodeReturns
<1>8. CASE UNCHANGED vars
  <2>1. Keyed' => Keyed
    BY <1>8 DEF vars, Keyed
  <2> QED
    BY <1>8, <2>1, OtherOrders DEF vars, baseVars
<1> QED
  BY <1>1, <1>2, <1>3, <1>4, <1>5, <1>6, <1>7, <1>8 DEF Next

LEMMA OrderInvariant == Spec => []OrderInv
<1>1. Init => OrderInv
  <2> SUFFICES ASSUME Init
               PROVE  OrderInv
    OBVIOUS
  <2>1. shown = <<>> /\ calls = <<>> /\ ctx = Null
    BY DEF Init, BaseInit
  <2>2. DOMAIN shown = {}
    BY <2>1
  <2> QED
    BY <2>1, <2>2 DEF OrderInv, Ordered, Predicted, Keyed, Pending
<1>2. TypeOK /\ OrderInv /\ [Next]_vars => OrderInv'
  BY NextOrders
<1> QED
  BY <1>1, <1>2, TypesKept, PTL DEF Spec

(* Frames come in the order of their packets, each once, also when a context is
   lost, replaced or made by a callback, unless a callback calls Decode. *)
THEOREM FramesInOrder == Spec => []ShownInOrder
<1>1. OrderInv => ShownInOrder
  BY DEF OrderInv, Ordered, ShownInOrder
<1> QED
  BY <1>1, OrderInvariant, PTL

(* A frame is predicted from the frame shown before it or from none, whatever
   contexts failed between. *)
THEOREM NothingPredictedFromUnseen == Spec => []ShownPredictsFromShown
<1>1. OrderInv => ShownPredictsFromShown
  BY DEF OrderInv, Predicted, PredictedAt, ShownPredictsFromShown
<1> QED
  BY <1>1, OrderInvariant, PTL
-----------------------------------------------------------------------------
(* How often a packet is reported. *)

(* The reports of packet n to a handler. *)
ReportsBy(n) == {i \in DOMAIN reports : reports[i].packet = n /\ reports[i].handler}

OneOrTwo(n) ==
  \A i, j \in ReportsBy(n) : i < j =>
    /\ reports[i].status = "Error"
    /\ \A k \in ReportsBy(n) : k \in {i, j}

OneError(n) ==
  \A i, j \in ReportsBy(n) : i = j /\ reports[i].status = "Error"

(* The packets that the calls cs are yet to decode. *)
Undecoded(cs) == {cs[a].packet : a \in {b \in DOMAIN cs : cs[b].stage = "decode"}}

OneEach(cs) ==
  \A a, b \in DOMAIN cs :
    cs[a].stage = "decode" /\ cs[b].stage = "decode" /\ cs[a].packet = cs[b].packet
    => a = b

(* A packet that is yet to be decoded was reported once at most, as an error,
   and by one call: the call reports its second and last result. *)
ReportsInv ==
  /\ \A n \in PacketNumbers : OneOrTwo(n)
  /\ \A n \in Undecoded(calls) : OneError(n)
  /\ OneEach(calls)

LEMMA ReportAdded ==
  ASSUME reports \in Seq(ReportsOf(Nat)), handlerSet \in BOOLEAN, NEW n \in Nat,
         NEW status \in {"Success", "Error"}, NEW count \in 0..1,
         reports' = Append(reports, [packet |-> n, status |-> status,
                                     handler |-> handlerSet, frames |-> count])
  PROVE  /\ \A m : m # n /\ OneOrTwo(m) => OneOrTwo(m)'
         /\ \A m : m # n /\ OneError(m) => OneError(m)'
         /\ OneError(n) => OneOrTwo(n)'
         /\ ReportsBy(n) = {} /\ status = "Error" => OneError(n)'
<1> DEFINE r == [packet |-> n, status |-> status, handler |-> handlerSet,
                 frames |-> count]
           k == Len(reports) + 1
<1>1. r \in ReportsOf(Nat)
  BY DEF ReportsOf
<1>2. /\ Len(reports) \in Nat
      /\ DOMAIN reports = 1..Len(reports)
      /\ DOMAIN reports' = 1..k
      /\ reports'[k] = r
      /\ \A i \in 1..Len(reports) : reports'[i] = reports[i]
  BY <1>1, Appended
<1>3. r.packet = n /\ r.status = status
  OBVIOUS
<1>4. /\ k \notin DOMAIN reports /\ DOMAIN reports' = DOMAIN reports \cup {k}
      /\ \A i \in DOMAIN reports : i < k /\ ~(k < i) /\ reports'[i] = reports[i]
      /\ \A i, j \in DOMAIN reports' : i \in DOMAIN reports \/ (i = k /\ ~(i < j))
  BY <1>2
<1> HIDE DEF r, k
<1>5. ASSUME NEW m, m # n
      PROVE  ReportsBy(m)' = ReportsBy(m)
  BY <1>2, <1>3, <1>4, <1>5, Zenon DEF ReportsBy
<1>6. ReportsBy(n)' \subseteq ReportsBy(n) \cup {k}
  BY <1>4, Zenon DEF ReportsBy
<1>7. \A m : \A i \in ReportsBy(m) : i \in DOMAIN reports /\ reports'[i] = reports[i]
  BY <1>4 DEF ReportsBy
<1>8. ASSUME NEW m, m # n, OneOrTwo(m)
      PROVE  OneOrTwo(m)'
  <2>1. ReportsBy(m)' = ReportsBy(m)
    BY <1>5, <1>8
  <2>2. \A i \in ReportsBy(m) : reports'[i] = reports[i]
    BY <1>7
  <2> SUFFICES ASSUME NEW i \in ReportsBy(m)', NEW j \in ReportsBy(m)', i < j
               PROVE  /\ reports'[i].status = "Error"
                      /\ \A l \in ReportsBy(m)' : l \in {i, j}
    BY DEF OneOrTwo
  <2>3. i \in ReportsBy(m) /\ j \in ReportsBy(m)
    BY <2>1
  <2>4. reports[i].status = "Error" /\ \A l \in ReportsBy(m) : l \in {i, j}
    BY <1>8, <2>3 DEF OneOrTwo
  <2> QED
    BY <2>1, <2>2, <2>3, <2>4
<1>9. ASSUME NEW m, m # n, OneError(m)
      PROVE  OneError(m)'
  <2>1. ReportsBy(m)' = ReportsBy(m)
    BY <1>5, <1>9
  <2>2. \A i \in ReportsBy(m) : reports'[i] = reports[i]
    BY <1>7
  <2> QED
    BY <1>9, <2>1, <2>2 DEF OneError
<1>10. OneError(n) => OneOrTwo(n)'
  <2> SUFFICES ASSUME OneError(n),
                      NEW i \in ReportsBy(n)', NEW j \in ReportsBy(n)', i < j
               PROVE  /\ reports'[i].status = "Error"
                      /\ \A l \in ReportsBy(n)' : l \in {i, j}
    BY DEF OneOrTwo
  <2>1. i \in DOMAIN reports' /\ j \in DOMAIN reports'
    BY DEF ReportsBy
  <2>2. i # k
    BY <1>4, <2>1
  <2>3. i \in ReportsBy(n)
    BY <1>6, <2>2
  <2>4. \A l \in ReportsBy(n) : l = i
    BY <2>3, Zenon DEF OneError
  <2>5. i # j
    BY <1>4, <2>1, <2>3 DEF ReportsBy
  <2>6. j = k
    BY <1>6, <2>4, <2>5
  <2>7. reports'[i].status = "Error"
    BY <1>7, <2>3 DEF OneError
  <2> QED
    BY <1>6, <2>4, <2>6, <2>7
<1>11. ReportsBy(n) = {} /\ status = "Error" => OneError(n)'
  BY <1>2, <1>3, <1>6 DEF OneError
<1> QED
  BY <1>8, <1>9, <1>10, <1>11

(* The calls that wait, when one more waits, and when one is over. *)
LEMMA UndecodedPushed ==
  ASSUME NEW N, NEW cs \in Seq(CallsOf(N)), OneEach(cs), NEW n \in N,
         NEW stage \in {"decode", "return"}, stage = "decode" => n \notin Undecoded(cs)
  PROVE  /\ \A m \in Undecoded(<<[packet |-> n, stage |-> stage]>> \o cs) :
              m \in Undecoded(cs) \/ (stage = "decode" /\ m = n)
         /\ OneEach(<<[packet |-> n, stage |-> stage]>> \o cs)
<1> DEFINE c == [packet |-> n, stage |-> stage]
           t == <<c>> \o cs
<1>1. c \in CallsOf(N)
  BY DEF CallsOf
<1>2. c.packet = n /\ c.stage = stage
  OBVIOUS
<1> HIDE DEF c
<1>3. /\ t \in Seq(CallsOf(N))
      /\ Len(t) = Len(cs) + 1
      /\ t[1] = c
      /\ \A i \in 2..Len(t) : i - 1 \in 1..Len(cs) /\ t[i] = cs[i - 1]
  BY <1>1, Pushed
<1> HIDE DEF t
<1>4. /\ DOMAIN t = 1..Len(t) /\ Len(t) \in Nat
      /\ DOMAIN cs = 1..Len(cs) /\ Len(cs) \in Nat
  BY <1>3, LenProperties
<1>5. \A a \in DOMAIN t : a = 1 \/ (a - 1 \in DOMAIN cs /\ t[a] = cs[a - 1])
  BY <1>3, <1>4
<1>6. \A m \in Undecoded(t) : m \in Undecoded(cs) \/ (stage = "decode" /\ m = n)
  <2> SUFFICES ASSUME NEW a \in DOMAIN t, t[a].stage = "decode"
               PROVE  t[a].packet \in Undecoded(cs) \/ (stage = "decode" /\ t[a].packet = n)
    BY DEF Undecoded
  <2> QED
    BY <1>2, <1>3, <1>5 DEF Undecoded
<1>7. OneEach(t)
  <2> SUFFICES ASSUME NEW a \in DOMAIN t, NEW b \in DOMAIN t,
                      t[a].stage = "decode", t[b].stage = "decode",
                      t[a].packet = t[b].packet
               PROVE  a = b
    BY DEF OneEach
  <2>1. CASE a = 1 /\ b # 1
    BY <1>2, <1>3, <1>5, <2>1 DEF Undecoded
  <2>2. CASE a # 1 /\ b = 1
    BY <1>2, <1>3, <1>5, <2>2 DEF Undecoded
  <2>3. CASE a # 1 /\ b # 1
    <3>1. a - 1 = b - 1
      BY <1>5, <2>3 DEF OneEach
    <3> QED
      BY <1>4, <3>1
  <2> QED
    BY <2>1, <2>2, <2>3
<1> QED
  BY <1>6, <1>7 DEF t, c

LEMMA UndecodedPopped ==
  ASSUME NEW S, NEW cs \in Seq(S), OneEach(cs), cs # <<>>
  PROVE  /\ Undecoded(Tail(cs)) \subseteq Undecoded(cs)
         /\ OneEach(Tail(cs))
         /\ Head(cs).stage = "decode" => /\ Head(cs).packet \in Undecoded(cs)
                                         /\ Head(cs).packet \notin Undecoded(Tail(cs))
<1> DEFINE t == Tail(cs)
<1>1. /\ t \in Seq(S) /\ Len(t) = Len(cs) - 1
      /\ \A i \in 1..Len(t) : t[i] = cs[i + 1]
  BY HeadTailProperties
<1>2. Len(cs) \in Nat \ {0} /\ Head(cs) = cs[1]
  BY EmptySeq
<1>3. DOMAIN t = 1..Len(t) /\ DOMAIN cs = 1..Len(cs)
  BY <1>1, LenProperties
<1> HIDE DEF t
<1>4. \A a \in DOMAIN t : a + 1 \in DOMAIN cs /\ a + 1 # 1 /\ t[a] = cs[a + 1]
  BY <1>1, <1>2, <1>3
<1>5. 1 \in DOMAIN cs
  BY <1>2, <1>3
<1>6. Undecoded(t) \subseteq Undecoded(cs)
  BY <1>4 DEF Undecoded
<1>7. OneEach(t)
  <2> SUFFICES ASSUME NEW a \in DOMAIN t, NEW b \in DOMAIN t,
                      t[a].stage = "decode", t[b].stage = "decode",
                      t[a].packet = t[b].packet
               PROVE  a = b
    BY DEF OneEach
  <2>1. a + 1 = b + 1
    BY <1>4 DEF OneEach
  <2> QED
    BY <1>1, <1>2, <1>3, <2>1
<1>8. Head(cs).stage = "decode" => Head(cs).packet \in Undecoded(cs)
  BY <1>2, <1>5 DEF Undecoded
<1>9. Head(cs).stage = "decode" => Head(cs).packet \notin Undecoded(t)
  BY <1>2, <1>4, <1>5 DEF Undecoded, OneEach
<1> QED
  BY <1>6, <1>7, <1>8, <1>9 DEF t

(* Packet n is decoded, while the calls waiting decode others. *)
LEMMA DecodingReports ==
  ASSUME NEW N, PacketNumbers' \subseteq N, N \subseteq Nat, NEW n \in N,
         reports \in Seq(ReportsOf(N)), handlerSet \in BOOLEAN,
         \A m \in N : m # n => OneOrTwo(m), OneError(n),
         NEW waiting \in Seq(CallsOf(N)), OneEach(waiting),
         \A m \in Undecoded(waiting) : m # n /\ OneError(m),
         Reports(n, "return", waiting)
  PROVE  ReportsInv'
<1>1. reports \in Seq(ReportsOf(Nat))
  <2>1. ReportsOf(N) \subseteq ReportsOf(Nat)
    BY DEF ReportsOf
  <2> QED
    BY <2>1, SeqMonotonic
<1>2. CASE /\ \E status \in {"Success", "Error"}, count \in 0..1 :
                reports' = Append(reports, [packet |-> n, status |-> status,
                                            handler |-> handlerSet, frames |-> count])
           /\ calls' = <<[packet |-> n, stage |-> "return"]>> \o waiting
  <2>1. /\ \A m : m # n /\ OneOrTwo(m) => OneOrTwo(m)'
        /\ \A m : m # n /\ OneError(m) => OneError(m)'
        /\ OneError(n) => OneOrTwo(n)'
    BY <1>1, <1>2, ReportAdded
  <2>2. Undecoded(calls') \subseteq Undecoded(waiting) /\ OneEach(calls')
    BY <1>2, UndecodedPushed
  <2>3. \A m \in PacketNumbers' : OneOrTwo(m)'
    BY <2>1, Zenon
  <2>4. \A m \in Undecoded(calls') : OneError(m)'
    BY <2>1, <2>2, Zenon
  <2> QED
    BY <2>2, <2>3, <2>4 DEF ReportsInv
<1>3. CASE reports' = reports /\ calls' = waiting
  <2>1. \A m : ReportsBy(m)' = ReportsBy(m)
    BY <1>3 DEF ReportsBy
  <2>2. \A m : (OneOrTwo(m) => OneOrTwo(m)') /\ (OneError(m) => OneError(m)')
    BY <1>3, <2>1, Zenon DEF OneOrTwo, OneError
  <2>3. OneOrTwo(n)
    <3>1. \A i \in ReportsBy(n) : i \in Nat
      BY <1>1, LenProperties DEF ReportsBy
    <3> QED
      BY <3>1 DEF OneError, OneOrTwo
  <2>4. \A m \in PacketNumbers' : OneOrTwo(m)'
    BY <2>2, <2>3, Zenon
  <2>5. \A m \in Undecoded(calls') : OneError(m)'
    BY <1>3, <2>2, Zenon
  <2>6. OneEach(calls')
    BY <1>3
  <2> QED
    BY <2>4, <2>5, <2>6 DEF ReportsInv
<1> QED
  BY <1>2, <1>3 DEF Reports

(* Nobody was told of a packet that Decode has just received. *)
LEMMA FreshPacket ==
  ASSUME TypeOK, ReportsInv, NEW n, n \notin PacketNumbers
  PROVE  /\ ReportsBy(n) = {}
         /\ OneError(n)
         /\ n \notin Undecoded(calls)
         /\ \A m \in Undecoded(calls) : m # n /\ OneError(m)
<1>1. ReportsBy(n) = {}
  <2> SUFFICES ASSUME NEW i \in DOMAIN reports
               PROVE  reports[i].packet \in PacketNumbers
    BY DEF ReportsBy
  <2>1. reports[i] \in ReportsOf(PacketNumbers)
    BY ElementOfSeq, LenProperties DEF TypeOK, ReportsOf
  <2> QED
    BY <2>1 DEF ReportsOf
<1>2. n \notin Undecoded(calls)
  <2> SUFFICES ASSUME NEW a \in DOMAIN calls
               PROVE  calls[a].packet \in PacketNumbers
    BY DEF Undecoded
  <2>1. calls[a] \in CallsOf(PacketNumbers)
    <3>1. calls \in Seq(CallsOf(PacketNumbers))
      BY DEF TypeOK, CallsOf
    <3> QED
      BY <3>1, ElementOfSeq, LenProperties
  <2> QED
    BY <2>1 DEF CallsOf
<1>3. OneError(n)
  BY <1>1 DEF OneError
<1> QED
  BY <1>1, <1>2, <1>3 DEF ReportsInv

LEMMA DecodeReports ==
  ASSUME TypeOK, ReportsInv, NEW p \in PacketInputs, Decode(p)
  PROVE  ReportsInv'
<1> PICK n : n = Len(received) + 1
  OBVIOUS
<1> DEFINE N == PacketNumbers \cup {n}
<1>1. /\ received' = Append(received, p)
      /\ KeepsContext(p) \/ ReplacesContext(p) \/ LosesContext(p)
  BY DecodeEffect
<1>2. /\ Len(received) \in Nat
      /\ Len(received') = n
      /\ calls \in Seq(CallsOf(PacketNumbers'))
      /\ reports \in Seq(ReportsOf(PacketNumbers'))
  BY <1>1, ReceiveGrows
<1>3. n \notin PacketNumbers /\ N = PacketNumbers' /\ N \subseteq Nat /\ n \in N
  BY <1>2 DEF PacketNumbers
<1>4. handlerSet \in BOOLEAN
  BY DEF TypeOK
<1>5. /\ ReportsBy(n) = {}
      /\ OneError(n)
      /\ n \notin Undecoded(calls)
      /\ \A m \in Undecoded(calls) : m # n /\ OneError(m)
  BY <1>3, FreshPacket
<1>6. OneEach(calls) /\ \A m \in N : m # n => OneOrTwo(m)
  BY <1>3 DEF ReportsInv
<1>7. calls \in Seq(CallsOf(N)) /\ reports \in Seq(ReportsOf(N)) /\ PacketNumbers' \subseteq N
  BY <1>2, <1>3
<1> HIDE DEF N
<1>8. CASE Reports(n, "return", calls)
  BY <1>3, <1>4, <1>5, <1>6, <1>7, <1>8, DecodingReports
<1>9. CASE LosesContext(p)
  <2>1. /\ reports' = Append(reports, [packet |-> n, status |-> "Error",
                                       handler |-> handlerSet, frames |-> 0])
        /\ calls' = <<[packet |-> n, stage |-> "decode"]>> \o calls
    BY <1>9 DEF LosesContext
  <2>2. reports \in Seq(ReportsOf(Nat)) /\ n \in Nat
    <3>1. ReportsOf(N) \subseteq ReportsOf(Nat)
      BY <1>3 DEF ReportsOf
    <3> QED
      BY <1>3, <1>7, <3>1, SeqMonotonic
  <2>3. 0 \in 0..1 /\ "Error" \in {"Success", "Error"}
    OBVIOUS
  <2>4. /\ \A m : m # n /\ OneOrTwo(m) => OneOrTwo(m)'
        /\ \A m : m # n /\ OneError(m) => OneError(m)'
        /\ OneError(n) => OneOrTwo(n)'
        /\ ReportsBy(n) = {} => OneError(n)'
    BY <1>4, <2>1, <2>2, <2>3, ReportAdded
  <2>5. Undecoded(calls') \subseteq Undecoded(calls) \cup {n} /\ OneEach(calls')
    <3>1. "decode" \in {"decode", "return"}
      OBVIOUS
    <3>2. n \in N /\ calls \in Seq(CallsOf(N)) /\ OneEach(calls) /\ n \notin Undecoded(calls)
      BY <1>3, <1>5, <1>6, <1>7
    <3>3. /\ \A m \in Undecoded(<<[packet |-> n, stage |-> "decode"]>> \o calls) :
               m \in Undecoded(calls) \/ m = n
          /\ OneEach(<<[packet |-> n, stage |-> "decode"]>> \o calls)
      BY <3>1, <3>2, UndecodedPushed
    <3> QED
      BY <2>1, <3>3
  <2>6. \A m \in N : OneOrTwo(m)'
    BY <1>5, <1>6, <2>4, Zenon
  <2>7. \A m \in Undecoded(calls') : OneError(m)'
    BY <1>5, <2>4, <2>5
  <2> QED
    BY <1>7, <2>5, <2>6, <2>7 DEF ReportsInv
<1> QED
  BY <1>1, <1>8, <1>9 DEF KeepsContext, ReplacesContext

LEMMA GoesOnReports ==
  ASSUME TypeOK, ReportsInv, DecodeGoesOn
  PROVE  ReportsInv'
<1> DEFINE n == Head(calls).packet
           N == PacketNumbers
<1>1. /\ calls # <<>>
      /\ Head(calls).stage = "decode"
      /\ n \in N
      /\ Reports(n, "return", Tail(calls))
      /\ received' = received
  BY GoesOnEffect
<1>2. /\ calls \in Seq(CallsOf(N))
      /\ reports \in Seq(ReportsOf(N))
      /\ handlerSet \in BOOLEAN
  BY DEF TypeOK, CallsOf, ReportsOf
<1>3. /\ PacketNumbers' \subseteq N /\ N \subseteq Nat
  BY <1>1 DEF PacketNumbers
<1>4. Tail(calls) \in Seq(CallsOf(N))
  BY <1>1, <1>2, HeadTailProperties
<1>5. /\ Undecoded(Tail(calls)) \subseteq Undecoded(calls)
      /\ OneEach(Tail(calls))
      /\ n \in Undecoded(calls)
      /\ n \notin Undecoded(Tail(calls))
  BY <1>1, <1>2, UndecodedPopped DEF ReportsInv
<1>6. /\ \A m \in N : m # n => OneOrTwo(m)
      /\ OneError(n)
      /\ \A m \in Undecoded(Tail(calls)) : m # n /\ OneError(m)
  BY <1>5 DEF ReportsInv
<1> HIDE DEF n, N
<1> QED
  BY <1>1, <1>2, <1>3, <1>4, <1>5, <1>6, DecodingReports

LEMMA OtherReports ==
  ASSUME TypeOK, ReportsInv, UNCHANGED <<received, reports>>,
         calls' = calls \/ (calls # <<>> /\ calls' = Tail(calls))
  PROVE  ReportsInv'
<1>1. \A m : (OneOrTwo(m) => OneOrTwo(m)') /\ (OneError(m) => OneError(m)')
  <2>1. \A m : ReportsBy(m)' = ReportsBy(m)
    BY DEF ReportsBy
  <2> QED
    BY <2>1, Zenon DEF OneOrTwo, OneError
<1>2. PacketNumbers' = PacketNumbers
  BY DEF PacketNumbers
<1>3. Undecoded(calls') \subseteq Undecoded(calls) /\ OneEach(calls')
  BY UndecodedPopped DEF TypeOK, ReportsInv
<1> QED
  BY <1>1, <1>2, <1>3 DEF ReportsInv

LEMMA NextReports ==
  ASSUME TypeOK, ReportsInv, [Next]_vars
  PROVE  ReportsInv'
<1> USE DEF output
<1>1. ASSUME NEW set \in BOOLEAN, SetOutputHandler(set)
      PROVE  ReportsInv'
  BY <1>1, OtherReports DEF SetOutputHandler
<1>2. CASE Initialize
  BY <1>2, OtherReports DEF Initialize
<1>3. CASE Shutdown
  BY <1>3, OtherReports DEF Shutdown
<1>4. CASE Drain
  BY <1>4, OtherReports DEF Drain, baseVars
<1>5. ASSUME NEW p \in PacketInputs, Decode(p)
      PROVE  ReportsInv'
  BY <1>5, DecodeReports
<1>6. CASE DecodeGoesOn
  BY <1>6, GoesOnReports
<1>7. CASE DecodeReturns
  BY <1>7, OtherReports DEF DecodeReturns
<1>8. CASE UNCHANGED vars
  BY <1>8, OtherReports DEF vars, baseVars
<1> QED
  BY <1>1, <1>2, <1>3, <1>4, <1>5, <1>6, <1>7, <1>8 DEF Next

LEMMA ReportsInvariant == Spec => []ReportsInv
<1>1. Init => ReportsInv
  <2> SUFFICES ASSUME Init
               PROVE  ReportsInv
    OBVIOUS
  <2>1. /\ DOMAIN reports = {} /\ DOMAIN calls = {}
        /\ PacketNumbers = {}
    BY DEF Init, BaseInit, PacketNumbers
  <2> QED
    BY <2>1 DEF ReportsInv, Undecoded, OneEach
<1>2. TypeOK /\ ReportsInv /\ [Next]_vars => ReportsInv'
  BY NextReports
<1> QED
  BY <1>1, <1>2, TypesKept, PTL DEF Spec

(* The handler hears of a packet once, or twice, first of the missing context:
   never three times, and never of an error after the result, however deep
   callbacks call Decode. *)
THEOREM ReportedOnceOrTwice == Spec => []OneOrTwoReports
<1>1. ReportsInv => OneOrTwoReports
  BY DEF ReportsInv, OneOrTwo, ReportsBy, OneOrTwoReports
<1> QED
  BY <1>1, ReportsInvariant, PTL
=============================================================================

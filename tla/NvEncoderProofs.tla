--------------------------- MODULE NvEncoderProofs ---------------------------
(***************************************************************************)
(* Proofs about NvEncoder, for any lengths, settings and bounds.           *)
(***************************************************************************)
EXTENDS NvEncoder, SequenceTheorems, TLAPS

Submissions ==
  [w : Lengths, h : Lengths, params : Params, forced : BOOLEAN, toHandler : BOOLEAN]

(* What the bitstream buffers hold, when the frames F were given to Encode. *)
Contents(F) == [frame : F, key : BOOLEAN] \cup NoPicture

NvStates(F) ==
  [cuda : {"none", "failed", "context"}, session : Sessions \cup {Null},
   ready : BOOLEAN, registered : BOOLEAN, resources : Seq(SessionIds), count : Nat,
   slots : Seq(Contents(F)), accepted : Seq(F), recv : Nat, opened : 0..MaxSessions,
   live : SUBSET SessionIds, lost : SUBSET SessionIds, dropped : SUBSET F,
   receiveFailed : BOOLEAN, faults : 0..MaxFaults, crashed : BOOLEAN]

(* The members fit each other, with or without a session. *)
WellFormed(s) ==
  /\ s.recv <= Sent(s)
  /\ s.count <= Len(s.slots)
  /\ s.session # Null => s.session.id <= s.opened
  /\ \A id \in s.lost : id <= s.opened

States(F) == {s \in NvStates(F) : WellFormed(s)}

(* All that was sent was received, but for a failure. *)
Caught(s) == s.receiveFailed \/ s.recv = Sent(s)

(* The two fields of a session that the end of a stream changes. *)
SameSession(s, t) ==
  \/ s.session = Null /\ t.session = Null
  \/ /\ s.session # Null /\ t.session # Null
     /\ t.session.id = s.session.id
     /\ t.session.w = s.session.w /\ t.session.h = s.session.h
     /\ t.session.params = s.session.params

(* What receiving leaves alone. *)
Holding(s, t) ==
  /\ SameSession(s, t)
  /\ t.cuda = s.cuda /\ t.ready = s.ready
  /\ t.slots = s.slots /\ t.accepted = s.accepted
  /\ t.opened = s.opened /\ t.live = s.live /\ t.lost = s.lost
  /\ s.recv <= t.recv
  /\ s.receiveFailed => t.receiveFailed
-----------------------------------------------------------------------------
(* Arithmetic of the ring. *)

LEMMA Multiple ==
  ASSUME NEW c \in Nat \ {0}, NEW q \in Int, 0 < c * q
  PROVE  c <= c * q
<1>1. q >= 1
  <2>1. CASE q <= 0
    <3>1. c * q <= 0
      BY <2>1
    <3> QED
      BY <3>1
  <2> QED
    BY <2>1
<1>2. c * (q - 1) >= 0
  BY <1>1
<1>3. c * (q - 1) = c * q - c
  OBVIOUS
<1>4. c * q \in Int /\ c * (q - 1) \in Int
  OBVIOUS
<1> QED
  BY <1>2, <1>3, <1>4

(* Numbers that are less than c apart have different remainders. *)
LEMMA RemaindersDiffer ==
  ASSUME NEW c \in Nat \ {0}, NEW a \in Nat, NEW b \in Nat, a < b, b - a < c
  PROVE  a % c # b % c
<1> SUFFICES ASSUME a % c = b % c PROVE FALSE
  OBVIOUS
<1>1. a = c * (a \div c) + (a % c) /\ b = c * (b \div c) + (b % c)
  OBVIOUS
<1>2. a \div c \in Int /\ b \div c \in Int /\ a % c \in Int /\ b % c \in Int
  OBVIOUS
<1>3. PICK p \in Int, q \in Int : p = a \div c /\ q = b \div c
  BY <1>2
<1>4. b - a = c * q - c * p
  BY <1>1, <1>2, <1>3
<1>5. c * (q - p) = c * q - c * p
  OBVIOUS
<1>6. q - p \in Int /\ b - a \in Int
  OBVIOUS
<1>7. c <= c * (q - p)
  BY <1>4, <1>5, <1>6, Multiple
<1> QED
  BY <1>4, <1>5, <1>6, <1>7

(* A slot is one of the ring, and frames that are fewer than its slots apart
   have different ones. *)
LEMMA SlotInRing ==
  ASSUME NEW s, s.count \in Nat, s.count > 0, NEW n \in Nat \ {0}
  PROVE  Slot(s, n) \in 1..s.count
<1>1. (n - 1) % s.count \in 0..(s.count - 1)
  BY n - 1 \in Nat
<1> QED
  BY <1>1 DEF Slot

LEMMA SlotsDiffer ==
  ASSUME NEW s, s.count \in Nat, s.count > 0, NEW n \in Nat \ {0}, NEW m \in Nat \ {0},
         n < m, m - n < s.count
  PROVE  Slot(s, n) # Slot(s, m)
<1>1. PICK c \in Nat \ {0}, a \in Nat, b \in Nat : c = s.count /\ a = n - 1 /\ b = m - 1
  OBVIOUS
<1>2. a % c # b % c
  <2>1. a < b /\ b - a < c
    BY <1>1
  <2> QED
    BY <2>1, RemaindersDiffer
<1>3. a % c \in Int /\ b % c \in Int
  BY <1>1
<1> QED
  BY <1>1, <1>2, <1>3 DEF Slot
-----------------------------------------------------------------------------
(* Receiving. *)

LEMMA StateParts ==
  ASSUME NEW F, NEW s \in States(F)
  PROVE  /\ s \in NvStates(F) /\ WellFormed(s)
         /\ s.accepted \in Seq(F) /\ Sent(s) \in Nat /\ s.recv \in 0..Sent(s)
         /\ s.slots \in Seq(Contents(F)) /\ s.count \in 0..Len(s.slots)
         /\ s.resources \in Seq(SessionIds)
         /\ s.opened \in 0..MaxSessions /\ s.opened \in Nat
         /\ s.faults \in 0..MaxFaults
         /\ s.receiveFailed \in BOOLEAN /\ s.crashed \in BOOLEAN /\ s.ready \in BOOLEAN
<1>1. s \in NvStates(F) /\ WellFormed(s)
  BY DEF States
<1>2. s.accepted \in Seq(F) /\ s.slots \in Seq(Contents(F)) /\ s.resources \in Seq(SessionIds)
  BY <1>1 DEF NvStates
<1>3. s.recv \in Nat /\ s.count \in Nat /\ s.opened \in 0..MaxSessions /\ s.faults \in 0..MaxFaults
  BY <1>1 DEF NvStates
<1>4. Len(s.slots) \in Nat /\ Sent(s) \in Nat
  BY <1>2, LenProperties DEF Sent
<1>5. s.receiveFailed \in BOOLEAN /\ s.crashed \in BOOLEAN /\ s.ready \in BOOLEAN
  BY <1>1 DEF NvStates
<1> QED
  BY <1>1, <1>2, <1>3, <1>4, <1>5, NvAssumption DEF WellFormed

(* What Receive answers, and what becomes of the counters. *)
LEMMA ReceivedParts ==
  ASSUME NEW F, NEW s \in States(F), NEW o \in Received(s)
  PROVE  /\ o.upTo \in s.recv..Sent(s) /\ o.recv \in s.recv..Sent(s)
         /\ o.recv \in Nat /\ o.upTo \in Nat
         /\ \A n \in (s.recv + 1)..o.upTo : s.slots[Slot(s, n)] \notin NoPicture
         /\ o.recv < Sent(s) => s.receiveFailed \/ s.faults < MaxFaults
BY StateParts DEF Received

LEMMA AfterReceiveKeeps ==
  ASSUME NEW F, NEW s \in States(F), NEW o, o.recv \in s.recv..Sent(s),
         o.recv < Sent(s) => s.receiveFailed \/ s.faults < MaxFaults
  PROVE  /\ AfterReceive(s, o) \in States(F)
         /\ Holding(s, AfterReceive(s, o))
         /\ AfterReceive(s, o).session = s.session
         /\ AfterReceive(s, o).registered = s.registered
         /\ AfterReceive(s, o).resources = s.resources
         /\ AfterReceive(s, o).count = s.count
         /\ AfterReceive(s, o).crashed = s.crashed
         /\ AfterReceive(s, o).dropped = s.dropped
         /\ AfterReceive(s, o).recv = o.recv
         /\ Caught(AfterReceive(s, o))
<1> DEFINE t == AfterReceive(s, o)
           complete == o.recv = Sent(s)
           f == IF complete \/ s.receiveFailed THEN s.faults ELSE s.faults + 1
<1>0. t = [s EXCEPT !.recv = o.recv, !.receiveFailed = s.receiveFailed \/ ~complete, !.faults = f]
  BY DEF AfterReceive
<1>1. s \in NvStates(F) /\ WellFormed(s) /\ Sent(s) \in Nat /\ s.recv \in 0..Sent(s)
  BY StateParts
<1>2. f \in 0..MaxFaults
  <2>1. s.faults \in 0..MaxFaults /\ MaxFaults \in Nat
    BY StateParts, NvAssumption
  <2>2. ~complete => o.recv < Sent(s)
    BY <1>1
  <2> QED
    BY <2>1, <2>2
<1>3. o.recv \in Nat
  BY <1>1
<1>4. (s.receiveFailed \/ ~complete) \in BOOLEAN
  OBVIOUS
<1> HIDE DEF f, complete
<1>5. t \in NvStates(F)
  BY <1>0, <1>1, <1>2, <1>3, <1>4 DEF NvStates
<1>6. /\ t.session = s.session /\ t.registered = s.registered /\ t.resources = s.resources
      /\ t.count = s.count /\ t.crashed = s.crashed /\ t.dropped = s.dropped
      /\ t.cuda = s.cuda /\ t.ready = s.ready /\ t.slots = s.slots /\ t.accepted = s.accepted
      /\ t.opened = s.opened /\ t.live = s.live /\ t.lost = s.lost
  BY <1>0, <1>1 DEF NvStates
<1>7. t.recv = o.recv /\ t.receiveFailed = (s.receiveFailed \/ ~complete)
  BY <1>0, <1>1 DEF NvStates
<1> HIDE DEF t
<1>8. Sent(t) = Sent(s)
  BY <1>6 DEF Sent
<1>9. t \in States(F)
  BY <1>1, <1>5, <1>6, <1>7, <1>8 DEF States, WellFormed
<1>10. Holding(s, t)
  <2>1. s.recv <= t.recv
    BY <1>1, <1>7
  <2>2. s.receiveFailed => t.receiveFailed
    BY <1>7, StateParts
  <2> QED
    BY <1>6, <2>1, <2>2 DEF Holding, SameSession
<1>11. Caught(t)
  BY <1>7, <1>8 DEF Caught, complete
<1> QED
  BY <1>6, <1>7, <1>9, <1>10, <1>11 DEF t

LEMMA NotNull == Null \notin Sessions
<1>1. SessionIds \subseteq Nat
  BY NvAssumption DEF SessionIds
<1>2. Sessions \subseteq [id : Nat, w : Nat, h : Nat, params : NvParams, usable : BOOLEAN,
                          fresh : BOOLEAN, started : BOOLEAN, eos : BOOLEAN]
  BY <1>1, LengthsAssumption, NvAssumption DEF Sessions
<1> QED
  BY <1>2, NullAssumption

(* The session changes in its flags only. *)
LEMMA SessionFlags ==
  ASSUME NEW F, NEW s \in States(F), s.session # Null, NEW v \in Sessions,
         v.id = s.session.id, v.w = s.session.w, v.h = s.session.h,
         v.params = s.session.params, NEW t, t = [s EXCEPT !.session = v]
  PROVE  /\ t \in States(F) /\ t.session # Null
         /\ Holding(s, t)
         /\ t.registered = s.registered /\ t.resources = s.resources
         /\ t.count = s.count /\ t.crashed = s.crashed /\ t.dropped = s.dropped
         /\ t.recv = s.recv /\ t.receiveFailed = s.receiveFailed /\ t.faults = s.faults
<1>1. s \in NvStates(F) /\ WellFormed(s) /\ Sent(s) \in Nat /\ s.recv \in 0..Sent(s)
  BY StateParts
<1>4. v # Null
  BY NotNull
<1>6. t \in NvStates(F)
  BY <1>1 DEF NvStates
<1>7. /\ t.session = v /\ t.registered = s.registered /\ t.resources = s.resources
      /\ t.count = s.count /\ t.crashed = s.crashed /\ t.dropped = s.dropped
      /\ t.cuda = s.cuda /\ t.ready = s.ready /\ t.slots = s.slots /\ t.accepted = s.accepted
      /\ t.opened = s.opened /\ t.live = s.live /\ t.lost = s.lost /\ t.recv = s.recv
      /\ t.receiveFailed = s.receiveFailed /\ t.faults = s.faults
  BY <1>1 DEF NvStates
<1>8. WellFormed(t)
  BY <1>1, <1>4, <1>7 DEF WellFormed, Sent
<1>9. SameSession(s, t)
  BY <1>4, <1>7 DEF SameSession
<1>10. s.recv <= t.recv
  BY <1>1, <1>7
<1>11. Holding(s, t)
  BY <1>7, <1>9, <1>10 DEF Holding
<1> QED
  BY <1>4, <1>6, <1>7, <1>8, <1>11 DEF States

(* Frames are dropped. *)
LEMMA DropsKeep ==
  ASSUME NEW F, NEW s \in States(F), NEW D \in SUBSET F, NEW t,
         t = [s EXCEPT !.dropped = @ \cup D]
  PROVE  /\ t \in States(F)
         /\ Holding(s, t)
         /\ t.registered = s.registered /\ t.resources = s.resources
         /\ t.count = s.count /\ t.crashed = s.crashed
         /\ Caught(t) <=> Caught(s)
<1>1. s \in NvStates(F) /\ WellFormed(s) /\ Sent(s) \in Nat /\ s.recv \in 0..Sent(s)
  BY StateParts
<1>2. s.dropped \cup D \in SUBSET F
  BY <1>1 DEF NvStates
<1>3. t \in NvStates(F)
  BY <1>1, <1>2 DEF NvStates
<1>4. /\ t.session = s.session /\ t.registered = s.registered /\ t.resources = s.resources
      /\ t.count = s.count /\ t.crashed = s.crashed
      /\ t.cuda = s.cuda /\ t.ready = s.ready /\ t.slots = s.slots /\ t.accepted = s.accepted
      /\ t.opened = s.opened /\ t.live = s.live /\ t.lost = s.lost /\ t.recv = s.recv
      /\ t.receiveFailed = s.receiveFailed
  BY <1>1 DEF NvStates
<1>5. WellFormed(t)
  BY <1>1, <1>4 DEF WellFormed, Sent
<1>6. s.recv <= t.recv
  BY <1>1, <1>4
<1>7. Holding(s, t)
  BY <1>4, <1>6 DEF Holding, SameSession
<1>8. Caught(t) <=> Caught(s)
  BY <1>4 DEF Caught, Sent
<1> QED
  BY <1>3, <1>4, <1>5, <1>7, <1>8 DEF States

LEMMA CrashKeeps ==
  ASSUME NEW F, NEW s \in States(F)
  PROVE  /\ Crash(s) \in States(F) /\ Crash(s).crashed
         /\ Holding(s, Crash(s))
         /\ Crash(s).registered = s.registered /\ Crash(s).resources = s.resources
         /\ Crash(s).count = s.count
<1> DEFINE t == Crash(s)
<1>1. s \in NvStates(F) /\ WellFormed(s) /\ Sent(s) \in Nat /\ s.recv \in 0..Sent(s)
  BY StateParts
<1>2. t \in NvStates(F) /\ t.crashed
  BY <1>1 DEF NvStates, Crash
<1>3. /\ t.session = s.session /\ t.registered = s.registered /\ t.resources = s.resources
      /\ t.count = s.count
      /\ t.cuda = s.cuda /\ t.ready = s.ready /\ t.slots = s.slots /\ t.accepted = s.accepted
      /\ t.opened = s.opened /\ t.live = s.live /\ t.lost = s.lost /\ t.recv = s.recv
      /\ t.receiveFailed = s.receiveFailed
  BY <1>1 DEF NvStates, Crash
<1> HIDE DEF t
<1>4. WellFormed(t)
  BY <1>1, <1>3 DEF WellFormed, Sent
<1>5. s.recv <= t.recv
  BY <1>1, <1>3
<1>6. Holding(s, t)
  BY <1>3, <1>5 DEF Holding, SameSession
<1> QED
  BY <1>2, <1>3, <1>4, <1>6 DEF States, t

LEMMA HoldingOn ==
  ASSUME NEW s, NEW t, NEW u, s.recv \in Nat, t.recv \in Nat, u.recv \in Nat,
         Holding(s, t), Holding(t, u)
  PROVE  Holding(s, u)
<1>1. s.recv <= u.recv
  BY DEF Holding
<1>2. SameSession(s, u)
  BY DEF Holding, SameSession
<1> QED
  BY <1>1, <1>2 DEF Holding

(* What Drain and Flush leave: all is received, unless there was no ring. *)
Ended(F, s, t) ==
  /\ t \in States(F)
  /\ Holding(s, t)
  /\ t.registered = s.registered /\ t.resources = s.resources /\ t.count = s.count
  /\ ~t.crashed => Caught(t)
  /\ t.crashed => s.count = 0 /\ ~(s.recv = Sent(s))

LEMMA ReceiveAndDropEnds ==
  ASSUME NEW F, NEW s \in States(F), ~s.crashed, NEW t \in ReceiveAndDrop(s)
  PROVE  Ended(F, s, t)
<1>1. s.recv \in 0..Sent(s) /\ Sent(s) \in Nat /\ s.accepted \in Seq(F)
  BY StateParts
<1>2. CASE s.count = 0 /\ s.recv < Sent(s)
  <2>1. t = Crash(s)
    BY <1>2 DEF ReceiveAndDrop
  <2>2. ~(s.recv = Sent(s))
    BY <1>1, <1>2
  <2> QED
    BY <1>2, <2>1, <2>2, CrashKeeps DEF Ended
<1>3. CASE s.count = 0 /\ ~(s.recv < Sent(s))
  <2>1. t = s
    BY <1>3 DEF ReceiveAndDrop
  <2>2. s.recv = Sent(s) /\ s.recv <= s.recv
    BY <1>1, <1>3
  <2>3. Holding(s, s)
    BY <2>2 DEF Holding, SameSession
  <2> QED
    BY <2>1, <2>2, <2>3 DEF Ended, Caught
<1>4. CASE s.count # 0
  <2> DEFINE D(o) == Range(SubSeq(s.accepted, s.recv + 1, o.recv))
  <2>1. PICK o \in Received(s) : t = [AfterReceive(s, o) EXCEPT !.dropped = @ \cup D(o)]
    BY <1>4 DEF ReceiveAndDrop
  <2>2. /\ o.recv \in s.recv..Sent(s)
        /\ o.recv < Sent(s) => s.receiveFailed \/ s.faults < MaxFaults
    BY ReceivedParts
  <2>3. D(o) \in SUBSET F
    <3>1. s.recv + 1 \in 1..Len(s.accepted) + 1 /\ o.recv \in 0..Len(s.accepted)
      BY <1>1, <2>2 DEF Sent
    <3>2. SubSeq(s.accepted, s.recv + 1, o.recv) \in Seq(F)
      BY <1>1, <3>1, SubSeqProperties
    <3> QED
      BY <3>2, ElementOfSeq DEF Range
  <2> DEFINE r == AfterReceive(s, o)
  <2>4. /\ r \in States(F) /\ Holding(s, r) /\ Caught(r) /\ r.crashed = s.crashed
        /\ r.registered = s.registered /\ r.resources = s.resources /\ r.count = s.count
    BY <2>2, AfterReceiveKeeps
  <2>5. t = [r EXCEPT !.dropped = @ \cup D(o)]
    BY <2>1
  <2>9. PICK d : d = D(o)
    OBVIOUS
  <2> HIDE DEF r, D
  <2>6. /\ t \in States(F) /\ Holding(r, t) /\ Caught(t) /\ t.crashed = r.crashed
        /\ t.registered = r.registered /\ t.resources = r.resources /\ t.count = r.count
    BY <2>3, <2>4, <2>5, <2>9, DropsKeep
  <2>7. s.recv \in Nat /\ r.recv \in Nat /\ t.recv \in Nat
    BY <1>1, <2>4, <2>6, StateParts
  <2>8. Holding(s, t)
    BY <2>4, <2>6, <2>7, HoldingOn
  <2> QED
    BY <2>4, <2>6, <2>8 DEF Ended
<1> QED
  BY <1>2, <1>3, <1>4

LEMMA EndTakenEnds ==
  ASSUME NEW F, NEW s \in States(F), ~s.crashed, s.session # Null, NEW t \in EndTaken(s)
  PROVE  Ended(F, s, t)
<1> DEFINE r == [s EXCEPT !.session.fresh = TRUE, !.session.eos = TRUE]
           v == [s.session EXCEPT !.fresh = TRUE, !.eos = TRUE]
<1>1. s \in NvStates(F) /\ s.session \in Sessions
  BY StateParts DEF NvStates
<1>2. r = [s EXCEPT !.session = v]
  BY <1>1 DEF NvStates
<1>9. /\ v \in Sessions /\ v.id = s.session.id /\ v.w = s.session.w
      /\ v.h = s.session.h /\ v.params = s.session.params
  BY <1>1 DEF Sessions
<1>3. t \in ReceiveAndDrop(r)
  BY DEF EndTaken
<1> HIDE DEF r, v
<1>4. /\ r \in States(F) /\ Holding(s, r) /\ r.recv = s.recv
      /\ r.registered = s.registered /\ r.resources = s.resources
      /\ r.count = s.count /\ r.crashed = s.crashed
  BY <1>2, <1>9, SessionFlags
<1>5. Ended(F, r, t)
  BY <1>3, <1>4, ReceiveAndDropEnds
<1>6. s.recv \in Nat /\ r.recv \in Nat /\ t.recv \in Nat
  BY <1>4, <1>5, StateParts DEF Ended
<1>7. Holding(s, t)
  BY <1>4, <1>5, <1>6, HoldingOn DEF Ended
<1>8. Sent(r) = Sent(s)
  BY <1>4 DEF Holding, Sent
<1> QED
  BY <1>4, <1>5, <1>7, <1>8 DEF Ended

LEMMA EndRefusedEnds ==
  ASSUME NEW F, NEW s \in States(F), ~s.crashed, s.session # Null, NEW t \in EndRefused(s)
  PROVE  Ended(F, s, t)
<1> DEFINE r == [s EXCEPT !.session.eos = TRUE]
           v == [s.session EXCEPT !.eos = TRUE]
<1>1. /\ s \in NvStates(F) /\ s.session \in Sessions
      /\ s.recv \in 0..Sent(s) /\ Sent(s) \in Nat
  BY StateParts DEF NvStates
<1>2. r = [s EXCEPT !.session = v]
  BY <1>1 DEF NvStates
<1>12. /\ v \in Sessions /\ v.id = s.session.id /\ v.w = s.session.w
       /\ v.h = s.session.h /\ v.params = s.session.params
  BY <1>1 DEF Sessions
<1>3. t = AfterReceive(r, [upTo |-> r.recv, recv |-> r.recv]) /\ t.faults <= MaxFaults
  <2>1. r.recv = s.recv
    BY <1>1 DEF NvStates
  <2> QED
    BY <2>1 DEF EndRefused, WithinFaults
<1> HIDE DEF r, v
<1>4. /\ r \in States(F) /\ Holding(s, r) /\ r.recv = s.recv
      /\ r.registered = s.registered /\ r.resources = s.resources
      /\ r.count = s.count /\ r.crashed = s.crashed /\ r.receiveFailed = s.receiveFailed
      /\ r.faults = s.faults
  BY <1>2, <1>12, SessionFlags
<1>5. Sent(r) = Sent(s)
  BY <1>4 DEF Holding, Sent
<1>6. PICK p : p = [upTo |-> r.recv, recv |-> r.recv]
  OBVIOUS
<1>7. p.recv = s.recv /\ p.recv \in r.recv..Sent(r)
  BY <1>1, <1>4, <1>5, <1>6
<1>8. p.recv < Sent(r) => r.receiveFailed \/ r.faults < MaxFaults
  <2> SUFFICES ASSUME p.recv < Sent(r), ~r.receiveFailed PROVE r.faults < MaxFaults
    OBVIOUS
  <2>1. p.recv # Sent(r)
    BY <1>1, <1>5, <1>7
  <2>2. t.faults = r.faults + 1
    BY <1>3, <1>4, <1>6, <2>1, StateParts DEF AfterReceive, NvStates
  <2> QED
    BY <1>3, <1>4, <2>2, StateParts, NvAssumption
<1>9. /\ t \in States(F) /\ Holding(r, t) /\ Caught(t) /\ t.crashed = r.crashed
      /\ t.registered = r.registered /\ t.resources = r.resources /\ t.count = r.count
  BY <1>3, <1>4, <1>6, <1>7, <1>8, AfterReceiveKeeps
<1>10. s.recv \in Nat /\ r.recv \in Nat /\ t.recv \in Nat
  BY <1>4, <1>9, <1>1, StateParts
<1>11. Holding(s, t)
  BY <1>4, <1>9, <1>10, HoldingOn
<1> QED
  BY <1>4, <1>9, <1>11 DEF Ended

LEMMA FlushEnds ==
  ASSUME NEW F, NEW s \in States(F), ~s.crashed, s.session # Null,
         NEW t \in Flush(s) \cup SendEOS(s)
  PROVE  Ended(F, s, t)
BY EndTakenEnds, EndRefusedEnds DEF Flush, SendEOS
-----------------------------------------------------------------------------
(* Teardown. *)

(* Changes that concern only the ring and the resources. *)
LEMMA RingGone ==
  ASSUME NEW F, NEW s \in States(F), NEW t \in NvStates(F), t.count = 0,
         t.session = s.session, t.cuda = s.cuda, t.ready = s.ready,
         t.slots = s.slots, t.accepted = s.accepted, t.opened = s.opened,
         t.live = s.live, t.lost = s.lost, t.recv = s.recv,
         t.receiveFailed = s.receiveFailed
  PROVE  /\ t \in States(F) /\ Holding(s, t)
         /\ Caught(s) => Caught(t)
<1>1. s \in NvStates(F) /\ WellFormed(s) /\ Sent(s) \in Nat /\ s.recv \in 0..Sent(s)
  BY StateParts
<1>2. 0 <= Len(s.slots) /\ s.recv <= t.recv
  BY <1>1, StateParts
<1>3. WellFormed(t)
  BY <1>1, <1>2 DEF WellFormed, Sent
<1>4. Holding(s, t)
  BY <1>2 DEF Holding, SameSession
<1>5. Caught(s) => Caught(t)
  BY DEF Caught, Sent
<1> QED
  BY <1>3, <1>4, <1>5 DEF States

LEMMA Unregistered ==
  ASSUME NEW F, NEW s \in States(F), NEW t, t = [s EXCEPT !.registered = FALSE]
  PROVE  /\ t \in States(F) /\ Holding(s, t)
         /\ t.count = s.count /\ t.resources = s.resources /\ t.crashed = s.crashed
         /\ t.recv = s.recv /\ t.receiveFailed = s.receiveFailed
<1>1. s \in NvStates(F) /\ WellFormed(s) /\ Sent(s) \in Nat /\ s.recv \in 0..Sent(s)
  BY StateParts
<1>2. t \in NvStates(F)
  BY <1>1 DEF NvStates
<1>3. /\ t.session = s.session /\ t.count = s.count /\ t.resources = s.resources
      /\ t.cuda = s.cuda /\ t.ready = s.ready /\ t.slots = s.slots /\ t.accepted = s.accepted
      /\ t.opened = s.opened /\ t.live = s.live /\ t.lost = s.lost /\ t.recv = s.recv
      /\ t.receiveFailed = s.receiveFailed /\ t.crashed = s.crashed
  BY <1>1 DEF NvStates
<1>4. s.recv <= t.recv
  BY <1>1, <1>3
<1>5. WellFormed(t)
  BY <1>1, <1>3 DEF WellFormed, Sent
<1>6. Holding(s, t)
  BY <1>3, <1>4 DEF Holding, SameSession
<1> QED
  BY <1>2, <1>3, <1>5, <1>6 DEF States

LEMMA HoldingItself ==
  ASSUME NEW F, NEW s \in States(F)
  PROVE  Holding(s, s) /\ s.recv \in Nat
<1>1. s.recv \in Nat /\ s.recv <= s.recv
  BY StateParts
<1> QED
  BY <1>1 DEF Holding, SameSession

(* What the release of the resources leaves: no ring, if there was a session. *)
Released(F, s, t) ==
  /\ t \in States(F)
  /\ Holding(s, t)
  /\ \/ /\ ~t.crashed
        /\ t.count = s.count /\ t.resources = s.resources /\ t.recv = s.recv
        /\ t.receiveFailed = s.receiveFailed
     \/ /\ t.count = 0
        /\ ~t.crashed => t.resources = <<>> /\ Caught(t)

LEMMA ReleaseGLResourcesKeeps ==
  ASSUME NEW F, NEW s \in States(F), ~s.crashed, NEW context,
         NEW t \in ReleaseGLResources(s, context)
  PROVE  /\ Released(F, s, t)
         /\ IsInitialized(s) => t.count = 0 /\ (~t.crashed => t.resources = <<>> /\ Caught(t))
         /\ t.crashed => context = Null \/ (s.count = 0 /\ ~(s.recv = Sent(s)))
<1>1. CASE ~IsInitialized(s)
  <2>1. t = s
    BY <1>1 DEF ReleaseGLResources
  <2> QED
    BY <1>1, <2>1, HoldingItself DEF Released
<1>2. CASE IsInitialized(s)
  <2> DEFINE Gone(r) == [r EXCEPT !.count = 0, !.resources = <<>>, !.crashed = (context = Null)]
  <2>1. PICK r \in Flush(s) : t \in (IF r.crashed THEN {r} ELSE {Gone(r)})
    BY <1>2 DEF ReleaseGLResources, Then
  <2>2. Ended(F, s, r)
    BY <1>2, <2>1, FlushEnds DEF IsInitialized
  <2>3. CASE r.crashed
    <3>1. t = r /\ t.count = 0
      BY <2>1, <2>2, <2>3 DEF Ended
    <3> QED
      BY <2>2, <2>3, <3>1 DEF Ended, Released
  <2>4. CASE ~r.crashed
    <3>2. t = [r EXCEPT !.count = 0, !.resources = <<>>, !.crashed = (context = Null)]
      BY <2>1, <2>4
    <3>3. r \in States(F) /\ Caught(r) /\ Holding(s, r)
      BY <2>2, <2>4 DEF Ended
    <3>4. r \in NvStates(F)
      BY <3>3, StateParts
    <3>5. t \in NvStates(F)
      <4>1. (context = Null) \in BOOLEAN /\ <<>> \in Seq(SessionIds)
        BY EmptySeq
      <4> QED
        BY <3>2, <3>4, <4>1 DEF NvStates
    <3>6. /\ t.session = r.session /\ t.cuda = r.cuda /\ t.ready = r.ready
          /\ t.slots = r.slots /\ t.accepted = r.accepted /\ t.opened = r.opened
          /\ t.live = r.live /\ t.lost = r.lost /\ t.recv = r.recv
          /\ t.receiveFailed = r.receiveFailed
      BY <3>2, <3>4 DEF NvStates
    <3>7. t.count = 0 /\ t.resources = <<>> /\ (t.crashed <=> context = Null)
      BY <3>2, <3>4 DEF NvStates
    <3>8. t \in States(F) /\ Holding(r, t) /\ Caught(t)
      BY <3>3, <3>5, <3>6, <3>7, RingGone
    <3>9. Holding(s, t)
      BY <3>3, <3>8, HoldingOn, HoldingItself
    <3> QED
      BY <3>7, <3>8, <3>9 DEF Released
  <2> QED
    BY <2>3, <2>4
<1> QED
  BY <1>1, <1>2

LEMMA ReleaseKeeps ==
  ASSUME NEW F, NEW s \in States(F), ~s.crashed, NEW t \in Release(s)
  PROVE  /\ Released(F, s, t)
         /\ t.crashed => s.count = 0 /\ ~(s.recv = Sent(s))
<1>1. CASE ~s.registered
  <2>1. t = s
    BY <1>1 DEF Release
  <2> QED
    BY <2>1, HoldingItself DEF Released
<1>2. CASE s.registered
  <2>1. PICK r \in ReleaseGLResources(s, "context") :
          t \in (IF r.crashed THEN {r} ELSE {[r EXCEPT !.registered = FALSE]})
    BY <1>2 DEF Release, Then
  <2>2. /\ Released(F, s, r)
        /\ r.crashed => s.count = 0 /\ ~(s.recv = Sent(s))
    BY <2>1, ReleaseGLResourcesKeeps, NullAssumption
  <2>3. CASE r.crashed
    BY <2>1, <2>2, <2>3
  <2>4. CASE ~r.crashed
    <3>1. r \in States(F) /\ Holding(s, r)
      BY <2>2 DEF Released
    <3>2. t = [r EXCEPT !.registered = FALSE]
      BY <2>1, <2>4
    <3>3. /\ t \in States(F) /\ Holding(r, t)
          /\ t.count = r.count /\ t.resources = r.resources /\ t.crashed = r.crashed
          /\ t.recv = r.recv /\ t.receiveFailed = r.receiveFailed
      BY <3>1, <3>2, Unregistered
    <3>4. Holding(s, t)
      BY <3>1, <3>3, HoldingOn, HoldingItself
    <3>5. Caught(r) => Caught(t)
      BY <3>3 DEF Caught, Holding, Sent
    <3> QED
      BY <2>2, <2>4, <3>3, <3>4, <3>5 DEF Released
  <2> QED
    BY <2>3, <2>4
<1> QED
  BY <1>1, <1>2

(* The session is destroyed, or lost. *)
LEMMA DestroySessionKeeps ==
  ASSUME NEW F, NEW s \in States(F), IsInitialized(s), NEW t \in DestroySession(s)
  PROVE  /\ t \in States(F) /\ t.crashed = s.crashed
         /\ t.accepted = s.accepted /\ t.recv = s.recv /\ t.receiveFailed = s.receiveFailed
         /\ t.resources = s.resources /\ t.count = s.count
         /\ \/ t.live = s.live \ {s.session.id} /\ t.lost = s.lost
            \/ t.live = s.live /\ t.lost = s.lost \cup {s.session.id}
<1>1. s \in NvStates(F) /\ WellFormed(s) /\ Sent(s) \in Nat /\ s.recv \in 0..Sent(s)
  BY StateParts
<1>2. /\ s.session # Null /\ s.session \in Sessions /\ s.session.id \in SessionIds
      /\ s.session.id <= s.opened
  BY <1>1 DEF IsInitialized, NvStates, Sessions, WellFormed
<1>3. CASE t = [s EXCEPT !.live = @ \ {s.session.id}, !.session = Null, !.ready = FALSE]
  <2>1. t \in NvStates(F)
    BY <1>1, <1>2, <1>3 DEF NvStates
  <2>2. /\ t.crashed = s.crashed /\ t.accepted = s.accepted /\ t.recv = s.recv
        /\ t.receiveFailed = s.receiveFailed
        /\ t.resources = s.resources /\ t.count = s.count /\ t.slots = s.slots
        /\ t.opened = s.opened /\ t.session = Null
        /\ t.live = s.live \ {s.session.id} /\ t.lost = s.lost
    BY <1>1, <1>3 DEF NvStates
  <2>3. WellFormed(t)
    BY <1>1, <2>2 DEF WellFormed, Sent
  <2> QED
    BY <2>1, <2>2, <2>3 DEF States
<1>4. ASSUME NEW f \in 0..MaxFaults, t = [s EXCEPT !.lost = @ \cup {s.session.id}, !.faults = f]
      PROVE  /\ t \in States(F) /\ t.crashed = s.crashed
             /\ t.accepted = s.accepted /\ t.recv = s.recv
             /\ t.receiveFailed = s.receiveFailed
             /\ t.resources = s.resources /\ t.count = s.count
             /\ t.live = s.live /\ t.lost = s.lost \cup {s.session.id}
  <2>1. s.lost \cup {s.session.id} \in SUBSET SessionIds
    BY <1>1, <1>2 DEF NvStates
  <2>2. t \in NvStates(F)
    BY <1>1, <1>4, <2>1 DEF NvStates
  <2>3. /\ t.crashed = s.crashed /\ t.accepted = s.accepted /\ t.recv = s.recv
        /\ t.receiveFailed = s.receiveFailed
        /\ t.resources = s.resources /\ t.count = s.count /\ t.slots = s.slots
        /\ t.opened = s.opened /\ t.session = s.session
        /\ t.live = s.live /\ t.lost = s.lost \cup {s.session.id}
    BY <1>1, <1>4 DEF NvStates
  <2>4. WellFormed(t)
    BY <1>1, <1>2, <2>3 DEF WellFormed, Sent
  <2> QED
    BY <2>2, <2>3, <2>4 DEF States
<1> DEFINE left == [s EXCEPT !.lost = @ \cup {s.session.id}]
<1>5. CASE t = left
  <2>1. t = [s EXCEPT !.lost = @ \cup {s.session.id}, !.faults = s.faults]
    BY <1>1, <1>5 DEF NvStates
  <2>2. s.faults \in 0..MaxFaults
    BY <1>1 DEF NvStates
  <2> QED
    BY <1>4, <2>1, <2>2
<1>6. CASE t = [left EXCEPT !.faults = @ + 1] /\ t.faults <= MaxFaults
  <2>1. t = [s EXCEPT !.lost = @ \cup {s.session.id}, !.faults = s.faults + 1]
    BY <1>1, <1>6 DEF NvStates
  <2>2. t.faults = s.faults + 1 /\ s.faults \in 0..MaxFaults
    BY <1>1, <2>1 DEF NvStates
  <2>3. s.faults + 1 \in 0..MaxFaults
    BY <1>6, <2>2, NvAssumption
  <2> QED
    BY <1>4, <2>1, <2>3
<1> QED
  BY <1>3, <1>5, <1>6 DEF DestroySession, WithinFaults

LEMMA NoCuda ==
  ASSUME NEW F, NEW s \in States(F), NEW c \in {"none", "failed", "context"}, NEW t,
         t = [s EXCEPT !.cuda = c]
  PROVE  /\ t \in States(F) /\ t.crashed = s.crashed /\ t.session = s.session
         /\ t.accepted = s.accepted /\ t.recv = s.recv /\ t.receiveFailed = s.receiveFailed
         /\ t.resources = s.resources /\ t.count = s.count /\ t.opened = s.opened
         /\ t.live = s.live /\ t.lost = s.lost /\ t.ready = s.ready /\ t.cuda = c
         /\ t.slots = s.slots
<1>1. s \in NvStates(F) /\ WellFormed(s)
  BY StateParts
<1>2. t \in NvStates(F)
  BY <1>1 DEF NvStates
<1>3. /\ t.crashed = s.crashed /\ t.session = s.session
      /\ t.accepted = s.accepted /\ t.recv = s.recv /\ t.receiveFailed = s.receiveFailed
      /\ t.resources = s.resources /\ t.count = s.count /\ t.opened = s.opened
      /\ t.live = s.live /\ t.lost = s.lost /\ t.ready = s.ready /\ t.cuda = c
      /\ t.slots = s.slots
  BY <1>1 DEF NvStates
<1>4. WellFormed(t)
  BY <1>1, <1>3 DEF WellFormed, Sent
<1> QED
  BY <1>2, <1>3, <1>4 DEF States

(* A crash leaves the session and the driver as they were. *)
Crashed(F, s, t) ==
  /\ t \in States(F) /\ Holding(s, t)
  /\ t.crashed /\ t.count = 0
  /\ t.receiveFailed \/ window # "kept"

(* All that was sent is received, and no resource is left. *)
TornDown(F, s, t) ==
  /\ t \in States(F) /\ Holding(s, t)
  /\ ~t.crashed /\ t.resources = <<>> /\ Caught(t)

LEMMA TearDownEnds ==
  ASSUME NEW F, NEW s \in States(F), ~s.crashed, IsInitialized(s),
         s.count = 0 => s.receiveFailed \/ window # "kept",
         NEW t \in Then(SendEOS(s), LAMBDA r : ReleaseGLResources(r, GraphicsContext))
  PROVE  TornDown(F, s, t) \/ Crashed(F, s, t)
<1>1. PICK r \in SendEOS(s) :
        t \in (IF r.crashed THEN {r} ELSE ReleaseGLResources(r, GraphicsContext))
  BY DEF Then
<1>2. Ended(F, s, r)
  BY <1>1, FlushEnds DEF IsInitialized
<1>3. CASE r.crashed
  <2>1. t = r
    BY <1>1, <1>3
  <2>2. r.receiveFailed \/ window # "kept"
    BY <1>2, <1>3 DEF Ended, Holding
  <2> QED
    BY <1>2, <1>3, <2>1, <2>2 DEF Ended, Crashed
<1>4. CASE ~r.crashed
  <2>1. r \in States(F) /\ Holding(s, r) /\ Caught(r) /\ IsInitialized(r)
    BY <1>2, <1>4 DEF Ended, Holding, SameSession, IsInitialized
  <2>2. PICK context : context = GraphicsContext
    OBVIOUS
  <2>3. t \in ReleaseGLResources(r, context)
    BY <1>1, <1>4, <2>2
  <2>4. /\ Released(F, r, t) /\ t.count = 0
        /\ ~t.crashed => t.resources = <<>> /\ Caught(t)
        /\ t.crashed => context = Null \/ (r.count = 0 /\ ~(r.recv = Sent(r)))
    BY <1>4, <2>1, <2>3, ReleaseGLResourcesKeeps
  <2>5. t \in States(F) /\ Holding(r, t)
    BY <2>4 DEF Released
  <2>6. Holding(s, t)
    BY <2>1, <2>5, HoldingOn, HoldingItself
  <2>7. ASSUME t.crashed PROVE t.receiveFailed \/ window # "kept"
    <3>1. CASE context = Null
      BY <2>2, <3>1, NullAssumption DEF GraphicsContext
    <3>2. CASE ~(r.recv = Sent(r))
      <4>1. r.receiveFailed
        BY <2>1, <3>2 DEF Caught
      <4> QED
        BY <2>5, <4>1 DEF Holding
    <3> QED
      BY <2>4, <2>7, <3>1, <3>2
  <2> QED
    BY <2>4, <2>5, <2>6, <2>7 DEF TornDown, Crashed
<1> QED
  BY <1>3, <1>4

(* What Shutdown leaves, when it does not crash: only lost sessions. *)
ShutDownLeaves(F, s, t) ==
  /\ t \in States(F) /\ ~t.crashed
  /\ t.accepted = s.accepted /\ (s.receiveFailed => t.receiveFailed)
  /\ t.resources = <<>> /\ Caught(t) /\ t.live = t.lost

LEMMA ShutdownInternalEnds ==
  ASSUME NEW F, NEW s \in States(F), ~s.crashed, IsInitialized(s), Caught(s),
         s.resources = <<>>, s.session.id \notin s.lost,
         s.live = s.lost \cup {s.session.id}, NEW t \in ShutdownInternal(s)
  PROVE  ShutDownLeaves(F, s, t) \/ Crashed(F, s, t)
<1>1. PICK r \in Then(Release(s), DestroySession) :
        t \in (IF r.crashed THEN {r} ELSE {[r EXCEPT !.cuda = "none"]})
  BY DEF ShutdownInternal, Then
<1>2. PICK q \in Release(s) : r \in (IF q.crashed THEN {q} ELSE DestroySession(q))
  BY <1>1 DEF Then
<1>3. /\ Released(F, s, q)
      /\ q.crashed => s.count = 0 /\ ~(s.recv = Sent(s))
  BY <1>2, ReleaseKeeps
<1>4. CASE q.crashed
  <2>1. t = q
    BY <1>1, <1>2, <1>4
  <2>2. s.receiveFailed
    BY <1>3, <1>4 DEF Caught
  <2>3. q.receiveFailed
    BY <1>3, <2>2 DEF Released, Holding
  <2> QED
    BY <1>3, <1>4, <2>1, <2>3 DEF Released, Crashed
<1>5. CASE ~q.crashed
  <2>1. q \in States(F) /\ Holding(s, q)
    BY <1>3 DEF Released
  <2>2. /\ IsInitialized(q) /\ q.session.id = s.session.id /\ q.accepted = s.accepted
        /\ q.live = s.live /\ q.lost = s.lost
        /\ s.receiveFailed => q.receiveFailed
    BY <2>1 DEF Holding, SameSession, IsInitialized
  <2>3. q.resources = <<>>
    BY <1>3, <1>5 DEF Released
  <2>4. Caught(q)
    <3>1. Sent(q) = Sent(s)
      BY <2>2 DEF Sent
    <3> QED
      BY <1>3, <1>5, <3>1 DEF Released, Caught
  <2>5. r \in DestroySession(q)
    BY <1>2, <1>5
  <2>6. /\ r \in States(F) /\ r.crashed = q.crashed
        /\ r.accepted = q.accepted /\ r.recv = q.recv /\ r.receiveFailed = q.receiveFailed
        /\ r.resources = q.resources
        /\ \/ r.live = q.live \ {q.session.id} /\ r.lost = q.lost
           \/ r.live = q.live /\ r.lost = q.lost \cup {q.session.id}
    BY <2>1, <2>2, <2>5, DestroySessionKeeps
  <2>7. r.live = r.lost
    BY <2>2, <2>6
  <2>8. t = [r EXCEPT !.cuda = "none"]
    BY <1>1, <1>5, <2>6
  <2>9. "none" \in {"none", "failed", "context"}
    OBVIOUS
  <2>10. /\ t \in States(F) /\ t.crashed = r.crashed
         /\ t.accepted = r.accepted /\ t.recv = r.recv /\ t.receiveFailed = r.receiveFailed
         /\ t.resources = r.resources /\ t.live = r.live /\ t.lost = r.lost
    BY <2>6, <2>8, <2>9, NoCuda
  <2>11. Caught(t)
    BY <2>4, <2>6, <2>10 DEF Caught, Sent
  <2> QED
    BY <1>5, <2>2, <2>3, <2>6, <2>7, <2>10, <2>11 DEF ShutDownLeaves
<1> QED
  BY <1>4, <1>5

LEMMA ShutDownEnds ==
  ASSUME NEW F, NEW s \in States(F), ~s.crashed, IsInitialized(s),
         s.count = 0 => s.receiveFailed \/ window # "kept",
         s.session.id \notin s.lost, s.live = s.lost \cup {s.session.id},
         NEW t \in ShutDown(s)
  PROVE  ShutDownLeaves(F, s, t) \/ Crashed(F, s, t)
<1>1. PICK r \in Then(SendEOS(s), LAMBDA q : ReleaseGLResources(q, GraphicsContext)) :
        t \in (IF r.crashed THEN {r} ELSE ShutdownInternal(r))
  BY DEF ShutDown, Then
<1>2. TornDown(F, s, r) \/ Crashed(F, s, r)
  BY <1>1, TearDownEnds
<1>3. CASE r.crashed
  <2>1. t = r
    BY <1>1, <1>3
  <2> QED
    BY <1>2, <1>3, <2>1 DEF TornDown
<1>4. CASE ~r.crashed
  <2>1. /\ r \in States(F) /\ Holding(s, r) /\ r.resources = <<>> /\ Caught(r)
    BY <1>2, <1>4 DEF TornDown, Crashed
  <2>2. /\ IsInitialized(r) /\ r.session.id = s.session.id /\ r.accepted = s.accepted
        /\ r.live = s.live /\ r.lost = s.lost
        /\ s.receiveFailed => r.receiveFailed
    BY <2>1 DEF Holding, SameSession, IsInitialized
  <2>3. t \in ShutdownInternal(r)
    BY <1>1, <1>4
  <2>4. ShutDownLeaves(F, r, t) \/ Crashed(F, r, t)
    BY <1>4, <2>1, <2>2, <2>3, ShutdownInternalEnds
  <2>5. CASE ShutDownLeaves(F, r, t)
    BY <2>2, <2>5 DEF ShutDownLeaves
  <2>6. CASE Crashed(F, r, t)
    <3>1. Holding(s, t)
      BY <2>1, <2>6, HoldingOn, HoldingItself DEF Crashed
    <3> QED
      BY <2>6, <3>1 DEF Crashed
  <2> QED
    BY <2>4, <2>5, <2>6
<1> QED
  BY <1>3, <1>4
-----------------------------------------------------------------------------
(* Setup. *)

(* There is a slot for each frame that the driver holds, and one more. *)
LEMMA RingSizes ==
  ASSUME NEW p \in Params
  PROVE  /\ BufferCount(p) \in Nat \ {0}
         /\ DriverHolds(p) \in Int /\ DriverHolds(p) < BufferCount(p)
<1>1. p \in NvParams /\ LookaheadDepth \in Nat
  BY NvAssumption
<1>2. p.keyFramesOnly \in BOOLEAN /\ p.maximumBFrames \in Int
  BY <1>1 DEF NvParams
<1>3. FrameIntervalP(p) \in 0..3
  <2>1. CASE p.keyFramesOnly
    BY <2>1 DEF FrameIntervalP
  <2>2. CASE ~p.keyFramesOnly /\ p.maximumBFrames > 0
    BY <2>2 DEF FrameIntervalP
  <2>3. CASE ~p.keyFramesOnly /\ p.maximumBFrames <= 0
    <3>1. FrameIntervalP(p) = IF p.lowDelayMode THEN 1 ELSE 2
      BY <2>3 DEF FrameIntervalP
    <3> QED
      BY <3>1
  <2> QED
    BY <1>2, <2>1, <2>2, <2>3
<1>4. PICK i \in 0..3 : i = FrameIntervalP(p)
  BY <1>3
<1>5. BufferCount(p) = IF i + LookaheadDepth = 0 THEN 1 ELSE i + LookaheadDepth
  BY <1>4 DEF BufferCount
<1>6. DriverHolds(p) = i + LookaheadDepth - 1
  BY <1>4 DEF DriverHolds
<1> QED
  BY <1>1, <1>5, <1>6

LEMMA OpenKeeps ==
  ASSUME NEW F, NEW s \in States(F), params \in Params,
         NEW w \in Lengths, NEW h \in Lengths, NEW t \in Open(s, w, h)
  PROVE  /\ t \in States(F) /\ t.crashed = s.crashed
         /\ t.session \in Sessions /\ t.session.id = s.opened + 1
         /\ t.session.w = w /\ t.session.h = h /\ t.session.params = params
         /\ t.cuda = s.cuda /\ t.resources = s.resources /\ t.accepted = s.accepted
         /\ t.recv = s.recv /\ t.receiveFailed = s.receiveFailed
         /\ t.opened = s.opened + 1 /\ t.lost = s.lost /\ t.live = s.live \cup {s.opened + 1}
<1> DEFINE v == [id |-> s.opened + 1, w |-> w, h |-> h, params |-> params,
                 usable |-> FALSE, fresh |-> TRUE, started |-> FALSE, eos |-> FALSE]
<1>1. s \in NvStates(F) /\ WellFormed(s) /\ s.opened \in 0..MaxSessions
  BY StateParts
<1>2. /\ s.opened # MaxSessions
      /\ t = [s EXCEPT !.opened = @ + 1, !.live = @ \cup {s.opened + 1}, !.session = v]
  BY DEF Open
<1>3. s.opened + 1 \in SessionIds /\ s.opened + 1 \in 0..MaxSessions
  BY <1>1, <1>2, NvAssumption DEF SessionIds
<1>4. v \in Sessions /\ v.id = s.opened + 1 /\ v.w = w /\ v.h = h /\ v.params = params
  BY <1>3 DEF Sessions
<1> HIDE DEF v
<1>5. s.live \cup {s.opened + 1} \in SUBSET SessionIds
  BY <1>1, <1>3 DEF NvStates
<1>6. t \in NvStates(F)
  BY <1>1, <1>2, <1>3, <1>4, <1>5 DEF NvStates
<1>7. /\ t.session = v /\ t.crashed = s.crashed /\ t.cuda = s.cuda
      /\ t.resources = s.resources /\ t.accepted = s.accepted
      /\ t.recv = s.recv /\ t.receiveFailed = s.receiveFailed
      /\ t.opened = s.opened + 1 /\ t.lost = s.lost /\ t.live = s.live \cup {s.opened + 1}
      /\ t.count = s.count /\ t.slots = s.slots
  BY <1>1, <1>2 DEF NvStates
<1>8. WellFormed(t)
  <2>1. \A id \in s.lost : id \in Nat /\ id <= s.opened
    BY <1>1, NvAssumption DEF WellFormed, NvStates, SessionIds
  <2>2. \A id \in t.lost : id <= t.opened
    BY <1>1, <1>7, <2>1
  <2>3. t.session.id <= t.opened
    BY <1>1, <1>4, <1>7
  <2> QED
    BY <1>1, <1>7, <2>2, <2>3 DEF WellFormed, Sent
<1> QED
  BY <1>4, <1>6, <1>7, <1>8 DEF States

LEMMA OpenedKeeps ==
  ASSUME NEW F, NEW s \in States(F), ~s.crashed, params \in Params,
         NEW w \in Lengths, NEW h \in Lengths, NEW t \in Opened(s, w, h)
  PROVE  /\ t \in States(F) /\ ~t.crashed
         /\ t.session \in Sessions /\ t.session # Null /\ t.session.id = s.opened + 1
         /\ t.session.w = w /\ t.session.h = h /\ t.session.params = params
         /\ t.cuda = "context" /\ t.resources = s.resources /\ t.accepted = s.accepted
         /\ t.recv = s.recv /\ t.receiveFailed = s.receiveFailed
         /\ t.lost = s.lost /\ t.live = s.live \cup {s.opened + 1}
<1>1. PICK r \in CudaReady(s) : t \in (IF r.crashed THEN {r} ELSE Open(r, w, h))
  BY DEF Opened, Then
<1>2. r = [s EXCEPT !.cuda = "context"]
  BY <1>1 DEF CudaReady
<1>3. "context" \in {"none", "failed", "context"}
  OBVIOUS
<1>4. /\ r \in States(F) /\ r.crashed = s.crashed
      /\ r.accepted = s.accepted /\ r.recv = s.recv /\ r.receiveFailed = s.receiveFailed
      /\ r.resources = s.resources /\ r.opened = s.opened
      /\ r.live = s.live /\ r.lost = s.lost /\ r.cuda = "context"
  BY <1>2, <1>3, NoCuda
<1>5. t \in Open(r, w, h)
  BY <1>1, <1>4
<1>6. /\ t \in States(F) /\ t.crashed = r.crashed
      /\ t.session \in Sessions /\ t.session.id = r.opened + 1
      /\ t.session.w = w /\ t.session.h = h /\ t.session.params = params
      /\ t.cuda = r.cuda /\ t.resources = r.resources /\ t.accepted = r.accepted
      /\ t.recv = r.recv /\ t.receiveFailed = r.receiveFailed
      /\ t.lost = r.lost /\ t.live = r.live \cup {r.opened + 1}
  BY <1>4, <1>5, OpenKeeps
<1> QED
  BY <1>4, <1>6, NotNull

(* The ring of a session that was initialized is empty. *)
LEMMA InitializeEncodeCtxKeeps ==
  ASSUME NEW F, NEW s \in States(F), s.session \in Sessions, NEW t \in InitializeEncodeCtx(s)
  PROVE  /\ t \in States(F) /\ t.crashed = s.crashed /\ t.ready
         /\ SameSession(s, t) /\ t.session # Null
         /\ t.count = BufferCount(s.session.params) /\ t.count \in Nat \ {0}
         /\ \A i \in 1..t.count : t.slots[i] \in NoPicture
         /\ t.cuda = s.cuda /\ t.resources = s.resources /\ t.accepted = s.accepted
         /\ t.recv = s.recv /\ t.receiveFailed = s.receiveFailed
         /\ t.lost = s.lost /\ t.live = s.live
<1>1. s \in NvStates(F) /\ WellFormed(s) /\ s.faults \in 0..MaxFaults
  BY StateParts
<1>2. PICK n \in Nat \ {0} : n = BufferCount(s.session.params)
  <2>1. s.session.params \in Params
    BY DEF Sessions
  <2> QED
    BY <2>1, RingSizes
<1>3. PICK made \in 0..n :
        /\ t = [s EXCEPT !.session.usable = TRUE, !.ready = TRUE, !.count = n,
                         !.slots = Ring(s, n, made),
                         !.faults = IF made = n THEN @ ELSE @ + 1]
        /\ t.faults <= MaxFaults
  BY <1>2 DEF InitializeEncodeCtx, WithinFaults
<1> DEFINE v == [s.session EXCEPT !.usable = TRUE]
           ring == Ring(s, n, made)
           f == IF made = n THEN s.faults ELSE s.faults + 1
<1>4. t = [s EXCEPT !.session = v, !.ready = TRUE, !.count = n, !.slots = ring, !.faults = f]
  BY <1>1, <1>3 DEF NvStates
<1>5. /\ v \in Sessions /\ v.id = s.session.id /\ v.w = s.session.w /\ v.h = s.session.h
      /\ v.params = s.session.params
  BY DEF Sessions
<1>6. /\ ring \in Seq(Contents(F)) /\ Len(ring) = n
      /\ \A i \in 1..n : ring[i] \in NoPicture
  <2>1. ring \in [1..n -> NoPicture]
    BY DEF Ring, NoPicture
  <2>2. ring \in [1..n -> Contents(F)]
    BY <2>1 DEF Contents
  <2> QED
    BY <2>1, <2>2, SeqDef
<1>7. f \in Nat
  BY <1>1, NvAssumption
<1> HIDE DEF v, ring, f
<1>8. t.faults = f
  BY <1>1, <1>4 DEF NvStates
<1>9. f \in 0..MaxFaults
  BY <1>3, <1>7, <1>8, NvAssumption
<1>10. t \in NvStates(F)
  BY <1>1, <1>4, <1>5, <1>6, <1>9 DEF NvStates
<1>11. /\ t.session = v /\ t.ready /\ t.count = n /\ t.slots = ring
       /\ t.crashed = s.crashed /\ t.cuda = s.cuda /\ t.resources = s.resources
       /\ t.accepted = s.accepted /\ t.recv = s.recv /\ t.receiveFailed = s.receiveFailed
       /\ t.opened = s.opened /\ t.lost = s.lost /\ t.live = s.live
  BY <1>1, <1>4 DEF NvStates
<1>12. v # Null /\ s.session # Null
  BY <1>5, NotNull
<1>13. WellFormed(t)
  BY <1>1, <1>5, <1>6, <1>11, <1>12 DEF WellFormed, Sent
<1>14. SameSession(s, t)
  BY <1>5, <1>11, <1>12 DEF SameSession
<1> QED
  BY <1>2, <1>6, <1>10, <1>11, <1>12, <1>13, <1>14 DEF States

LEMMA EncodeCtxFailsKeeps ==
  ASSUME NEW F, NEW s \in States(F), NEW t \in EncodeCtxFails(s)
  PROVE  /\ t \in States(F) /\ t.crashed = s.crashed
         /\ t.session = s.session /\ t.resources = s.resources /\ t.accepted = s.accepted
         /\ t.recv = s.recv /\ t.receiveFailed = s.receiveFailed
         /\ t.lost = s.lost /\ t.live = s.live
<1>1. s \in NvStates(F) /\ WellFormed(s)
  BY StateParts
<1>2. CASE t = s
  BY <1>2
<1>3. CASE t = [s EXCEPT !.ready = FALSE]
  <2>1. t \in NvStates(F)
    BY <1>1, <1>3 DEF NvStates
  <2>2. /\ t.crashed = s.crashed
        /\ t.session = s.session /\ t.resources = s.resources /\ t.accepted = s.accepted
        /\ t.recv = s.recv /\ t.receiveFailed = s.receiveFailed
        /\ t.lost = s.lost /\ t.live = s.live /\ t.opened = s.opened
        /\ t.count = s.count /\ t.slots = s.slots
    BY <1>1, <1>3 DEF NvStates
  <2>3. WellFormed(t)
    BY <1>1, <2>2 DEF WellFormed, Sent
  <2> QED
    BY <2>1, <2>2, <2>3 DEF States
<1> QED
  BY <1>2, <1>3 DEF EncodeCtxFails

(* Resources are added behind those that are there. *)
LEMMA AllocateKeeps ==
  ASSUME NEW F, NEW s \in States(F), s.session \in Sessions, NEW n \in Nat,
         NEW t, t = Allocate(s, n)
  PROVE  /\ t \in States(F) /\ t.crashed = s.crashed
         /\ t.session = s.session /\ t.accepted = s.accepted
         /\ t.recv = s.recv /\ t.receiveFailed = s.receiveFailed
         /\ t.lost = s.lost /\ t.live = s.live /\ t.ready = s.ready /\ t.cuda = s.cuda
         /\ t.count = s.count /\ t.slots = s.slots
         /\ Len(t.resources) = Len(s.resources) + n
         /\ \A i \in 1..Len(t.resources) :
              \/ i <= Len(s.resources) /\ t.resources[i] = s.resources[i]
              \/ i > Len(s.resources) /\ t.resources[i] = s.session.id
<1>1. s \in NvStates(F) /\ WellFormed(s) /\ s.resources \in Seq(SessionIds)
  BY StateParts
<1> DEFINE more == [i \in 1..n |-> s.session.id]
           all == s.resources \o more
<1>2. t = [s EXCEPT !.registered = TRUE, !.resources = all]
  BY DEF Allocate
<1>3. more \in Seq(SessionIds) /\ Len(more) = n /\ \A i \in 1..n : more[i] = s.session.id
  <2>1. more \in [1..n -> SessionIds]
    BY DEF Sessions
  <2> QED
    BY <2>1, SeqDef
<1> HIDE DEF more
<1>4. /\ all \in Seq(SessionIds) /\ Len(all) = Len(s.resources) + n
      /\ \A i \in 1..Len(all) : all[i] = IF i <= Len(s.resources) THEN s.resources[i]
                                         ELSE more[i - Len(s.resources)]
  BY <1>1, <1>3, ConcatProperties
<1>5. \A i \in 1..Len(all) :
        \/ i <= Len(s.resources) /\ all[i] = s.resources[i]
        \/ i > Len(s.resources) /\ all[i] = s.session.id
  <2>1. Len(s.resources) \in Nat
    BY <1>1, LenProperties
  <2> QED
    BY <1>3, <1>4, <2>1
<1> HIDE DEF all
<1>6. t \in NvStates(F)
  BY <1>1, <1>2, <1>4 DEF NvStates
<1>7. /\ t.crashed = s.crashed /\ t.resources = all
      /\ t.session = s.session /\ t.accepted = s.accepted
      /\ t.recv = s.recv /\ t.receiveFailed = s.receiveFailed
      /\ t.lost = s.lost /\ t.live = s.live /\ t.ready = s.ready /\ t.cuda = s.cuda
      /\ t.count = s.count /\ t.slots = s.slots /\ t.opened = s.opened
  BY <1>1, <1>2 DEF NvStates
<1>8. WellFormed(t)
  BY <1>1, <1>7 DEF WellFormed, Sent
<1> QED
  BY <1>4, <1>5, <1>6, <1>7, <1>8 DEF States

(* What a setup that succeeds leaves. *)
NewSession(F, s, w, h, t) ==
  /\ t \in States(F) /\ ~t.crashed /\ IsInitialized(t)
  /\ t.session.id \notin s.lost
  /\ t.session.w = w /\ t.session.h = h /\ t.session.params = params
  /\ t.cuda = "context"
  /\ t.count = BufferCount(params) /\ t.count \in Nat \ {0}
  /\ \A i \in 1..t.count : t.slots[i] \in NoPicture
  /\ t.accepted = s.accepted /\ t.recv = s.recv /\ t.receiveFailed = s.receiveFailed
  /\ t.lost = s.lost /\ t.live = s.live \cup {t.session.id}
  /\ Len(t.resources) = Len(s.resources) + t.count
  /\ \A i \in 1..Len(t.resources) :
       \/ i <= Len(s.resources) /\ t.resources[i] = s.resources[i]
       \/ i > Len(s.resources) /\ t.resources[i] = t.session.id

LEMMA SetUpEnds ==
  ASSUME NEW F, NEW s \in States(F), ~s.crashed, params \in Params,
         NEW w \in Lengths, NEW h \in Lengths, NEW t \in SetUp(s, w, h)
  PROVE  NewSession(F, s, w, h, t) /\ window # "destroyed"
<1>1. PICK r \in Then(Opened(s, w, h), InitializeEncodeCtx) :
        t \in (IF r.crashed THEN {r} ELSE InputBuffersAllocated(r))
  BY DEF SetUp, Then
<1>2. PICK q \in Opened(s, w, h) : r \in (IF q.crashed THEN {q} ELSE InitializeEncodeCtx(q))
  BY <1>1 DEF Then
<1>3. /\ q \in States(F) /\ ~q.crashed
      /\ q.session \in Sessions /\ q.session # Null /\ q.session.id = s.opened + 1
      /\ q.session.w = w /\ q.session.h = h /\ q.session.params = params
      /\ q.cuda = "context" /\ q.resources = s.resources /\ q.accepted = s.accepted
      /\ q.recv = s.recv /\ q.receiveFailed = s.receiveFailed
      /\ q.lost = s.lost /\ q.live = s.live \cup {s.opened + 1}
  BY <1>2, OpenedKeeps
<1>4. r \in InitializeEncodeCtx(q)
  BY <1>2, <1>3
<1>5. /\ r \in States(F) /\ r.crashed = q.crashed /\ r.ready
      /\ SameSession(q, r) /\ r.session # Null
      /\ r.count = BufferCount(q.session.params) /\ r.count \in Nat \ {0}
      /\ \A i \in 1..r.count : r.slots[i] \in NoPicture
      /\ r.cuda = q.cuda /\ r.resources = q.resources /\ r.accepted = q.accepted
      /\ r.recv = q.recv /\ r.receiveFailed = q.receiveFailed
      /\ r.lost = q.lost /\ r.live = q.live
  BY <1>3, <1>4, InitializeEncodeCtxKeeps
<1>6. /\ r.session \in Sessions /\ r.session.id = s.opened + 1
      /\ r.session.w = w /\ r.session.h = h /\ r.session.params = params
  BY <1>3, <1>5, StateParts DEF SameSession, NvStates
<1>7. t \in InputBuffersAllocated(r)
  BY <1>1, <1>3, <1>5
<1>8. t = Allocate(r, r.count) /\ GraphicsContext # Null
  BY <1>7 DEF InputBuffersAllocated
<1>9. window # "destroyed"
  BY <1>8 DEF GraphicsContext
<1>10. PICK n \in Nat : n = r.count
  BY <1>5
<1>11. t = Allocate(r, n)
  BY <1>8, <1>10
<1>12. /\ t \in States(F) /\ t.crashed = r.crashed
       /\ t.session = r.session /\ t.accepted = r.accepted
       /\ t.recv = r.recv /\ t.receiveFailed = r.receiveFailed
       /\ t.lost = r.lost /\ t.live = r.live /\ t.ready = r.ready /\ t.cuda = r.cuda
       /\ t.count = r.count /\ t.slots = r.slots
       /\ Len(t.resources) = Len(r.resources) + n
       /\ \A i \in 1..Len(t.resources) :
            \/ i <= Len(r.resources) /\ t.resources[i] = r.resources[i]
            \/ i > Len(r.resources) /\ t.resources[i] = r.session.id
  <2>1. r \in States(F) /\ r.session \in Sessions
    BY <1>5, <1>6
  <2> QED
    BY <1>11, <2>1, AllocateKeeps
<1>13. t.session.id \notin s.lost
  <2>1. \A id \in s.lost : id <= s.opened
    BY StateParts DEF WellFormed
  <2>2. s.opened \in Nat
    BY StateParts
  <2> QED
    BY <1>6, <1>12, <2>1, <2>2
<1>14. IsInitialized(t)
  BY <1>5, <1>12 DEF IsInitialized
<1>15. t.live = s.live \cup {t.session.id} /\ t.count = BufferCount(params)
  BY <1>3, <1>5, <1>6, <1>12
<1> QED
  BY <1>3, <1>5, <1>6, <1>9, <1>10, <1>12, <1>13, <1>14, <1>15 DEF NewSession

(* What a setup that fails leaves. *)
SetUpFailed(F, s, t) ==
  /\ t \in States(F) /\ ~t.crashed
  /\ t.accepted = s.accepted /\ t.recv = s.recv /\ t.receiveFailed = s.receiveFailed
  /\ s.live = s.lost => t.live = t.lost
  /\ (\A i \in 1..Len(s.resources) : s.resources[i] \in s.lost)
       => \A i \in 1..Len(t.resources) : t.resources[i] \in t.lost

LEMMA LostKeeps ==
  ASSUME NEW F, NEW s \in States(F), s.session \in Sessions, NEW t,
         t = [s EXCEPT !.lost = @ \cup {s.session.id}]
  PROVE  /\ t \in States(F) /\ t.crashed = s.crashed
         /\ t.accepted = s.accepted /\ t.recv = s.recv /\ t.receiveFailed = s.receiveFailed
         /\ t.resources = s.resources /\ t.live = s.live
         /\ t.lost = s.lost \cup {s.session.id}
<1>1. s \in NvStates(F) /\ WellFormed(s)
  BY StateParts
<1>2. s.session # Null /\ s.session.id \in SessionIds
  BY NotNull DEF Sessions
<1>3. s.lost \cup {s.session.id} \in SUBSET SessionIds
  BY <1>1, <1>2 DEF NvStates
<1>4. t \in NvStates(F)
  BY <1>1, <1>3 DEF NvStates
<1>5. /\ t.crashed = s.crashed
      /\ t.accepted = s.accepted /\ t.recv = s.recv /\ t.receiveFailed = s.receiveFailed
      /\ t.resources = s.resources /\ t.live = s.live
      /\ t.lost = s.lost \cup {s.session.id}
      /\ t.opened = s.opened /\ t.session = s.session
      /\ t.count = s.count /\ t.slots = s.slots
  BY <1>1 DEF NvStates
<1>6. WellFormed(t)
  BY <1>1, <1>2, <1>5 DEF WellFormed, Sent
<1> QED
  BY <1>4, <1>5, <1>6 DEF States

LEMMA SetUpFailsEnds ==
  ASSUME NEW F, NEW s \in States(F), ~s.crashed, params \in Params,
         NEW w \in Lengths, NEW h \in Lengths, NEW t \in SetUpFails(s, w, h)
  PROVE  SetUpFailed(F, s, t)
<1>1. ASSUME NEW c \in {"none", "failed", "context"}, t = [s EXCEPT !.cuda = c]
      PROVE  SetUpFailed(F, s, t)
  BY <1>1, NoCuda DEF SetUpFailed
<1>2. CASE t \in CudaNotReady(s) \cup CudaReady(s)
  <2>1. CASE t = s
    BY <2>1 DEF SetUpFailed
  <2>2. CASE t = [s EXCEPT !.cuda = "failed"]
    BY <2>2, <1>1
  <2>3. CASE t = [s EXCEPT !.cuda = "context"]
    BY <2>3, <1>1
  <2> QED
    BY <1>2, <2>1, <2>2, <2>3 DEF CudaNotReady, CudaReady
<1>3. ASSUME NEW q \in Opened(s, w, h), NEW r \in States(F), ~r.crashed,
             r.session \in Sessions, r.session.id = q.session.id,
             r.accepted = q.accepted, r.recv = q.recv, r.receiveFailed = q.receiveFailed,
             r.lost = q.lost, r.live = q.live,
             \A i \in 1..Len(r.resources) :
               \/ i \in 1..Len(q.resources) /\ r.resources[i] = q.resources[i]
               \/ r.resources[i] = r.session.id,
             t = [r EXCEPT !.lost = @ \cup {r.session.id}]
      PROVE  SetUpFailed(F, s, t)
  <2>1. /\ q.session.id = s.opened + 1
        /\ q.resources = s.resources /\ q.accepted = s.accepted
        /\ q.recv = s.recv /\ q.receiveFailed = s.receiveFailed
        /\ q.lost = s.lost /\ q.live = s.live \cup {s.opened + 1}
    BY OpenedKeeps
  <2>2. /\ t \in States(F) /\ t.crashed = r.crashed
        /\ t.accepted = r.accepted /\ t.recv = r.recv /\ t.receiveFailed = r.receiveFailed
        /\ t.resources = r.resources /\ t.live = r.live
        /\ t.lost = r.lost \cup {r.session.id}
    BY <1>3, LostKeeps
  <2>3. s.live = s.lost => t.live = t.lost
    BY <1>3, <2>1, <2>2
  <2>4. (\A i \in 1..Len(s.resources) : s.resources[i] \in s.lost)
           => \A i \in 1..Len(t.resources) : t.resources[i] \in t.lost
    BY <1>3, <2>1, <2>2
  <2> QED
    BY <1>3, <2>1, <2>2, <2>3, <2>4 DEF SetUpFailed
<1>4. ASSUME NEW r \in Then(Opened(s, w, h), EncodeCtxFails),
             t = [r EXCEPT !.lost = @ \cup {r.session.id}]
      PROVE  SetUpFailed(F, s, t)
  <2>1. PICK q \in Opened(s, w, h) : r \in (IF q.crashed THEN {q} ELSE EncodeCtxFails(q))
    BY <1>4 DEF Then
  <2>2. q \in States(F) /\ ~q.crashed /\ q.session \in Sessions
    BY OpenedKeeps
  <2>3. r \in EncodeCtxFails(q)
    BY <2>1, <2>2
  <2>4. /\ r \in States(F) /\ r.crashed = q.crashed
        /\ r.session = q.session /\ r.resources = q.resources /\ r.accepted = q.accepted
        /\ r.recv = q.recv /\ r.receiveFailed = q.receiveFailed
        /\ r.lost = q.lost /\ r.live = q.live
    BY <2>2, <2>3, EncodeCtxFailsKeeps
  <2> QED
    BY <1>3, <1>4, <2>2, <2>4
<1>5. ASSUME NEW r \in Then(Then(Opened(s, w, h), InitializeEncodeCtx), InputBuffersFail),
             t = [r EXCEPT !.lost = @ \cup {r.session.id}]
      PROVE  SetUpFailed(F, s, t)
  <2>1. PICK p \in Then(Opened(s, w, h), InitializeEncodeCtx) :
          r \in (IF p.crashed THEN {p} ELSE InputBuffersFail(p))
    BY <1>5 DEF Then
  <2>2. PICK q \in Opened(s, w, h) : p \in (IF q.crashed THEN {q} ELSE InitializeEncodeCtx(q))
    BY <2>1 DEF Then
  <2>3. q \in States(F) /\ ~q.crashed /\ q.session \in Sessions
    BY OpenedKeeps
  <2>4. p \in InitializeEncodeCtx(q)
    BY <2>2, <2>3
  <2>5. /\ p \in States(F) /\ p.crashed = q.crashed
        /\ SameSession(q, p) /\ p.session # Null /\ p.count \in Nat
        /\ p.resources = q.resources /\ p.accepted = q.accepted
        /\ p.recv = q.recv /\ p.receiveFailed = q.receiveFailed
        /\ p.lost = q.lost /\ p.live = q.live
    BY <2>3, <2>4, InitializeEncodeCtxKeeps
  <2>6. p.session \in Sessions /\ p.session.id = q.session.id
    BY <2>5, StateParts DEF SameSession, NvStates
  <2>7. r \in InputBuffersFail(p)
    BY <2>1, <2>3, <2>5
  <2>8. CASE r = p
    BY <1>3, <1>5, <2>3, <2>5, <2>6, <2>8
  <2>9. CASE \E n \in 0..p.count : r = Allocate(p, n)
    <3>1. PICK n \in Nat : r = Allocate(p, n)
      BY <2>5, <2>9
    <3>2. /\ r \in States(F) /\ r.crashed = p.crashed
          /\ r.session = p.session /\ r.accepted = p.accepted
          /\ r.recv = p.recv /\ r.receiveFailed = p.receiveFailed
          /\ r.lost = p.lost /\ r.live = p.live
          /\ \A i \in 1..Len(r.resources) :
               \/ i <= Len(p.resources) /\ r.resources[i] = p.resources[i]
               \/ i > Len(p.resources) /\ r.resources[i] = p.session.id
      BY <2>5, <2>6, <3>1, AllocateKeeps
    <3>3. Len(q.resources) \in Nat /\ Len(r.resources) \in Nat
      BY <2>3, <3>2, StateParts, LenProperties
    <3>4. \A i \in 1..Len(r.resources) :
               \/ i \in 1..Len(q.resources) /\ r.resources[i] = q.resources[i]
               \/ r.resources[i] = r.session.id
      BY <2>5, <3>2, <3>3
    <3> QED
      BY <1>3, <1>5, <2>3, <2>5, <2>6, <3>2, <3>4
  <2> QED
    BY <2>7, <2>8, <2>9 DEF InputBuffersFail
<1> DEFINE A == Then(Opened(s, w, h), EncodeCtxFails)
           B == Then(Then(Opened(s, w, h), InitializeEncodeCtx), InputBuffersFail)
<1>6. t \in (CudaNotReady(s) \cup CudaReady(s))
            \cup {[r EXCEPT !.lost = @ \cup {r.session.id}] : r \in A \cup B}
  BY DEF SetUpFails
<1>7. ASSUME NEW r \in A, t = [r EXCEPT !.lost = @ \cup {r.session.id}]
      PROVE  SetUpFailed(F, s, t)
  BY <1>4, <1>7
<1>8. ASSUME NEW r \in B, t = [r EXCEPT !.lost = @ \cup {r.session.id}]
      PROVE  SetUpFailed(F, s, t)
  BY <1>5, <1>8
<1> HIDE DEF A, B
<1> QED
  BY <1>2, <1>6, <1>7, <1>8
-----------------------------------------------------------------------------
(* Sending. *)

LEMMA StatesGrow ==
  ASSUME NEW F, NEW G, F \subseteq G
  PROVE  States(F) \subseteq States(G)
<1>1. Contents(F) \subseteq Contents(G)
  BY DEF Contents
<1>2. Seq(Contents(F)) \subseteq Seq(Contents(G)) /\ Seq(F) \subseteq Seq(G)
  BY <1>1, SeqMonotonic
<1>3. SUBSET F \subseteq SUBSET G
  OBVIOUS
<1>4. NvStates(F) \subseteq NvStates(G)
  BY <1>2, <1>3 DEF NvStates
<1> QED
  BY <1>4 DEF States

(* The frames of a history, and the packets that show theirs. *)
FramesOf(subs) == 1..Len(subs)

Shows(subs, mayBeLater, p) ==
  LET f == subs[p.pixels]
  IN /\ p.w = Coded(f.w, p.params) /\ p.h = Coded(f.h, p.params)
     /\ p.pixels >= p.frame
     /\ ~mayBeLater => p.pixels = p.frame

Good(subs, mayBeLater) ==
  {p \in [frame : FramesOf(subs), w : Int, h : Int, params : Params, key : BOOLEAN,
          ts : Nat, pixels : FramesOf(subs)] : Shows(subs, mayBeLater, p)}

(* The pictures in the ring have the size of the session. *)
SizedSlots(subs, s) ==
  \A i \in 1..s.count :
    s.slots[i] \notin NoPicture =>
      LET f == subs[s.slots[i].frame]
      IN f.w = s.session.w /\ f.h = s.session.h

(* The slot of a frame that was not received shows that frame, or, after a
   failure to receive, one that has overwritten it. *)
OrderedSlots(s) ==
  \A n \in (s.recv + 1)..Sent(s) :
    LET picture == s.slots[Slot(s, n)]
    IN picture \notin NoPicture =>
         /\ picture.frame >= s.accepted[n]
         /\ ~s.receiveFailed => picture.frame = s.accepted[n]

RingFits(subs, s) ==
  s.count > 0 =>
    /\ s.count = BufferCount(s.session.params)
    /\ s.receiveFailed \/ Sent(s) - s.recv < s.count
    /\ SizedSlots(subs, s)
    /\ OrderedSlots(s)

(* The frame is sent, and its picture is in its slot. *)
Accepted(s, t) ==
  /\ SameSession(s, t)
  /\ t.count = s.count /\ t.recv = s.recv /\ t.receiveFailed = s.receiveFailed
  /\ t.accepted = Append(s.accepted, NextFrame) /\ Sent(t) = Sent(s) + 1
  /\ Slot(s, Sent(s) + 1) \in 1..s.count
  /\ t.slots[Slot(s, Sent(s) + 1)].frame = NextFrame
  /\ \A i \in 1..s.count : i # Slot(s, Sent(s) + 1) => t.slots[i] = s.slots[i]

LEMMA AcceptKeeps ==
  ASSUME NEW F, NEW G, F \subseteq G, NEW s \in States(F), s.session # Null, s.count > 0,
         NextFrame \in G, NEW t, \E key \in BOOLEAN : t = Accept(s, key)
  PROVE  /\ t \in States(G) /\ Accepted(s, t) /\ t.crashed = s.crashed
         /\ t.cuda = s.cuda /\ t.ready = s.ready /\ t.resources = s.resources
         /\ t.live = s.live /\ t.lost = s.lost
<1>1. s \in States(G)
  BY StatesGrow
<1>15. PICK key \in BOOLEAN : t = Accept(s, key)
  OBVIOUS
<1>2. /\ s \in NvStates(G) /\ WellFormed(s) /\ Sent(s) \in Nat /\ s.recv \in 0..Sent(s)
      /\ s.slots \in Seq(Contents(G)) /\ s.count \in 0..Len(s.slots)
      /\ s.accepted \in Seq(G) /\ Len(s.slots) \in Nat
  BY <1>1, StateParts, LenProperties
<1>3. s.session \in Sessions
  BY <1>2 DEF NvStates
<1> DEFINE v == [s.session EXCEPT !.fresh = FALSE]
           k == Slot(s, Sent(s) + 1)
           picture == [frame |-> NextFrame, key |-> key]
           ring == [s.slots EXCEPT ![k] = picture]
           sent == Append(s.accepted, NextFrame)
<1>4. t = [s EXCEPT !.accepted = sent, !.slots = ring, !.session = v]
  BY <1>2, <1>15 DEF Accept, NvStates
<1>5. /\ v \in Sessions /\ v.id = s.session.id /\ v.w = s.session.w
      /\ v.h = s.session.h /\ v.params = s.session.params
  BY <1>3 DEF Sessions
<1>6. k \in 1..s.count /\ k \in 1..Len(s.slots)
  <2>1. k \in 1..s.count
    BY <1>2, SlotInRing
  <2> QED
    BY <1>2, <2>1
<1>7. /\ ring \in Seq(Contents(G)) /\ Len(ring) = Len(s.slots)
      /\ ring[k].frame = NextFrame
      /\ \A i \in 1..s.count : i # k => ring[i] = s.slots[i]
  <2>1. picture \in Contents(G) /\ picture.frame = NextFrame
    BY DEF Contents
  <2> HIDE DEF k, picture
  <2>2. s.slots \in [1..Len(s.slots) -> Contents(G)]
    BY <1>2, LenProperties
  <2>3. ring \in [1..Len(s.slots) -> Contents(G)]
    BY <1>6, <2>1, <2>2
  <2>4. ring \in Seq(Contents(G)) /\ Len(ring) = Len(s.slots)
    BY <1>2, <2>3, SeqDef, LenProperties
  <2>5. \A i \in 1..s.count : i \in DOMAIN s.slots
    BY <1>2, <2>2
  <2> QED
    BY <1>6, <2>1, <2>2, <2>4, <2>5
<1>8. sent \in Seq(G) /\ Len(sent) = Sent(s) + 1
  BY <1>2, AppendProperties DEF Sent
<1> HIDE DEF v, ring, sent
<1>9. t \in NvStates(G)
  BY <1>2, <1>4, <1>5, <1>7, <1>8 DEF NvStates
<1>10. /\ t.session = v /\ t.slots = ring /\ t.accepted = sent
       /\ t.crashed = s.crashed
       /\ t.cuda = s.cuda /\ t.ready = s.ready /\ t.resources = s.resources
       /\ t.live = s.live /\ t.lost = s.lost /\ t.opened = s.opened
       /\ t.count = s.count /\ t.recv = s.recv /\ t.receiveFailed = s.receiveFailed
  BY <1>2, <1>4 DEF NvStates
<1>11. v # Null
  BY <1>5, NotNull
<1>12. Sent(t) = Sent(s) + 1
  BY <1>8, <1>10 DEF Sent
<1>13. WellFormed(t)
  BY <1>2, <1>5, <1>7, <1>10, <1>12 DEF WellFormed
<1>14. SameSession(s, t)
  BY <1>5, <1>10, <1>11 DEF SameSession
<1> QED
  BY <1>6, <1>7, <1>9, <1>10, <1>12, <1>13, <1>14 DEF States, sent, Accepted

(* The frame goes into the slot of no frame that was not received, unless
   receiving has failed. *)
LEMMA AcceptFits ==
  ASSUME NEW subs, NEW news, Len(subs) \in Nat, FramesOf(news) = 1..(Len(subs) + 1),
         \A f \in FramesOf(subs) : news[f] = subs[f],
         NextFrame = Len(subs) + 1,
         NEW s \in States(FramesOf(subs)), s.session # Null, s.count > 0,
         news[NextFrame].w = s.session.w, news[NextFrame].h = s.session.h,
         RingFits(subs, s), NEW t, Accepted(s, t)
  PROVE  SizedSlots(news, t) /\ OrderedSlots(t)
<1> DEFINE k == Slot(s, Sent(s) + 1)
<1>9. PICK F, G : F = FramesOf(subs) /\ G = FramesOf(news)
  OBVIOUS
<1>1. F \subseteq G /\ NextFrame \in G /\ s \in States(F)
  BY <1>9 DEF FramesOf
<1>2. /\ Sent(s) \in Nat /\ s.recv \in 0..Sent(s) /\ s.recv \in Nat
      /\ s.slots \in Seq(Contents(F)) /\ s.count \in 0..Len(s.slots)
      /\ s.accepted \in Seq(F) /\ s.receiveFailed \in BOOLEAN
  BY <1>1, StateParts
<1>3. /\ SameSession(s, t) /\ t.count = s.count /\ t.recv = s.recv
      /\ t.receiveFailed = s.receiveFailed
      /\ t.accepted = Append(s.accepted, NextFrame) /\ Sent(t) = Sent(s) + 1
      /\ k \in 1..s.count
      /\ t.slots[k].frame = NextFrame
      /\ \A i \in 1..s.count : i # k => t.slots[i] = s.slots[i]
  BY DEF Accepted
<1>4. /\ s.receiveFailed \/ Sent(s) - s.recv < s.count
      /\ SizedSlots(subs, s) /\ OrderedSlots(s)
  BY DEF RingFits
<1>5. t.session.w = s.session.w /\ t.session.h = s.session.h
  BY <1>3 DEF SameSession
<1>6. \A i \in 1..s.count : s.slots[i] \notin NoPicture => s.slots[i].frame \in F
  <2>1. \A i \in 1..s.count : s.slots[i] \in Contents(F)
    BY <1>2, ElementOfSeq
  <2> QED
    BY <2>1 DEF Contents
<1>10. \A f \in F : news[f] = subs[f]
  BY <1>9
<1>7. SizedSlots(news, t)
  <2> SUFFICES ASSUME NEW i \in 1..s.count, t.slots[i] \notin NoPicture
               PROVE  /\ news[t.slots[i].frame].w = s.session.w
                      /\ news[t.slots[i].frame].h = s.session.h
    BY <1>3, <1>5 DEF SizedSlots
  <2>1. CASE i = k
    BY <1>3, <2>1
  <2>2. CASE i # k
    <3>1. t.slots[i] = s.slots[i] /\ t.slots[i].frame \in F
      BY <1>3, <1>6, <2>2
    <3> QED
      BY <1>4, <1>10, <3>1 DEF SizedSlots
  <2> QED
    BY <2>1, <2>2
<1>8. OrderedSlots(t)
  <2> SUFFICES ASSUME NEW n \in (s.recv + 1)..(Sent(s) + 1),
                      t.slots[Slot(t, n)] \notin NoPicture
               PROVE  /\ t.slots[Slot(t, n)].frame >= t.accepted[n]
                      /\ ~s.receiveFailed => t.slots[Slot(t, n)].frame = t.accepted[n]
    BY <1>3 DEF OrderedSlots
  <2>1. n \in Nat \ {0} /\ s.count \in Nat
    BY <1>2
  <2>2. Slot(t, n) = Slot(s, n) /\ Slot(s, n) \in 1..s.count
    BY <1>3, <2>1, SlotInRing DEF Slot
  <2>3. NextFrame \in Nat /\ NextFrame >= NextFrame
    OBVIOUS
  <2>4. CASE n = Sent(s) + 1
    <3>1. t.accepted[n] = NextFrame
      BY <1>2, <1>3, <2>4, AppendProperties DEF Sent
    <3>2. t.slots[Slot(t, n)].frame = NextFrame
      BY <1>3, <2>2, <2>4
    <3> QED
      BY <2>3, <3>1, <3>2
  <2>5. CASE n # Sent(s) + 1
    <3>1. n \in (s.recv + 1)..Sent(s) /\ n \in 1..Len(s.accepted)
      <4> DEFINE m == Sent(s)
      <4>1. m \in Nat /\ s.recv \in Nat /\ n \in (s.recv + 1)..(m + 1) /\ n # m + 1
        BY <1>2, <2>5
      <4>2. m = Len(s.accepted)
        BY DEF Sent
      <4> HIDE DEF m
      <4>3. n \in (s.recv + 1)..m /\ n \in 1..m
        BY <4>1
      <4> QED
        BY <4>2, <4>3 DEF m
    <3>2. t.accepted[n] = s.accepted[n] /\ s.accepted[n] \in F
      BY <1>2, <1>3, <3>1, AppendProperties, ElementOfSeq
    <3>3. CASE Slot(s, n) # k
      <4>1. t.slots[Slot(t, n)] = s.slots[Slot(s, n)]
        BY <1>3, <2>2, <3>3
      <4> QED
        BY <1>4, <3>1, <3>2, <4>1 DEF OrderedSlots
    <3>4. CASE Slot(s, n) = k
      <4>1. t.slots[Slot(t, n)].frame = NextFrame
        BY <1>3, <2>2, <3>4
      <4>2. NextFrame >= t.accepted[n]
        BY <1>9, <3>2 DEF FramesOf
      <4>3. ASSUME ~s.receiveFailed PROVE FALSE
        <5>1. Sent(s) - s.recv < s.count
          BY <1>4, <4>3
        <5>2. n < Sent(s) + 1 /\ (Sent(s) + 1) - n < s.count /\ Sent(s) + 1 \in Nat \ {0}
          BY <1>2, <2>1, <3>1, <5>1
        <5> QED
          BY <2>1, <3>4, <5>2, SlotsDiffer
      <4> QED
        BY <4>1, <4>2, <4>3
    <3> QED
      BY <3>3, <3>4
  <2> QED
    BY <2>4, <2>5
<1> QED
  BY <1>7, <1>8

(* The types of the base class. *)
BaseTypes ==
  /\ width \in Lengths /\ height \in Lengths /\ params \in Params
  /\ forceIFrame \in BOOLEAN /\ handlerSet \in BOOLEAN /\ initialized \in BOOLEAN
  /\ mtime \in Nat /\ lastSetupMTime \in Nat /\ lastSetupMTime <= mtime
  /\ submitted \in Seq(Submissions)

(* One more frame is known, and those before are as they were. *)
Grows(subs, news) ==
  /\ Len(subs) \in Nat
  /\ FramesOf(news) = 1..(Len(subs) + 1)
  /\ \A f \in FramesOf(subs) : news[f] = subs[f]

LEMMA SubmitGrows ==
  ASSUME BaseTypes, NEW w \in Lengths, NEW h \in Lengths, Submit(w, h)
  PROVE  /\ submitted' \in Seq(Submissions)
         /\ width' = w /\ height' = h /\ UNCHANGED <<forceIFrame, handlerSet>>
         /\ NextFrame \in Nat /\ NextFrame = Len(submitted) + 1
         /\ NextFrame \in FramesOf(submitted') /\ FramesOf(submitted) \subseteq FramesOf(submitted')
         /\ submitted'[NextFrame].w = w /\ submitted'[NextFrame].h = h
         /\ Grows(submitted, submitted')
<1> DEFINE r == [w |-> w, h |-> h, params |-> params,
                 forced |-> forceIFrame, toHandler |-> handlerSet]
<1>1. submitted' = Append(submitted, r) /\ r \in Submissions
  BY DEF Submit, BaseTypes, Submissions
<1>2. r.w = w /\ r.h = h
  OBVIOUS
<1>3. Len(submitted) \in Nat /\ submitted \in Seq(Submissions)
  BY LenProperties DEF BaseTypes
<1> HIDE DEF r
<1>4. /\ submitted' \in Seq(Submissions) /\ Len(submitted') = Len(submitted) + 1
      /\ \A i \in 1..Len(submitted) : submitted'[i] = submitted[i]
      /\ submitted'[Len(submitted) + 1] = r
  BY <1>1, <1>3, AppendProperties
<1>5. NextFrame = Len(submitted) + 1
  BY DEF NextFrame
<1>6. Grows(submitted, submitted')
  BY <1>3, <1>4 DEF Grows, FramesOf
<1> QED
  BY <1>2, <1>3, <1>4, <1>5, <1>6 DEF Submit, FramesOf

LEMMA GoodGrows ==
  ASSUME NEW subs, NEW news, Grows(subs, news), NEW s, NEW t,
         s.receiveFailed => t.receiveFailed
  PROVE  Good(subs, s.receiveFailed) \subseteq Good(news, t.receiveFailed)
<1> SUFFICES ASSUME NEW p \in Good(subs, s.receiveFailed)
             PROVE  p \in Good(news, t.receiveFailed)
  OBVIOUS
<1>1. /\ p \in [frame : FramesOf(subs), w : Int, h : Int, params : Params, key : BOOLEAN,
                ts : Nat, pixels : FramesOf(subs)]
      /\ Shows(subs, s.receiveFailed, p)
  BY DEF Good
<1>2. p.pixels \in FramesOf(subs)
  BY <1>1
<1>3. FramesOf(subs) \subseteq FramesOf(news) /\ news[p.pixels] = subs[p.pixels]
  BY <1>2 DEF Grows, FramesOf
<1>4. p \in [frame : FramesOf(news), w : Int, h : Int, params : Params, key : BOOLEAN,
             ts : Nat, pixels : FramesOf(news)]
  BY <1>1, <1>3
<1>5. Shows(news, t.receiveFailed, p)
  BY <1>1, <1>3 DEF Shows
<1> QED
  BY <1>4, <1>5 DEF Good

LEMMA GoodWeakens ==
  ASSUME NEW subs, NEW s, NEW t, s.receiveFailed => t.receiveFailed
  PROVE  Good(subs, s.receiveFailed) \subseteq Good(subs, t.receiveFailed)
BY DEF Good, Shows

LEMMA RingFitsGrows ==
  ASSUME NEW subs, NEW news, Grows(subs, news), NEW s \in States(FramesOf(subs)),
         RingFits(subs, s)
  PROVE  RingFits(news, s)
<1>1. s.slots \in Seq(Contents(FramesOf(subs))) /\ s.count \in 0..Len(s.slots)
  BY StateParts
<1>2. \A i \in 1..s.count : s.slots[i] \in Contents(FramesOf(subs))
  BY <1>1, ElementOfSeq
<1>3. \A i \in 1..s.count : s.slots[i] \notin NoPicture =>
        news[s.slots[i].frame] = subs[s.slots[i].frame]
  BY <1>2 DEF Contents, Grows
<1>4. SizedSlots(subs, s) => SizedSlots(news, s)
  BY <1>3 DEF SizedSlots
<1> QED
  BY <1>4 DEF RingFits

(* More is received. *)
LEMMA RingFitsOn ==
  ASSUME NEW F, NEW subs, NEW s \in States(F), NEW t \in States(F), Holding(s, t),
         t.count = s.count, s.session # Null, RingFits(subs, s)
  PROVE  RingFits(subs, t)
<1>1. /\ Sent(s) \in Nat /\ s.recv \in 0..Sent(s) /\ t.recv \in Nat /\ s.recv \in Nat
      /\ s.count \in Nat
  BY StateParts
<1>2. /\ t.slots = s.slots /\ t.accepted = s.accepted /\ s.recv <= t.recv
      /\ s.receiveFailed => t.receiveFailed
      /\ t.session.w = s.session.w /\ t.session.h = s.session.h
      /\ t.session.params = s.session.params
  BY DEF Holding, SameSession
<1>3. Sent(t) = Sent(s)
  BY <1>2 DEF Sent
<1> SUFFICES ASSUME s.count > 0
             PROVE  /\ t.count = BufferCount(t.session.params)
                    /\ t.receiveFailed \/ Sent(t) - t.recv < t.count
                    /\ SizedSlots(subs, t)
                    /\ OrderedSlots(t)
  BY DEF RingFits
<1>4. s.count = BufferCount(s.session.params) /\ SizedSlots(subs, s) /\ OrderedSlots(s)
      /\ (s.receiveFailed \/ Sent(s) - s.recv < s.count)
  BY DEF RingFits
<1>5. t.receiveFailed \/ Sent(t) - t.recv < t.count
  <2>1. Sent(s) - s.recv < s.count => Sent(t) - t.recv < t.count
    BY <1>1, <1>2, <1>3
  <2> QED
    BY <1>2, <1>4, <2>1
<1>6. SizedSlots(subs, t)
  BY <1>2, <1>4 DEF SizedSlots
<1>7. OrderedSlots(t)
  <2> SUFFICES ASSUME NEW n \in (t.recv + 1)..Sent(t), t.slots[Slot(t, n)] \notin NoPicture
               PROVE  /\ t.slots[Slot(t, n)].frame >= t.accepted[n]
                      /\ ~t.receiveFailed => t.slots[Slot(t, n)].frame = t.accepted[n]
    BY DEF OrderedSlots
  <2>1. n \in (s.recv + 1)..Sent(s)
    BY <1>1, <1>2, <1>3
  <2>2. Slot(t, n) = Slot(s, n)
    BY DEF Slot
  <2>3. /\ s.slots[Slot(s, n)].frame >= s.accepted[n]
        /\ ~s.receiveFailed => s.slots[Slot(s, n)].frame = s.accepted[n]
    BY <1>2, <1>4, <2>1, <2>2 DEF OrderedSlots
  <2> QED
    BY <1>2, <2>2, <2>3
<1> QED
  BY <1>2, <1>4, <1>5, <1>6, <1>7

LEMMA CodedIsInt ==
  ASSUME NEW length \in Lengths, NEW p
  PROVE  Coded(length, p) \in Int
<1>1. length \in Nat
  BY LengthsAssumption
<1>2. length % 2 \in Int
  BY <1>1
<1> QED
  BY <1>1, <1>2 DEF Coded

(* A packet is given out from the slot of its frame. *)
LEMMA PacketIsGood ==
  ASSUME NEW subs, NEW s \in States(FramesOf(subs)), s.session # Null, s.count > 0,
         SizedSlots(subs, s), OrderedSlots(s),
         NEW n \in (s.recv + 1)..Sent(s), s.slots[Slot(s, n)] \notin NoPicture,
         NEW t, s.receiveFailed => t.receiveFailed
  PROVE  Packet(s, n) \in Good(subs, t.receiveFailed)
<1> DEFINE F == FramesOf(subs)
<1>1. /\ s \in NvStates(F) /\ Sent(s) \in Nat /\ s.recv \in 0..Sent(s)
      /\ s.slots \in Seq(Contents(F)) /\ s.count \in 0..Len(s.slots)
      /\ s.accepted \in Seq(F)
  BY StateParts
<1>2. n \in Nat \ {0} /\ n \in 1..Len(s.accepted)
  BY <1>1 DEF Sent
<1>3. Slot(s, n) \in 1..s.count
  BY <1>1, <1>2, SlotInRing
<1>4. s.accepted[n] \in F
  BY <1>1, <1>2, ElementOfSeq
<1>5. PICK picture : picture = s.slots[Slot(s, n)]
  OBVIOUS
<1>6. picture \in Contents(F)
  <2>1. Slot(s, n) \in 1..Len(s.slots)
    BY <1>1, <1>3
  <2> QED
    BY <1>1, <1>5, <2>1, ElementOfSeq
<1>7. picture \in [frame : F, key : BOOLEAN]
  BY <1>5, <1>6 DEF Contents
<1>8. picture.frame \in F /\ picture.key \in BOOLEAN
  BY <1>7
<1>9. /\ subs[picture.frame].w = s.session.w /\ subs[picture.frame].h = s.session.h
  BY <1>3, <1>5 DEF SizedSlots
<1>10. /\ picture.frame >= s.accepted[n]
       /\ ~s.receiveFailed => picture.frame = s.accepted[n]
  BY <1>5 DEF OrderedSlots
<1>11. s.session.w \in Lengths /\ s.session.h \in Lengths /\ s.session.params \in Params
  BY <1>1 DEF NvStates, Sessions
<1>12. /\ Coded(s.session.w, s.session.params) \in Int
       /\ Coded(s.session.h, s.session.params) \in Int
  BY <1>11, CodedIsInt
<1>13. n - 1 \in Nat
  BY <1>2
<1>14. Packet(s, n) =
         [frame |-> s.accepted[n],
          w |-> Coded(s.session.w, s.session.params),
          h |-> Coded(s.session.h, s.session.params),
          params |-> s.session.params, key |-> picture.key, ts |-> n - 1,
          pixels |-> picture.frame]
  BY <1>5 DEF Packet
<1>15. PICK p : p = Packet(s, n)
  OBVIOUS
<1>16. p \in [frame : FramesOf(subs), w : Int, h : Int, params : Params, key : BOOLEAN,
              ts : Nat, pixels : FramesOf(subs)]
  BY <1>4, <1>8, <1>11, <1>12, <1>13, <1>14, <1>15
<1>17. /\ p.frame = s.accepted[n] /\ p.pixels = picture.frame /\ p.params = s.session.params
       /\ p.w = Coded(s.session.w, s.session.params)
       /\ p.h = Coded(s.session.h, s.session.params)
  BY <1>14, <1>15
<1>18. Shows(subs, t.receiveFailed, p)
  BY <1>9, <1>10, <1>17 DEF Shows
<1> QED
  BY <1>15, <1>16, <1>18 DEF Good

(* A report hands over packets of a set P: if the packets handed over and on
   their way were of P, they still are. *)
LEMMA ReportKeeps ==
  ASSUME NextFrame \in Nat, NEW P, stream \in Seq(P),
         calls \in Seq([frame : Nat, rest : Seq(P)]),
         NEW status, NEW packets \in Seq(P),
         ReportResult(status, packets) \/ CallBack(status, packets, <<>>)
  PROVE  stream' \in Seq(P) /\ calls' \in Seq([frame : Nat, rest : Seq(P)])
<1> DEFINE C == [frame : Nat, rest : Seq(P)]
           Kept == stream' \in Seq(P) /\ calls' \in Seq(C)
<1>1. ASSUME NEW st, NEW ps \in Seq(P), NEW rest \in Seq(P), CallBack(st, ps, rest)
      PROVE  Kept
  <2>1. <<[frame |-> NextFrame, rest |-> rest]>> \o calls \in Seq(C)
    <3>1. [frame |-> NextFrame, rest |-> rest] \in C
      OBVIOUS
    <3> QED
      BY <3>1, ConcatProperties
  <2>2. stream \o ps \in Seq(P)
    BY ConcatProperties
  <2> QED
    BY <1>1, <2>1, <2>2 DEF CallBack
<1>2. CASE CallBack(status, packets, <<>>)
  BY <1>1, <1>2, EmptySeq
<1>3. CASE packets # <<>> /\ CallBack("Success", <<Head(packets)>>, Tail(packets))
  <2>1. Head(packets) \in P /\ Tail(packets) \in Seq(P)
    BY <1>3, HeadTailProperties
  <2>2. <<Head(packets)>> \in Seq(P)
    BY <2>1
  <2> QED
    BY <1>1, <1>3, <2>1, <2>2
<1>4. CASE UNCHANGED <<calls, reports, stream>>
  BY <1>4
<1> QED
  BY <1>2, <1>3, <1>4 DEF ReportResult

LEMMA PacketsInLarger ==
  ASSUME NEW P, NEW Q, P \subseteq Q, stream \in Seq(P),
         calls \in Seq([frame : Nat, rest : Seq(P)])
  PROVE  stream \in Seq(Q) /\ calls \in Seq([frame : Nat, rest : Seq(Q)])
<1>1. Seq(P) \subseteq Seq(Q)
  BY SeqMonotonic
<1>2. PICK A, B : A = [frame : Nat, rest : Seq(P)] /\ B = [frame : Nat, rest : Seq(Q)]
  OBVIOUS
<1>3. A \subseteq B
  BY <1>1, <1>2
<1>4. Seq(A) \subseteq Seq(B)
  BY <1>3, SeqMonotonic
<1> QED
  BY <1>1, <1>2, <1>4

(* What EncodeInternal does to a state. *)
Encoded(subs, s, t) ==
  /\ t \in States(FramesOf(subs)) /\ SameSession(s, t)
  /\ t.cuda = s.cuda /\ t.ready = s.ready /\ t.resources = s.resources
  /\ t.live = s.live /\ t.lost = s.lost /\ t.count = s.count
  /\ s.receiveFailed => t.receiveFailed
  /\ t.crashed => s.count = 0
  /\ ~t.crashed => RingFits(subs, t)

LEMMA AcceptedFits ==
  ASSUME BaseTypes, NEW w \in Lengths, NEW h \in Lengths, Submit(w, h),
         NEW s \in States(FramesOf(submitted)), ~s.crashed, IsInitialized(s),
         s.session.w = w, s.session.h = h, s.count > 0, RingFits(submitted, s),
         NEW t, \E key \in BOOLEAN : t = Accept(s, key)
  PROVE  /\ t \in States(FramesOf(submitted')) /\ ~t.crashed /\ Accepted(s, t)
         /\ t.cuda = s.cuda /\ t.ready = s.ready /\ t.resources = s.resources
         /\ t.live = s.live /\ t.lost = s.lost
         /\ SizedSlots(submitted', t) /\ OrderedSlots(t)
         /\ t.count = BufferCount(t.session.params)
<1>1. PICK subs, news : subs = submitted /\ news = submitted'
  OBVIOUS
<1>2. /\ NextFrame = Len(subs) + 1 /\ NextFrame \in FramesOf(news)
      /\ FramesOf(subs) \subseteq FramesOf(news)
      /\ news[NextFrame].w = w /\ news[NextFrame].h = h
      /\ Grows(subs, news)
  BY <1>1, SubmitGrows
<1>3. s \in States(FramesOf(subs)) /\ s.session # Null /\ RingFits(subs, s)
  BY <1>1 DEF IsInitialized
<1>4. /\ t \in States(FramesOf(news)) /\ Accepted(s, t) /\ t.crashed = s.crashed
      /\ t.cuda = s.cuda /\ t.ready = s.ready /\ t.resources = s.resources
      /\ t.live = s.live /\ t.lost = s.lost
  <2>1. PICK F, G : F = FramesOf(subs) /\ G = FramesOf(news)
    OBVIOUS
  <2>2. F \subseteq G /\ NextFrame \in G /\ s \in States(F)
    BY <1>2, <1>3, <2>1
  <2>3. /\ t \in States(G) /\ Accepted(s, t) /\ t.crashed = s.crashed
        /\ t.cuda = s.cuda /\ t.ready = s.ready /\ t.resources = s.resources
        /\ t.live = s.live /\ t.lost = s.lost
    BY <1>3, <2>2, AcceptKeeps
  <2> QED
    BY <2>1, <2>3
<1>5. SizedSlots(news, t) /\ OrderedSlots(t)
  <2>1. /\ Len(subs) \in Nat /\ FramesOf(news) = 1..(Len(subs) + 1)
        /\ \A f \in FramesOf(subs) : news[f] = subs[f]
    BY <1>2 DEF Grows
  <2> QED
    BY <1>2, <1>3, <1>4, <2>1, AcceptFits
<1>6. t.count = BufferCount(t.session.params)
  BY <1>3, <1>4 DEF RingFits, Accepted, SameSession
<1> QED
  BY <1>1, <1>4, <1>5, <1>6

LEMMA FunctionIsSeq ==
  ASSUME NEW P, NEW n \in Nat, NEW f \in [1..n -> P]
  PROVE  f \in Seq(P)
BY SeqDef

(* The driver waits for more input, or packets are received. *)
LEMMA EncodeAcceptedKeeps ==
  ASSUME BaseTypes, NEW w \in Lengths, NEW h \in Lengths, Submit(w, h),
         NEW news, news = submitted',
         NEW s \in States(FramesOf(news)), ~s.crashed, s.session # Null, s.count > 0,
         s.count = BufferCount(s.session.params),
         SizedSlots(news, s), OrderedSlots(s),
         stream \in Seq(Good(news, s.receiveFailed)),
         calls \in Seq([frame : Nat, rest : Seq(Good(news, s.receiveFailed))]),
         EncodeAccepted(s)
  PROVE  /\ Encoded(news, s, nv') /\ ~nv'.crashed
         /\ stream' \in Seq(Good(news, nv'.receiveFailed))
         /\ calls' \in Seq([frame : Nat, rest : Seq(Good(news, nv'.receiveFailed))])
<1>1. /\ Sent(s) \in Nat /\ s.recv \in 0..Sent(s) /\ s.count \in Nat /\ s \in NvStates(FramesOf(news))
  BY StateParts
<1>2. s.session \in Sessions /\ s.session.params \in Params
  BY <1>1 DEF NvStates, Sessions
<1>3. NextFrame \in Nat
  BY SubmitGrows
<1>4. CASE /\ Sent(s) - s.recv <= DriverHolds(s.session.params) \/ s.receiveFailed
           /\ nv' = s
           /\ ReportResult("Error", <<>>)
  <2>1. s.receiveFailed \/ Sent(s) - s.recv < s.count
    <3>1. ASSUME Sent(s) - s.recv <= DriverHolds(s.session.params)
          PROVE  Sent(s) - s.recv < s.count
      <4>1. PICK d : d = DriverHolds(s.session.params)
        OBVIOUS
      <4>2. d \in Int /\ d < s.count
        BY <1>2, <4>1, RingSizes
      <4> QED
        BY <1>1, <3>1, <4>1, <4>2
    <3> QED
      BY <1>4, <3>1
  <2>2. RingFits(news, s)
    BY <2>1 DEF RingFits
  <2>3. Encoded(news, s, s)
    BY <2>2 DEF Encoded, SameSession
  <2>4. PICK P : P = Good(news, s.receiveFailed)
    OBVIOUS
  <2>5. <<>> \in Seq(P) /\ stream \in Seq(P) /\ calls \in Seq([frame : Nat, rest : Seq(P)])
    BY <2>4, EmptySeq
  <2>6. stream' \in Seq(P) /\ calls' \in Seq([frame : Nat, rest : Seq(P)])
    BY <1>3, <1>4, <2>5, ReportKeeps
  <2> QED
    BY <1>4, <2>3, <2>4, <2>6
<1>5. ASSUME NEW o \in Received(s),
             nv' = [AfterReceive(s, o) EXCEPT !.session.started = @ \/ o.upTo > s.recv],
             ReportResult(IF o.recv = Sent(s) THEN "Success" ELSE "Error",
                          [i \in 1..(o.upTo - s.recv) |-> Packet(s, s.recv + i)])
      PROVE  /\ Encoded(news, s, nv') /\ ~nv'.crashed
             /\ stream' \in Seq(Good(news, nv'.receiveFailed))
             /\ calls' \in Seq([frame : Nat, rest : Seq(Good(news, nv'.receiveFailed))])
  <2>1. /\ o.upTo \in s.recv..Sent(s) /\ o.recv \in s.recv..Sent(s)
        /\ o.recv \in Nat /\ o.upTo \in Nat
        /\ \A n \in (s.recv + 1)..o.upTo : s.slots[Slot(s, n)] \notin NoPicture
        /\ o.recv < Sent(s) => s.receiveFailed \/ s.faults < MaxFaults
    BY ReceivedParts
  <2>2. PICK r : r = AfterReceive(s, o)
    OBVIOUS
  <2>3. /\ r \in States(FramesOf(news)) /\ Holding(s, r) /\ r.session = s.session
        /\ r.resources = s.resources /\ r.count = s.count /\ r.crashed = s.crashed
        /\ r.recv = o.recv /\ Caught(r)
    BY <2>1, <2>2, AfterReceiveKeeps
  <2>4. PICK t : t = [r EXCEPT !.session.started = @ \/ o.upTo > s.recv]
    OBVIOUS
  <2>5. nv' = t
    BY <1>5, <2>2, <2>4
  <2>8. /\ t \in States(FramesOf(news)) /\ t.session # Null /\ Holding(r, t)
        /\ t.resources = r.resources /\ t.count = r.count /\ t.crashed = r.crashed
        /\ t.recv = r.recv /\ t.receiveFailed = r.receiveFailed
    <3>1. PICK F, n : F = FramesOf(news) /\ n = s.recv
      OBVIOUS
    <3>2. r \in States(F) /\ r.session # Null
      BY <2>3, <3>1
    <3>3. t = [r EXCEPT !.session.started = @ \/ o.upTo > n]
      BY <2>4, <3>1
    <3>4. PICK u : u = [r.session EXCEPT !.started = @ \/ o.upTo > n]
      OBVIOUS
    <3>5. t = [r EXCEPT !.session = u]
      BY <3>2, <3>3, <3>4, StateParts DEF NvStates
    <3>6. /\ u \in Sessions /\ u.id = r.session.id /\ u.w = r.session.w
          /\ u.h = r.session.h /\ u.params = r.session.params
      <4>1. r.session \in Sessions
        BY <1>2, <2>3
      <4>2. (r.session.started \/ o.upTo > n) \in BOOLEAN
        OBVIOUS
      <4> QED
        BY <3>4, <4>1, <4>2 DEF Sessions
    <3>7. /\ t \in States(F) /\ Holding(r, t)
          /\ t.resources = r.resources /\ t.count = r.count /\ t.crashed = r.crashed
          /\ t.recv = r.recv /\ t.receiveFailed = r.receiveFailed
      BY <3>2, <3>5, <3>6, SessionFlags
    <3>8. t.session # Null
      BY <3>2, <3>7 DEF Holding, SameSession
    <3> QED
      BY <3>1, <3>7, <3>8
  <2>9. Holding(s, t)
    BY <2>3, <2>8, HoldingOn, HoldingItself
  <2>10. s.receiveFailed => t.receiveFailed
    BY <2>9 DEF Holding
  <2>11. RingFits(news, t)
    <3>1. t.receiveFailed \/ Sent(t) - t.recv < t.count
      <4>1. Sent(t) = Sent(r)
        BY <2>8 DEF Holding, Sent
      <4>2. CASE r.receiveFailed
        BY <2>8, <4>2
      <4>3. CASE r.recv = Sent(r)
        BY <1>1, <2>1, <2>3, <2>8, <4>1, <4>3
      <4> QED
        BY <2>3, <4>2, <4>3 DEF Caught
    <3>2. t.session.params = s.session.params /\ t.session.w = s.session.w
          /\ t.session.h = s.session.h /\ t.slots = s.slots /\ t.accepted = s.accepted
      BY <2>9 DEF Holding, SameSession
    <3>3. SizedSlots(news, t)
      BY <2>3, <2>8, <3>2 DEF SizedSlots
    <3>4. OrderedSlots(t)
      <4> SUFFICES ASSUME NEW n \in (t.recv + 1)..Sent(t),
                          t.slots[Slot(t, n)] \notin NoPicture
                   PROVE  /\ t.slots[Slot(t, n)].frame >= t.accepted[n]
                          /\ ~t.receiveFailed => t.slots[Slot(t, n)].frame = t.accepted[n]
        BY DEF OrderedSlots
      <4>1. n \in (s.recv + 1)..Sent(s)
        BY <1>1, <2>1, <2>3, <2>8, <3>2 DEF Sent
      <4>2. Slot(t, n) = Slot(s, n)
        BY <2>3, <2>8 DEF Slot
      <4>3. /\ s.slots[Slot(s, n)].frame >= s.accepted[n]
            /\ ~s.receiveFailed => s.slots[Slot(s, n)].frame = s.accepted[n]
        BY <3>2, <4>1, <4>2 DEF OrderedSlots
      <4> QED
        BY <2>10, <3>2, <4>2, <4>3
    <3> QED
      BY <2>3, <2>8, <3>1, <3>2, <3>3, <3>4 DEF RingFits
  <2>12. Encoded(news, s, t) /\ ~t.crashed
    BY <2>3, <2>8, <2>9, <2>10, <2>11 DEF Encoded, Holding
  <2>13. PICK P : P = Good(news, t.receiveFailed)
    OBVIOUS
  <2>14. stream \in Seq(P) /\ calls \in Seq([frame : Nat, rest : Seq(P)])
    BY <2>10, <2>13, GoodWeakens, PacketsInLarger
  <2>15. PICK ps : ps = [i \in 1..(o.upTo - s.recv) |-> Packet(s, s.recv + i)]
    OBVIOUS
  <2>16. ps \in Seq(P)
    <3>4. o.upTo \in Nat /\ s.recv \in Nat /\ s.recv <= o.upTo
      BY <1>1, <2>1
    <3>1. \A i \in 1..(o.upTo - s.recv) : Packet(s, s.recv + i) \in P
      <4> TAKE i \in 1..(o.upTo - s.recv)
      <4>1. PICK n \in (s.recv + 1)..o.upTo : n = s.recv + i
        <5>1. s.recv + i \in (s.recv + 1)..o.upTo
          BY <3>4
        <5> QED
          BY <5>1
      <4>2. n \in (s.recv + 1)..Sent(s) /\ s.slots[Slot(s, n)] \notin NoPicture
        BY <1>1, <2>1
      <4>3. Packet(s, n) \in Good(news, t.receiveFailed)
        BY <2>10, <4>2, PacketIsGood
      <4> QED
        BY <2>13, <4>1, <4>3
    <3>2. o.upTo - s.recv \in Nat
      BY <3>4
    <3>3. ps \in [1..(o.upTo - s.recv) -> P]
      BY <2>15, <3>1
    <3> QED
      BY <3>2, <3>3, FunctionIsSeq
  <2>17. PICK status : status = IF o.recv = Sent(s) THEN "Success" ELSE "Error"
    OBVIOUS
  <2>18. ReportResult(status, ps)
    BY <1>5, <2>15, <2>17
  <2>19. stream' \in Seq(P) /\ calls' \in Seq([frame : Nat, rest : Seq(P)])
    BY <1>3, <2>14, <2>16, <2>18, ReportKeeps
  <2> QED
    BY <2>5, <2>12, <2>13, <2>19
<1> QED
  BY <1>4, <1>5 DEF EncodeAccepted

LEMMA EncodeInternalKeeps ==
  ASSUME BaseTypes, NEW w \in Lengths, NEW h \in Lengths, Submit(w, h),
         NEW s \in States(FramesOf(submitted)), ~s.crashed, IsInitialized(s),
         s.session.w = w, s.session.h = h, RingFits(submitted, s),
         stream \in Seq(Good(submitted, s.receiveFailed)),
         calls \in Seq([frame : Nat, rest : Seq(Good(submitted, s.receiveFailed))]),
         EncodeInternal(s)
  PROVE  /\ Encoded(submitted', s, nv')
         /\ stream' \in Seq(Good(submitted', nv'.receiveFailed))
         /\ calls' \in Seq([frame : Nat, rest : Seq(Good(submitted', nv'.receiveFailed))])
<1>1. PICK subs, news : subs = submitted /\ news = submitted'
  OBVIOUS
<1>2. /\ Grows(subs, news) /\ NextFrame \in Nat
      /\ FramesOf(subs) \subseteq FramesOf(news)
  BY <1>1, SubmitGrows
<1>3. /\ s \in States(FramesOf(subs)) /\ s \in States(FramesOf(news)) /\ s.count \in Nat
      /\ s.session # Null
  BY <1>1, <1>2, StatesGrow, StateParts DEF IsInitialized
<1>4. stream \in Seq(Good(news, s.receiveFailed)) /\
      calls \in Seq([frame : Nat, rest : Seq(Good(news, s.receiveFailed))])
  <2>1. PICK P, Q : P = Good(subs, s.receiveFailed) /\ Q = Good(news, s.receiveFailed)
    OBVIOUS
  <2>2. P \subseteq Q
    BY <1>2, <2>1, GoodGrows
  <2>3. stream \in Seq(P) /\ calls \in Seq([frame : Nat, rest : Seq(P)])
    BY <1>1, <2>1
  <2> QED
    BY <2>1, <2>2, <2>3, PacketsInLarger
<1>5. CASE s.count = 0 /\ nv' = Crash(s) /\ UNCHANGED <<calls, reports, stream, failed>>
  <2>1. PICK t : t = Crash(s)
    OBVIOUS
  <2>2. /\ t \in States(FramesOf(news)) /\ t.crashed /\ Holding(s, t)
        /\ t.resources = s.resources /\ t.count = s.count
    BY <1>3, <2>1, CrashKeeps
  <2>3. s.receiveFailed => t.receiveFailed
    BY <2>2 DEF Holding
  <2>4. Encoded(news, s, t)
    BY <1>5, <2>2, <2>3 DEF Encoded, Holding
  <2>5. /\ stream \in Seq(Good(news, t.receiveFailed))
        /\ calls \in Seq([frame : Nat, rest : Seq(Good(news, t.receiveFailed))])
    BY <1>4, <2>3, GoodWeakens, PacketsInLarger
  <2> QED
    BY <1>1, <1>5, <2>1, <2>4, <2>5
<1>6. CASE s.count > 0 /\ nv' = s /\ ReportResult("Error", <<>>)
  <2>1. PICK P : P = Good(news, s.receiveFailed)
    OBVIOUS
  <2>2. <<>> \in Seq(P) /\ stream \in Seq(P) /\ calls \in Seq([frame : Nat, rest : Seq(P)])
    BY <1>4, <2>1, EmptySeq
  <2>3. stream' \in Seq(P) /\ calls' \in Seq([frame : Nat, rest : Seq(P)])
    BY <1>2, <1>6, <2>2, ReportKeeps
  <2>4. RingFits(news, s)
    BY <1>1, <1>2, <1>3, RingFitsGrows
  <2>5. Encoded(news, s, s)
    BY <1>3, <2>4 DEF Encoded, SameSession
  <2> QED
    BY <1>1, <1>6, <2>1, <2>3, <2>5
<1>7. ASSUME s.count > 0, NEW key \in BOOLEAN, EncodeAccepted(Accept(s, key))
      PROVE  /\ Encoded(submitted', s, nv')
             /\ stream' \in Seq(Good(submitted', nv'.receiveFailed))
             /\ calls' \in Seq([frame : Nat, rest : Seq(Good(submitted', nv'.receiveFailed))])
  <2>1. PICK a : a = Accept(s, key)
    OBVIOUS
  <2>2. \E k \in BOOLEAN : a = Accept(s, k)
    BY <2>1
  <2>3. /\ a \in States(FramesOf(submitted')) /\ ~a.crashed /\ Accepted(s, a)
        /\ a.cuda = s.cuda /\ a.ready = s.ready /\ a.resources = s.resources
        /\ a.live = s.live /\ a.lost = s.lost
        /\ SizedSlots(submitted', a) /\ OrderedSlots(a)
        /\ a.count = BufferCount(a.session.params)
    BY <1>7, <2>2, AcceptedFits
  <2>4. /\ SameSession(s, a) /\ a.session # Null /\ a.count = s.count
        /\ a.receiveFailed = s.receiveFailed
    BY <1>3, <2>3 DEF Accepted, SameSession
  <2>5. EncodeAccepted(a)
    BY <1>7, <2>1
  <2>6. a \in States(FramesOf(news)) /\ SizedSlots(news, a) /\ a.count > 0
    BY <1>1, <1>7, <2>3, <2>4
  <2>7. /\ stream \in Seq(Good(news, a.receiveFailed))
        /\ calls \in Seq([frame : Nat, rest : Seq(Good(news, a.receiveFailed))])
    BY <1>4, <2>4
  <2>8. /\ Encoded(news, a, nv') /\ ~nv'.crashed
        /\ stream' \in Seq(Good(news, nv'.receiveFailed))
        /\ calls' \in Seq([frame : Nat, rest : Seq(Good(news, nv'.receiveFailed))])
    BY <1>1, <2>3, <2>4, <2>5, <2>6, <2>7, EncodeAcceptedKeeps
  <2>9. Encoded(news, s, nv')
    BY <2>3, <2>4, <2>8 DEF Encoded, SameSession
  <2> QED
    BY <1>1, <2>8, <2>9
<1> QED
  BY <1>5, <1>6, <1>7 DEF EncodeInternal
-----------------------------------------------------------------------------
(* The inductive invariant. *)

(* What was sent to a session that is gone was received, and its resources are
   those of a session that nothing will close. *)
IdleInv ==
  ~nv.crashed /\ ~initialized =>
    /\ Caught(nv)
    /\ \A i \in 1..Len(nv.resources) : nv.resources[i] \in nv.lost

(* An initialized encoder has a ring that fits, unless the window has released
   it, and, unless the modification time says otherwise, a session of the
   configuration in force. *)
ReadyInv ==
  ~nv.crashed /\ initialized =>
    /\ nv.count = 0 => window # "kept"
    /\ RingFits(submitted, nv)
    /\ lastSetupMTime = mtime =>
         /\ nv.session.w = width /\ nv.session.h = height
         /\ nv.session.params = params

CrashInv == nv.crashed => nv.count = 0 /\ (nv.receiveFailed \/ window # "kept")

PacketInv ==
  /\ stream \in Seq(Good(submitted, nv.receiveFailed))
  /\ calls \in Seq([frame : Nat, rest : Seq(Good(submitted, nv.receiveFailed))])

NvInv ==
  /\ BaseTypes
  /\ nv \in States(FramesOf(submitted))
  /\ SessionsAccountedFor
  /\ ResourcesMatchSlots
  /\ CrashInv
  /\ IdleInv
  /\ ReadyInv
  /\ PacketInv

LEMMA InitKeeps ==
  ASSUME Init
  PROVE  NvInv
<1>1. BaseTypes
  <2>1. submitted \in Seq(Submissions)
    BY EmptySeq DEF Init, BaseInit
  <2>2. forceIFrame \in BOOLEAN /\ handlerSet \in BOOLEAN /\ initialized \in BOOLEAN
    BY Zenon DEF Init, BaseInit
  <2>3. mtime \in Nat /\ lastSetupMTime \in Nat /\ lastSetupMTime <= mtime
    BY DEF Init, BaseInit
  <2>4. width \in Lengths /\ height \in Lengths /\ params \in Params
    BY LengthsAssumption DEF Init, BaseInit
  <2> QED
    BY <2>1, <2>2, <2>3, <2>4 DEF BaseTypes
<1>2. nv \in NvStates(FramesOf(submitted))
  <2>1. PICK F : F = FramesOf(submitted)
    OBVIOUS
  <2>2. <<>> \in Seq(SessionIds) /\ <<>> \in Seq(Contents(F)) /\ <<>> \in Seq(F)
    BY EmptySeq
  <2>3. 0 \in 0..MaxSessions /\ 0 \in 0..MaxFaults
    BY NvAssumption
  <2>4. NoNv \in NvStates(F)
    BY <2>2, <2>3 DEF NoNv, NvStates
  <2> QED
    BY <2>1, <2>4 DEF Init
<1>3. nv = NoNv /\ ~initialized
  BY DEF Init, BaseInit
<1>4. /\ nv.recv = 0 /\ nv.count = 0 /\ nv.slots = <<>> /\ nv.accepted = <<>>
      /\ nv.session = Null /\ nv.lost = {} /\ nv.live = {} /\ nv.resources = <<>>
      /\ ~nv.crashed /\ ~nv.receiveFailed
  BY <1>3 DEF NoNv
<1>5. Len(<<>>) = 0
  BY EmptySeq
<1>6. WellFormed(nv)
  BY <1>4, <1>5 DEF WellFormed, Sent
<1>7. SessionsAccountedFor /\ ResourcesMatchSlots /\ CrashInv /\ ReadyInv
  BY <1>3, <1>4 DEF SessionsAccountedFor, ResourcesMatchSlots, CrashInv, ReadyInv
<1>8. IdleInv
  BY <1>4, <1>5 DEF IdleInv, Caught, Sent
<1>9. PacketInv
  BY EmptySeq DEF Init, BaseInit, PacketInv
<1> QED
  BY <1>1, <1>2, <1>6, <1>7, <1>8, <1>9 DEF NvInv, States

(* Nothing that matters here changes but what the application gets. *)
LEMMA StatesUnchanged ==
  ASSUME UNCHANGED <<nv, submitted>>, nv \in States(FramesOf(submitted))
  PROVE  nv' \in States(FramesOf(submitted'))
<1>1. PICK s, subs : s = nv /\ subs = submitted
  OBVIOUS
<1>2. s \in States(FramesOf(subs)) /\ nv' = s /\ submitted' = subs
  BY <1>1
<1> QED
  BY <1>2

LEMMA SetterKeeps ==
  ASSUME NvInv, Setter, UNCHANGED <<nv, window>>
  PROVE  NvInv'
<1>1. UNCHANGED <<calls, submitted, stream, initialized, lastSetupMTime>>
  BY DEF Setter, SetWidth, SetHeight, SetParams, SetForceIFrame, SetOutputHandler, Modified,
         setup, output
<1>2. BaseTypes
  BY DEF NvInv
<1>3. BaseTypes'
  <2>1. /\ width' \in Lengths /\ height' \in Lengths /\ params' \in Params
        /\ mtime' \in Nat /\ lastSetupMTime' \in Nat /\ lastSetupMTime' <= mtime'
    BY <1>1, <1>2 DEF BaseTypes, Setter, SetWidth, SetHeight, SetParams, SetForceIFrame,
         SetOutputHandler, Modified, setup
  <2>2. forceIFrame' \in BOOLEAN /\ handlerSet' \in BOOLEAN
    BY <1>2, Zenon DEF BaseTypes, Setter, SetWidth, SetHeight, SetParams, SetForceIFrame,
         SetOutputHandler
  <2> QED
    BY <1>1, <1>2, <2>1, <2>2 DEF BaseTypes
<1>4. lastSetupMTime' = mtime' =>
        lastSetupMTime = mtime /\ width' = width /\ height' = height /\ params' = params
  BY <1>1, <1>2 DEF BaseTypes, Setter, SetWidth, SetHeight, SetParams, SetForceIFrame,
       SetOutputHandler, Modified, setup
<1>5. nv' \in States(FramesOf(submitted'))
  BY <1>1, StatesUnchanged DEF NvInv
<1>6. SessionsAccountedFor' /\ ResourcesMatchSlots' /\ CrashInv' /\ IdleInv' /\ PacketInv'
  BY <1>1 DEF NvInv, SessionsAccountedFor, ResourcesMatchSlots, CrashInv, IdleInv, PacketInv
<1>7. ReadyInv'
  BY <1>1, <1>4 DEF NvInv, ReadyInv
<1> QED
  BY <1>3, <1>5, <1>6, <1>7 DEF NvInv

LEMMA StutterKeeps ==
  ASSUME NvInv, UNCHANGED vars
  PROVE  NvInv'
<1>1. UNCHANGED <<width, height, params, forceIFrame, handlerSet, mtime, lastSetupMTime,
                  initialized, calls, submitted, stream, nv, window>>
  BY DEF vars, baseVars, config, setup, output
<1>2. nv' \in States(FramesOf(submitted'))
  BY <1>1, StatesUnchanged DEF NvInv
<1>3. BaseTypes'
  BY <1>1 DEF NvInv, BaseTypes
<1> QED
  BY <1>1, <1>2, <1>3 DEF NvInv, SessionsAccountedFor, ResourcesMatchSlots, CrashInv, IdleInv,
       ReadyInv, PacketInv

LEMMA CallBackReturnsKeeps ==
  ASSUME NvInv, CallBackReturns, UNCHANGED <<nv, window>>
  PROVE  NvInv'
<1>1. UNCHANGED <<width, height, params, forceIFrame, handlerSet, mtime, lastSetupMTime,
                  initialized, submitted>>
  BY DEF CallBackReturns, config, setup
<1>2. nv' \in States(FramesOf(submitted'))
  BY <1>1, StatesUnchanged DEF NvInv
<1>3. BaseTypes'
  BY <1>1 DEF NvInv, BaseTypes
<1>4. PICK P : P = Good(submitted, nv.receiveFailed)
  OBVIOUS
<1> DEFINE C == [frame : Nat, rest : Seq(P)]
<1>5. stream \in Seq(P) /\ calls \in Seq(C) /\ calls # <<>>
  BY <1>4 DEF NvInv, PacketInv, CallBackReturns
<1>6. Head(calls) \in C /\ Tail(calls) \in Seq(C)
  BY <1>5, HeadTailProperties
<1>7. stream' \in Seq(P) /\ calls' \in Seq(C)
  <2>1. CASE /\ Head(calls).rest = <<>>
             /\ calls' = Tail(calls)
             /\ UNCHANGED <<reports, stream>>
    BY <1>5, <1>6, <2>1
  <2>2. CASE /\ Head(calls).rest # <<>>
             /\ stream' = Append(stream, Head(Head(calls).rest))
             /\ calls' = <<[Head(calls) EXCEPT !.rest = Tail(@)]>> \o Tail(calls)
    <3>1. Head(calls).rest \in Seq(P)
      BY <1>6
    <3>2. Head(Head(calls).rest) \in P /\ Tail(Head(calls).rest) \in Seq(P)
      BY <2>2, <3>1, HeadTailProperties
    <3>3. [Head(calls) EXCEPT !.rest = Tail(@)] \in C
      BY <1>6, <3>2
    <3>4. <<[Head(calls) EXCEPT !.rest = Tail(@)]>> \in Seq(C)
      BY <3>3
    <3> QED
      BY <1>5, <1>6, <2>2, <3>2, <3>4, AppendProperties, ConcatProperties
  <2> QED
    BY <2>1, <2>2 DEF CallBackReturns
<1>8. PacketInv'
  BY <1>1, <1>4, <1>7 DEF PacketInv
<1> QED
  BY <1>1, <1>2, <1>3, <1>8 DEF NvInv, SessionsAccountedFor, ResourcesMatchSlots, CrashInv,
       IdleInv, ReadyInv

(* The session and its resources are accounted for after a step that changes
   neither, or that gives up the ring. *)
LEMMA AccountsHold ==
  ASSUME SessionsAccountedFor, ResourcesMatchSlots, UNCHANGED initialized,
         SameSession(nv, nv'), nv'.cuda = nv.cuda, nv'.ready = nv.ready,
         nv'.live = nv.live, nv'.lost = nv.lost,
         nv'.count = 0 \/ (nv'.count = nv.count /\ nv'.resources = nv.resources)
  PROVE  SessionsAccountedFor' /\ ResourcesMatchSlots'
<1>1. CASE initialized
  <2>1. IsInitialized(nv)
    BY <1>1 DEF SessionsAccountedFor
  <2>2. nv'.session # Null /\ nv'.session.id = nv.session.id
    BY <2>1 DEF SameSession, IsInitialized
  <2>3. IsInitialized(nv')
    BY <2>1, <2>2 DEF IsInitialized
  <2>4. SessionsAccountedFor'
    BY <1>1, <2>2, <2>3 DEF SessionsAccountedFor
  <2>5. ResourcesMatchSlots'
    BY <1>1, <2>2 DEF ResourcesMatchSlots
  <2> QED
    BY <2>4, <2>5
<1>2. CASE ~initialized
  BY <1>2 DEF SessionsAccountedFor, ResourcesMatchSlots
<1> QED
  BY <1>1, <1>2

LEMMA PacketsHold ==
  ASSUME PacketInv, UNCHANGED <<stream, calls, submitted>>,
         nv.receiveFailed => nv'.receiveFailed
  PROVE  PacketInv'
<1>1. PICK subs, s, t : subs = submitted /\ s = nv /\ t = nv'
  OBVIOUS
<1>2. PICK P, Q : P = Good(subs, s.receiveFailed) /\ Q = Good(subs, t.receiveFailed)
  OBVIOUS
<1>3. stream \in Seq(P) /\ calls \in Seq([frame : Nat, rest : Seq(P)])
  BY <1>1, <1>2 DEF PacketInv
<1>4. P \subseteq Q
  BY <1>1, <1>2, GoodWeakens
<1>5. stream \in Seq(Q) /\ calls \in Seq([frame : Nat, rest : Seq(Q)])
  BY <1>3, <1>4, PacketsInLarger
<1> QED
  BY <1>1, <1>2, <1>5 DEF PacketInv

LEMMA DrainKeeps ==
  ASSUME NvInv, Drain
  PROVE  NvInv'
<1>1. UNCHANGED <<width, height, params, forceIFrame, handlerSet, mtime, lastSetupMTime,
                  initialized, calls, submitted, stream, window>>
  BY DEF Drain, baseVars, config, setup, output
<1>2. initialized /\ ~nv.crashed /\ IsInitialized(nv) /\ nv.session # Null
  BY DEF Drain, NvInv, SessionsAccountedFor, IsInitialized
<1>3. PICK F, subs : subs = submitted /\ F = FramesOf(subs)
  OBVIOUS
<1>4. PICK s, t : s = nv /\ t = nv'
  OBVIOUS
<1>5. s \in States(F) /\ ~s.crashed /\ s.session # Null /\ t \in SendEOS(s)
  BY <1>2, <1>3, <1>4 DEF NvInv, Drain
<1>6. Ended(F, s, t)
  BY <1>5, FlushEnds
<1>7. /\ t \in States(F) /\ Holding(s, t) /\ t.count = s.count /\ t.resources = s.resources
      /\ t.crashed => s.count = 0
  BY <1>6 DEF Ended
<1>8. SameSession(s, t) /\ (s.receiveFailed => t.receiveFailed)
  BY <1>7 DEF Holding
<1>9. SessionsAccountedFor' /\ ResourcesMatchSlots'
  BY <1>1, <1>4, <1>7, <1>8, AccountsHold DEF NvInv, Holding
<1>10. RingFits(subs, s) /\ (s.count = 0 => window # "kept")
  BY <1>2, <1>3, <1>4 DEF NvInv, ReadyInv
<1>11. RingFits(subs, t)
  BY <1>5, <1>7, <1>10, RingFitsOn
<1>12. ReadyInv'
  <2>1. submitted' = subs /\ nv' = t /\ window' = window
    BY <1>1, <1>3, <1>4
  <2>2. RingFits(submitted', nv') /\ (nv'.count = 0 => window' # "kept")
    BY <1>7, <1>10, <1>11, <2>1
  <2>3. nv'.session.w = nv.session.w /\ nv'.session.h = nv.session.h
        /\ nv'.session.params = nv.session.params
    BY <1>4, <1>5, <1>8 DEF SameSession
  <2>4. lastSetupMTime = mtime =>
          nv.session.w = width /\ nv.session.h = height /\ nv.session.params = params
    BY <1>2 DEF NvInv, ReadyInv
  <2> QED
    BY <1>1, <2>2, <2>3, <2>4 DEF ReadyInv
<1>13. CrashInv' /\ IdleInv'
  BY <1>1, <1>2, <1>4, <1>7, <1>10 DEF CrashInv, IdleInv
<1>14. PacketInv'
  BY <1>1, <1>4, <1>8, PacketsHold DEF NvInv
<1>15. BaseTypes'
  BY <1>1 DEF NvInv, BaseTypes
<1>16. nv' \in States(FramesOf(submitted'))
  BY <1>1, <1>3, <1>4, <1>7
<1> QED
  BY <1>9, <1>12, <1>13, <1>14, <1>15, <1>16 DEF NvInv

LEMMA WindowReleasesKeeps ==
  ASSUME NvInv, WindowReleases
  PROVE  NvInv'
<1>1. UNCHANGED <<width, height, params, forceIFrame, handlerSet, mtime, lastSetupMTime,
                  initialized, calls, submitted, stream>>
  BY DEF WindowReleases, baseVars, config, setup, output
<1>2. ~nv.crashed /\ window' # "kept"
  BY DEF WindowReleases
<1>3. PICK F, subs : subs = submitted /\ F = FramesOf(subs)
  OBVIOUS
<1>4. PICK s, t : s = nv /\ t = nv'
  OBVIOUS
<1>5. s \in States(F) /\ ~s.crashed /\ t \in Release(s)
  BY <1>2, <1>3, <1>4 DEF NvInv, WindowReleases
<1>6. Released(F, s, t)
  BY <1>5, ReleaseKeeps
<1>7. t \in States(F) /\ Holding(s, t)
  BY <1>6 DEF Released
<1>8. SameSession(s, t) /\ (s.receiveFailed => t.receiveFailed) /\ t.lost = s.lost
  BY <1>7 DEF Holding
<1>9. t.count = 0 \/ (t.count = s.count /\ t.resources = s.resources)
  BY <1>6 DEF Released
<1>10. SessionsAccountedFor' /\ ResourcesMatchSlots'
  BY <1>1, <1>4, <1>7, <1>8, <1>9, AccountsHold DEF NvInv, Holding
<1>11. CrashInv'
  BY <1>2, <1>4, <1>6 DEF Released, CrashInv
<1>12. IdleInv'
  <2> SUFFICES ASSUME ~t.crashed, ~initialized
               PROVE  Caught(t) /\ \A i \in 1..Len(t.resources) : t.resources[i] \in t.lost
    BY <1>1, <1>4 DEF IdleInv
  <2>1. Caught(s) /\ \A i \in 1..Len(s.resources) : s.resources[i] \in s.lost
    BY <1>2, <1>4 DEF NvInv, IdleInv
  <2>2. CASE t.resources = s.resources /\ t.recv = s.recv /\ t.receiveFailed = s.receiveFailed
    <3>1. Caught(t)
      BY <1>7, <2>1, <2>2 DEF Caught, Holding, Sent
    <3> QED
      BY <1>8, <2>1, <2>2, <3>1
  <2>3. CASE t.resources = <<>> /\ Caught(t)
    BY <2>3, EmptySeq
  <2> QED
    BY <1>6, <2>2, <2>3 DEF Released
<1>13. ReadyInv'
  <2> SUFFICES ASSUME initialized
               PROVE  /\ RingFits(subs, t)
                      /\ lastSetupMTime = mtime =>
                           /\ t.session.w = width /\ t.session.h = height
                           /\ t.session.params = params
    BY <1>1, <1>2, <1>3, <1>4 DEF ReadyInv
  <2>1. RingFits(subs, s) /\ s.session # Null
    BY <1>2, <1>3, <1>4 DEF NvInv, ReadyInv, SessionsAccountedFor, IsInitialized
  <2>2. ASSUME t.count = 0
        PROVE  RingFits(subs, t)
    BY <2>2 DEF RingFits
  <2>3. ASSUME t.count = s.count
        PROVE  RingFits(subs, t)
    BY <1>5, <1>7, <2>1, <2>3, RingFitsOn
  <2>4. /\ t.session.w = s.session.w /\ t.session.h = s.session.h
        /\ t.session.params = s.session.params
    BY <1>8, <2>1 DEF SameSession
  <2>5. lastSetupMTime = mtime =>
          s.session.w = width /\ s.session.h = height /\ s.session.params = params
    BY <1>2, <1>4 DEF NvInv, ReadyInv
  <2>6. RingFits(subs, t)
    BY <1>9, <2>2, <2>3
  <2> QED
    BY <2>4, <2>5, <2>6
<1>14. PacketInv'
  BY <1>1, <1>4, <1>8, PacketsHold DEF NvInv
<1>15. BaseTypes'
  BY <1>1 DEF NvInv, BaseTypes
<1>16. nv' \in States(FramesOf(submitted'))
  BY <1>1, <1>3, <1>4, <1>7
<1> QED
  BY <1>10, <1>11, <1>12, <1>13, <1>14, <1>15, <1>16 DEF NvInv

LEMMA ShutdownKeeps ==
  ASSUME NvInv, Shutdown
  PROVE  NvInv'
<1>1. UNCHANGED <<width, height, params, forceIFrame, handlerSet, mtime, lastSetupMTime,
                  calls, submitted, stream, window>>
  BY DEF Shutdown, config, output
<1>2. initialized /\ ~nv.crashed /\ initialized' = nv'.crashed
  BY DEF Shutdown
<1>3. PICK F, subs : subs = submitted /\ F = FramesOf(subs)
  OBVIOUS
<1>4. PICK s, t : s = nv /\ t = nv'
  OBVIOUS
<1>5. s \in States(F) /\ ~s.crashed /\ IsInitialized(s) /\ t \in ShutDown(s)
  BY <1>2, <1>3, <1>4 DEF NvInv, Shutdown, SessionsAccountedFor
<1>6. /\ s.count = 0 => s.receiveFailed \/ window # "kept"
      /\ s.session.id \notin s.lost /\ s.live = s.lost \cup {s.session.id}
  BY <1>2, <1>4 DEF NvInv, ReadyInv, SessionsAccountedFor
<1>7. ShutDownLeaves(F, s, t) \/ Crashed(F, s, t)
  BY <1>5, <1>6, ShutDownEnds
<1>8. t \in States(F) /\ (s.receiveFailed => t.receiveFailed)
  BY <1>7 DEF ShutDownLeaves, Crashed, Holding
<1>9. PacketInv'
  BY <1>1, <1>4, <1>8, PacketsHold DEF NvInv
<1>10. BaseTypes'
  <2>1. t.crashed \in BOOLEAN
    BY <1>8, StateParts
  <2>2. initialized' \in BOOLEAN
    BY <1>2, <1>4, <2>1
  <2> QED
    BY <1>1, <2>2 DEF NvInv, BaseTypes
<1>11. nv' \in States(FramesOf(submitted'))
  BY <1>1, <1>3, <1>4, <1>8
<1>12. CASE ShutDownLeaves(F, s, t)
  <2>1. /\ ~nv'.crashed /\ ~initialized' /\ Caught(nv')
        /\ nv'.resources = <<>> /\ nv'.live = nv'.lost
    BY <1>2, <1>4, <1>12 DEF ShutDownLeaves
  <2>2. SessionsAccountedFor' /\ ResourcesMatchSlots' /\ CrashInv' /\ ReadyInv'
    BY <2>1 DEF SessionsAccountedFor, ResourcesMatchSlots, CrashInv, ReadyInv
  <2>3. IdleInv'
    BY <2>1, EmptySeq DEF IdleInv
  <2> QED
    BY <1>9, <1>10, <1>11, <2>2, <2>3 DEF NvInv
<1>13. CASE Crashed(F, s, t)
  <2>1. /\ nv'.crashed /\ nv'.count = 0 /\ (nv'.receiveFailed \/ window' # "kept")
        /\ Holding(nv, nv')
    BY <1>1, <1>4, <1>13 DEF Crashed
  <2>2. UNCHANGED initialized
    BY <1>2, <2>1, <1>10 DEF NvInv, BaseTypes
  <2>3. SessionsAccountedFor' /\ ResourcesMatchSlots'
    BY <2>1, <2>2, AccountsHold DEF NvInv, Holding
  <2>4. CrashInv' /\ IdleInv' /\ ReadyInv'
    BY <2>1 DEF CrashInv, IdleInv, ReadyInv
  <2> QED
    BY <1>9, <1>10, <1>11, <2>3, <2>4 DEF NvInv
<1> QED
  BY <1>7, <1>12, <1>13

(* What a setup starts from: no session to close, and every frame received. *)
Idle(F, s) ==
  /\ s \in States(F) /\ ~s.crashed /\ Caught(s) /\ s.live = s.lost
  /\ \A i \in 1..Len(s.resources) : s.resources[i] \in s.lost

(* The resources of the new ring come after those a failed setup has left. *)
Accounted(t) ==
  /\ IsInitialized(t) /\ t.session.id \notin t.lost /\ t.cuda = "context"
  /\ t.live = t.lost \cup {t.session.id}
  /\ t.count > 0 => \/ \A i \in 1..t.count : t.resources[i] = t.session.id
                    \/ t.resources[1] \in t.lost

LEMMA NewRing ==
  ASSUME NEW F, NEW s, Idle(F, s), NEW w, NEW h, NEW t, NewSession(F, s, w, h, t), NEW subs
  PROVE  RingFits(subs, t) /\ Accounted(t)
<1>1. /\ t.count \in Nat \ {0} /\ t.accepted = s.accepted /\ t.recv = s.recv
      /\ t.receiveFailed = s.receiveFailed /\ t.lost = s.lost
      /\ \A i \in 1..t.count : t.slots[i] \in NoPicture
  BY DEF NewSession
<1>2. s \in States(F) /\ Caught(s)
  BY DEF Idle
<1>3. Sent(s) \in Nat /\ s.recv \in 0..Sent(s) /\ s.resources \in Seq(SessionIds)
  BY <1>2, StateParts
<1>4. Sent(t) = Sent(s)
  BY <1>1 DEF Sent
<1>5. t.receiveFailed \/ Sent(t) - t.recv < t.count
  BY <1>1, <1>2, <1>3, <1>4 DEF Caught
<1>6. SizedSlots(subs, t)
  BY <1>1 DEF SizedSlots
<1>7. OrderedSlots(t)
  <2> SUFFICES ASSUME NEW n \in (t.recv + 1)..Sent(t), t.slots[Slot(t, n)] \notin NoPicture
               PROVE  FALSE
    BY DEF OrderedSlots
  <2>1. n \in Nat \ {0}
    BY <1>1, <1>3, <1>4
  <2>2. Slot(t, n) \in 1..t.count
    BY <1>1, <2>1, SlotInRing
  <2> QED
    BY <1>1, <2>2
<1>8. t.count = BufferCount(t.session.params)
  BY DEF NewSession
<1>9. RingFits(subs, t)
  BY <1>5, <1>6, <1>7, <1>8 DEF RingFits
<1>10. \/ \A i \in 1..t.count : t.resources[i] = t.session.id
       \/ t.resources[1] \in t.lost
  <2>1. /\ Len(t.resources) = Len(s.resources) + t.count
        /\ \A i \in 1..Len(t.resources) :
             \/ i <= Len(s.resources) /\ t.resources[i] = s.resources[i]
             \/ i > Len(s.resources) /\ t.resources[i] = t.session.id
    BY DEF NewSession
  <2>2. Len(s.resources) \in Nat
    BY <1>3, LenProperties
  <2>3. CASE Len(s.resources) = 0
    BY <1>1, <2>1, <2>3
  <2>4. CASE Len(s.resources) > 0
    <3>1. 1 \in 1..Len(s.resources) /\ 1 \in 1..Len(t.resources)
      BY <1>1, <2>1, <2>2, <2>4
    <3>2. t.resources[1] = s.resources[1]
      BY <2>1, <2>2, <3>1
    <3>3. s.resources[1] \in s.lost
      BY <3>1 DEF Idle
    <3> QED
      BY <1>1, <3>2, <3>3
  <2> QED
    BY <2>2, <2>3, <2>4
<1>11. t.live = t.lost \cup {t.session.id}
  BY DEF NewSession, Idle
<1> QED
  BY <1>9, <1>10, <1>11 DEF Accounted, NewSession

LEMMA FailedIsIdle ==
  ASSUME NEW F, NEW s, Idle(F, s), NEW t, SetUpFailed(F, s, t)
  PROVE  Idle(F, t) /\ (s.receiveFailed => t.receiveFailed)
BY DEF Idle, SetUpFailed, Caught, Sent

(* The invariant of an encoder without a context, and of one with a new one. *)
LEMMA IdleKeeps ==
  ASSUME NEW F, Idle(F, nv'), initialized' = FALSE
  PROVE  SessionsAccountedFor' /\ ResourcesMatchSlots' /\ CrashInv' /\ IdleInv' /\ ReadyInv'
BY DEF Idle, SessionsAccountedFor, ResourcesMatchSlots, CrashInv, IdleInv, ReadyInv

LEMMA NowIdle ==
  ASSUME NvInv, ~nv.crashed, ~initialized
  PROVE  Idle(FramesOf(submitted), nv)
BY DEF NvInv, IdleInv, SessionsAccountedFor, Idle

LEMMA InitializeKeeps ==
  ASSUME NvInv, Initialize
  PROVE  NvInv'
<1>1. /\ UNCHANGED <<width, height, params, forceIFrame, handlerSet, mtime,
                     calls, submitted, stream, window>>
      /\ ~nv.crashed /\ ~initialized
  BY DEF Initialize, SetupSucceeded, SetupFailed, output
<1>2. BaseTypes
  BY DEF NvInv
<1>3. PICK F, subs : subs = submitted /\ F = FramesOf(subs)
  OBVIOUS
<1>4. PICK s, t : s = nv /\ t = nv'
  OBVIOUS
<1>5. Idle(F, s) /\ s \in States(F) /\ ~s.crashed
  BY <1>1, <1>3, <1>4, NowIdle DEF Idle
<1>6. CASE SetupSucceeded /\ t \in SetUp(s, width, height)
  <2>1. NewSession(F, s, width, height, t) /\ window # "destroyed"
    BY <1>2, <1>5, <1>6, SetUpEnds DEF BaseTypes
  <2>2. RingFits(subs, t) /\ Accounted(t)
    BY <1>5, <2>1, NewRing
  <2>11. Accounted(nv')
    BY <1>4, <2>2
  <2>3. initialized' = TRUE /\ lastSetupMTime' = mtime
    BY <1>6 DEF SetupSucceeded
  <2>4. BaseTypes'
    BY <1>1, <1>2, <2>3 DEF BaseTypes
  <2>5. SessionsAccountedFor' /\ ResourcesMatchSlots'
    BY <2>3, <2>11 DEF Accounted, SessionsAccountedFor, ResourcesMatchSlots
  <2>6. ~t.crashed /\ t.count > 0 /\ t.receiveFailed = s.receiveFailed /\ t \in States(F)
        /\ t.session.w = width /\ t.session.h = height /\ t.session.params = params
    BY <2>1 DEF NewSession
  <2>7. CrashInv' /\ IdleInv'
    BY <1>4, <2>3, <2>6 DEF CrashInv, IdleInv
  <2>8. ReadyInv'
    BY <1>1, <1>3, <1>4, <2>2, <2>6 DEF ReadyInv
  <2>9. PacketInv'
    BY <1>1, <1>4, <2>6, PacketsHold DEF NvInv
  <2>10. nv' \in States(FramesOf(submitted'))
    BY <1>1, <1>3, <1>4, <2>6
  <2> QED
    BY <2>4, <2>5, <2>7, <2>8, <2>9, <2>10 DEF NvInv
<1>7. CASE SetupFailed /\ t \in SetUpFails(s, width, height)
  <2>1. SetUpFailed(F, s, t)
    BY <1>2, <1>5, <1>7, SetUpFailsEnds DEF BaseTypes
  <2>2. Idle(F, t) /\ (s.receiveFailed => t.receiveFailed) /\ t \in States(F)
    BY <1>5, <2>1, FailedIsIdle DEF Idle
  <2>3. initialized' = FALSE /\ UNCHANGED lastSetupMTime
    BY <1>7 DEF SetupFailed
  <2>4. BaseTypes'
    BY <1>1, <1>2, <2>3 DEF BaseTypes
  <2>5. SessionsAccountedFor' /\ ResourcesMatchSlots' /\ CrashInv' /\ IdleInv' /\ ReadyInv'
    BY <1>4, <2>2, <2>3, IdleKeeps
  <2>6. PacketInv'
    BY <1>1, <1>4, <2>2, PacketsHold DEF NvInv
  <2>7. nv' \in States(FramesOf(submitted'))
    BY <1>1, <1>3, <1>4, <2>2
  <2> QED
    BY <2>4, <2>5, <2>6, <2>7 DEF NvInv
<1> QED
  BY <1>4, <1>6, <1>7 DEF Initialize

LEMMA PacketsWeaken ==
  ASSUME PacketInv, NEW t, nv.receiveFailed => t.receiveFailed
  PROVE  /\ stream \in Seq(Good(submitted, t.receiveFailed))
         /\ calls \in Seq([frame : Nat, rest : Seq(Good(submitted, t.receiveFailed))])
<1>1. PICK s : s = nv
  OBVIOUS
<1>2. PICK P, Q : /\ P = Good(submitted, s.receiveFailed)
                  /\ Q = Good(submitted, t.receiveFailed)
  OBVIOUS
<1>3. stream \in Seq(P) /\ calls \in Seq([frame : Nat, rest : Seq(P)])
  BY <1>1, <1>2 DEF PacketInv
<1>4. P \subseteq Q
  BY <1>1, <1>2, GoodWeakens
<1> QED
  BY <1>2, <1>3, <1>4, PacketsInLarger

(* The packets of before are as good once one more frame is known. *)
LEMMA PacketsGrow ==
  ASSUME PacketInv, BaseTypes, NEW w \in Lengths, NEW h \in Lengths, Submit(w, h),
         NEW t, nv.receiveFailed => t.receiveFailed, NEW P,
         P = Good(submitted', t.receiveFailed)
  PROVE  stream \in Seq(P) /\ calls \in Seq([frame : Nat, rest : Seq(P)])
<1>1. PICK s, subs, news : s = nv /\ subs = submitted /\ news = submitted'
  OBVIOUS
<1>2. PICK Q : Q = Good(subs, s.receiveFailed)
  OBVIOUS
<1>3. stream \in Seq(Q) /\ calls \in Seq([frame : Nat, rest : Seq(Q)])
  BY <1>1, <1>2 DEF PacketInv
<1>4. Grows(subs, news)
  BY <1>1, SubmitGrows
<1>5. Q \subseteq P
  BY <1>1, <1>2, <1>4, GoodGrows
<1> QED
  BY <1>3, <1>5, PacketsInLarger

(* What Encode sends a frame to: a session that is accounted for. *)
LEMMA EncodedKeeps ==
  ASSUME NEW subs, subs = submitted', BaseTypes', UNCHANGED window, initialized' = TRUE,
         NEW s, Accounted(s), s.count \in Nat, s.count = 0 => window # "kept",
         s.session.w = width', s.session.h = height', s.session.params = params',
         Encoded(subs, s, nv'), PacketInv'
  PROVE  NvInv'
<1>1. PICK t : t = nv'
  OBVIOUS
<1>2. /\ t \in States(FramesOf(subs)) /\ SameSession(s, t)
      /\ t.cuda = s.cuda /\ t.ready = s.ready /\ t.resources = s.resources
      /\ t.live = s.live /\ t.lost = s.lost /\ t.count = s.count
      /\ t.crashed => s.count = 0
      /\ ~t.crashed => RingFits(subs, t)
  BY <1>1 DEF Encoded
<1>3. /\ t.session # Null /\ t.session.id = s.session.id /\ t.session.w = s.session.w
      /\ t.session.h = s.session.h /\ t.session.params = s.session.params
  BY <1>2 DEF SameSession, Accounted, IsInitialized
<1>4. Accounted(t)
  BY <1>2, <1>3 DEF Accounted, IsInitialized
<1>5. Accounted(nv')
  BY <1>1, <1>4
<1>6. SessionsAccountedFor' /\ ResourcesMatchSlots'
  BY <1>5 DEF Accounted, SessionsAccountedFor, ResourcesMatchSlots
<1>7. CrashInv' /\ IdleInv'
  BY <1>1, <1>2 DEF CrashInv, IdleInv
<1>8. ReadyInv'
  BY <1>1, <1>2, <1>3 DEF ReadyInv
<1>9. nv' \in States(FramesOf(submitted'))
  BY <1>1, <1>2
<1> QED
  BY <1>6, <1>7, <1>8, <1>9 DEF NvInv

(* What is left of the old session when a frame needs a new one. *)
LEMMA RestartEnds ==
  ASSUME NvInv, ~nv.crashed, NEW s \in (IF initialized THEN ShutDown(nv) ELSE {nv})
  PROVE  \/ Idle(FramesOf(submitted), s) /\ (nv.receiveFailed => s.receiveFailed)
         \/ initialized /\ Crashed(FramesOf(submitted), nv, s)
<1>1. CASE ~initialized
  <2>1. Idle(FramesOf(submitted), nv)
    BY <1>1, NowIdle
  <2> QED
    BY <1>1, <2>1
<1>2. CASE initialized
  <2>1. PICK r, F : r = nv /\ F = FramesOf(submitted)
    OBVIOUS
  <2>2. r \in States(F) /\ ~r.crashed /\ IsInitialized(r) /\ s \in ShutDown(r)
    BY <1>2, <2>1 DEF NvInv, SessionsAccountedFor
  <2>3. /\ r.count = 0 => r.receiveFailed \/ window # "kept"
        /\ r.session.id \notin r.lost /\ r.live = r.lost \cup {r.session.id}
    BY <1>2, <2>1 DEF NvInv, ReadyInv, SessionsAccountedFor
  <2>4. ShutDownLeaves(F, r, s) \/ Crashed(F, r, s)
    BY <2>2, <2>3, ShutDownEnds
  <2>5. CASE ShutDownLeaves(F, r, s)
    <3>1. Idle(F, s)
      BY <2>5, EmptySeq DEF ShutDownLeaves, Idle
    <3>2. r.receiveFailed => s.receiveFailed
      BY <2>5 DEF ShutDownLeaves
    <3> QED
      BY <2>1, <3>1, <3>2
  <2> QED
    BY <1>2, <2>1, <2>4, <2>5
<1> QED
  BY <1>1, <1>2

LEMMA EncodeUpToDateKeeps ==
  ASSUME NvInv, NEW w \in Lengths, NEW h \in Lengths, ~nv.crashed, Submit(w, h),
         UNCHANGED window, UpToDate(w, h), EncodeInternal(nv), UNCHANGED <<params, setup>>
  PROVE  NvInv'
<1>1. BaseTypes
  BY DEF NvInv
<1>2. /\ initialized /\ lastSetupMTime = mtime /\ w = width /\ h = height
      /\ UNCHANGED <<params, mtime, lastSetupMTime, initialized>>
  BY <1>1 DEF UpToDate, BaseTypes, setup
<1>3. /\ submitted' \in Seq(Submissions) /\ width' = w /\ height' = h
      /\ UNCHANGED <<forceIFrame, handlerSet>>
  BY <1>1, SubmitGrows
<1>4. BaseTypes'
  BY <1>1, <1>2, <1>3 DEF BaseTypes
<1>5. PICK s, news : s = nv /\ news = submitted'
  OBVIOUS
<1>6. /\ s \in States(FramesOf(submitted)) /\ ~s.crashed /\ IsInitialized(s)
      /\ RingFits(submitted, s) /\ (s.count = 0 => window # "kept")
      /\ s.session.w = w /\ s.session.h = h /\ s.session.params = params
  BY <1>2, <1>5 DEF NvInv, ReadyInv, SessionsAccountedFor
<1>7. /\ stream \in Seq(Good(submitted, s.receiveFailed))
      /\ calls \in Seq([frame : Nat, rest : Seq(Good(submitted, s.receiveFailed))])
  BY <1>5 DEF NvInv, PacketInv
<1>8. EncodeInternal(s)
  BY <1>5
<1>9. /\ Encoded(submitted', s, nv')
      /\ stream' \in Seq(Good(submitted', nv'.receiveFailed))
      /\ calls' \in Seq([frame : Nat, rest : Seq(Good(submitted', nv'.receiveFailed))])
  BY <1>1, <1>6, <1>7, <1>8, EncodeInternalKeeps
<1>10. PacketInv'
  BY <1>9 DEF PacketInv
<1>11. Accounted(s)
  BY <1>2, <1>5 DEF NvInv, SessionsAccountedFor, ResourcesMatchSlots, Accounted
<1>12. s.count \in Nat /\ Encoded(news, s, nv') /\ news = submitted'
  BY <1>5, <1>6, <1>9, StateParts
<1>13. s.session.w = width' /\ s.session.h = height' /\ s.session.params = params'
  BY <1>2, <1>3, <1>6
<1>14. initialized' = TRUE
  BY <1>1, <1>2 DEF BaseTypes
<1> QED
  BY <1>4, <1>6, <1>10, <1>11, <1>12, <1>13, <1>14, EncodedKeeps

LEMMA EncodeCrashKeeps ==
  ASSUME NvInv, NEW w \in Lengths, NEW h \in Lengths, Submit(w, h), UNCHANGED window,
         initialized, Crashed(FramesOf(submitted), nv, nv'),
         UNCHANGED <<params, setup, calls, stream>>
  PROVE  NvInv'
<1>1. BaseTypes
  BY DEF NvInv
<1>2. /\ submitted' \in Seq(Submissions) /\ width' = w /\ height' = h
      /\ UNCHANGED <<forceIFrame, handlerSet>>
      /\ FramesOf(submitted) \subseteq FramesOf(submitted')
  BY <1>1, SubmitGrows
<1>3. UNCHANGED <<mtime, lastSetupMTime, initialized>>
  BY DEF setup
<1>4. BaseTypes'
  BY <1>1, <1>2, <1>3 DEF BaseTypes
<1>5. PICK t, F, G : t = nv' /\ F = FramesOf(submitted) /\ G = FramesOf(submitted')
  OBVIOUS
<1>6. /\ t \in States(F) /\ Holding(nv, t) /\ t.crashed /\ t.count = 0
      /\ t.receiveFailed \/ window # "kept"
  BY <1>5 DEF Crashed
<1>7. t \in States(G)
  BY <1>2, <1>5, <1>6, StatesGrow
<1>8. SessionsAccountedFor' /\ ResourcesMatchSlots'
  BY <1>3, <1>5, <1>6, AccountsHold DEF NvInv, Holding
<1>9. CrashInv' /\ IdleInv' /\ ReadyInv'
  BY <1>5, <1>6 DEF CrashInv, IdleInv, ReadyInv
<1>10. PICK P : P = Good(submitted', t.receiveFailed)
  OBVIOUS
<1>11. nv.receiveFailed => t.receiveFailed
  BY <1>6 DEF Holding
<1>12. PacketInv
  BY DEF NvInv
<1>13. stream \in Seq(P) /\ calls \in Seq([frame : Nat, rest : Seq(P)])
  BY <1>1, <1>10, <1>11, <1>12, PacketsGrow
<1>14. PacketInv'
  BY <1>5, <1>10, <1>13 DEF PacketInv
<1>15. nv' \in States(FramesOf(submitted'))
  BY <1>5, <1>7
<1> QED
  BY <1>4, <1>8, <1>9, <1>14, <1>15 DEF NvInv

LEMMA EncodeAnewKeeps ==
  ASSUME NvInv, NEW w \in Lengths, NEW h \in Lengths, Submit(w, h), UNCHANGED window,
         NEW s, Idle(FramesOf(submitted), s), nv.receiveFailed => s.receiveFailed,
         SetupSucceeded, NEW t \in SetUp(s, w, h), EncodeInternal(t)
  PROVE  NvInv'
<1>1. BaseTypes
  BY DEF NvInv
<1>2. /\ submitted' \in Seq(Submissions) /\ width' = w /\ height' = h
      /\ UNCHANGED <<forceIFrame, handlerSet>>
  BY <1>1, SubmitGrows
<1>3. /\ initialized' = TRUE /\ lastSetupMTime' = mtime
      /\ UNCHANGED <<params, mtime>>
  BY DEF SetupSucceeded
<1>4. BaseTypes'
  BY <1>1, <1>2, <1>3 DEF BaseTypes
<1>5. PICK F, subs, news : F = FramesOf(submitted) /\ subs = submitted /\ news = submitted'
  OBVIOUS
<1>6. Idle(F, s) /\ s \in States(F) /\ ~s.crashed
  BY <1>5 DEF Idle
<1>7. NewSession(F, s, w, h, t)
  BY <1>1, <1>6, SetUpEnds DEF BaseTypes
<1>8. RingFits(subs, t) /\ Accounted(t)
  BY <1>6, <1>7, NewRing
<1>9. /\ t \in States(F) /\ ~t.crashed /\ IsInitialized(t) /\ t.count \in Nat \ {0}
      /\ t.session.w = w /\ t.session.h = h /\ t.session.params = params
      /\ t.receiveFailed = s.receiveFailed
  BY <1>7 DEF NewSession
<1>10. PacketInv /\ (nv.receiveFailed => t.receiveFailed)
  BY <1>9 DEF NvInv
<1>11. /\ stream \in Seq(Good(submitted, t.receiveFailed))
       /\ calls \in Seq([frame : Nat, rest : Seq(Good(submitted, t.receiveFailed))])
  BY <1>10, PacketsWeaken
<1>12. /\ Encoded(submitted', t, nv')
       /\ stream' \in Seq(Good(submitted', nv'.receiveFailed))
       /\ calls' \in Seq([frame : Nat, rest : Seq(Good(submitted', nv'.receiveFailed))])
  BY <1>1, <1>5, <1>8, <1>9, <1>11, EncodeInternalKeeps
<1>13. PacketInv'
  BY <1>12 DEF PacketInv
<1>14. Encoded(news, t, nv') /\ news = submitted'
  BY <1>5, <1>12
<1>15. /\ t.session.w = width' /\ t.session.h = height' /\ t.session.params = params'
       /\ t.count \in Nat /\ (t.count = 0 => window # "kept")
  BY <1>2, <1>3, <1>9
<1> QED
  BY <1>3, <1>4, <1>8, <1>13, <1>14, <1>15, EncodedKeeps

LEMMA EncodeFailsKeeps ==
  ASSUME NvInv, NEW w \in Lengths, NEW h \in Lengths, Submit(w, h), UNCHANGED window,
         NEW s, Idle(FramesOf(submitted), s), nv.receiveFailed => s.receiveFailed,
         SetupFailed, nv' \in SetUpFails(s, w, h), ReportNoContext
  PROVE  NvInv'
<1>1. BaseTypes /\ PacketInv
  BY DEF NvInv
<1>2. /\ submitted' \in Seq(Submissions) /\ width' = w /\ height' = h
      /\ UNCHANGED <<forceIFrame, handlerSet>> /\ NextFrame \in Nat
      /\ FramesOf(submitted) \subseteq FramesOf(submitted')
  BY <1>1, SubmitGrows
<1>3. initialized' = FALSE /\ UNCHANGED <<params, mtime, lastSetupMTime>>
  BY DEF SetupFailed
<1>4. BaseTypes'
  BY <1>1, <1>2, <1>3 DEF BaseTypes
<1>5. PICK F, G, t : F = FramesOf(submitted) /\ G = FramesOf(submitted') /\ t = nv'
  OBVIOUS
<1>6. Idle(F, s) /\ s \in States(F) /\ ~s.crashed /\ t \in SetUpFails(s, w, h)
  BY <1>5 DEF Idle
<1>7. SetUpFailed(F, s, t)
  BY <1>1, <1>6, SetUpFailsEnds DEF BaseTypes
<1>8. Idle(F, t) /\ (s.receiveFailed => t.receiveFailed)
  BY <1>6, <1>7, FailedIsIdle
<1>9. t \in States(G)
  BY <1>2, <1>5, <1>8, StatesGrow DEF Idle
<1>10. SessionsAccountedFor' /\ ResourcesMatchSlots' /\ CrashInv' /\ IdleInv' /\ ReadyInv'
  BY <1>3, <1>5, <1>8, IdleKeeps
<1>11. PICK P : P = Good(submitted', t.receiveFailed)
  OBVIOUS
<1>12. nv.receiveFailed => t.receiveFailed
  BY <1>8
<1>13. stream \in Seq(P) /\ calls \in Seq([frame : Nat, rest : Seq(P)])
  BY <1>1, <1>11, <1>12, PacketsGrow
<1>14. CallBack("Error", <<>>, <<>>) /\ <<>> \in Seq(P)
  BY EmptySeq DEF ReportNoContext
<1>15. stream' \in Seq(P) /\ calls' \in Seq([frame : Nat, rest : Seq(P)])
  BY <1>2, <1>13, <1>14, ReportKeeps
<1>16. PacketInv'
  BY <1>5, <1>11, <1>15 DEF PacketInv
<1>17. nv' \in States(FramesOf(submitted'))
  BY <1>5, <1>9
<1> QED
  BY <1>4, <1>10, <1>16, <1>17 DEF NvInv

LEMMA EncodeKeeps ==
  ASSUME NvInv, NEW w \in Lengths, NEW h \in Lengths, Encode(w, h)
  PROVE  NvInv'
<1>1. ~nv.crashed /\ Submit(w, h) /\ UNCHANGED window
  BY DEF Encode
<1>2. CASE UpToDate(w, h) /\ EncodeInternal(nv) /\ UNCHANGED <<params, setup>>
  BY <1>1, <1>2, EncodeUpToDateKeeps
<1>3. ASSUME NEW s \in (IF initialized THEN ShutDown(nv) ELSE {nv}),
             \/ /\ s.crashed
                /\ nv' = s
                /\ UNCHANGED <<params, setup, calls, reports, stream, failed>>
             \/ /\ ~s.crashed
                /\ SetupSucceeded
                /\ \E t \in SetUp(s, w, h) : EncodeInternal(t)
             \/ /\ ~s.crashed
                /\ SetupFailed
                /\ nv' \in SetUpFails(s, w, h)
                /\ ReportNoContext
      PROVE  NvInv'
  <2>1. \/ Idle(FramesOf(submitted), s) /\ (nv.receiveFailed => s.receiveFailed)
        \/ initialized /\ Crashed(FramesOf(submitted), nv, s)
    BY <1>1, RestartEnds
  <2>2. CASE s.crashed /\ nv' = s
             /\ UNCHANGED <<params, setup, calls, reports, stream, failed>>
    <3>1. initialized /\ Crashed(FramesOf(submitted), nv, nv')
      BY <2>1, <2>2 DEF Idle
    <3>2. UNCHANGED <<params, setup, calls, stream>>
      BY <2>2
    <3> QED
      BY <1>1, <3>1, <3>2, EncodeCrashKeeps
  <2>3. CASE ~s.crashed
    <3>1. Idle(FramesOf(submitted), s) /\ (nv.receiveFailed => s.receiveFailed)
      BY <2>1, <2>3 DEF Crashed
    <3>2. CASE SetupSucceeded /\ \E t \in SetUp(s, w, h) : EncodeInternal(t)
      BY <1>1, <3>1, <3>2, EncodeAnewKeeps
    <3>3. CASE SetupFailed /\ nv' \in SetUpFails(s, w, h) /\ ReportNoContext
      BY <1>1, <3>1, <3>3, EncodeFailsKeeps
    <3> QED
      BY <1>3, <2>3, <3>2, <3>3
  <2> QED
    BY <1>3, <2>2, <2>3
<1> QED
  BY <1>2, <1>3 DEF Encode

LEMMA NextKeeps ==
  ASSUME NvInv, [Next]_vars
  PROVE  NvInv'
<1>1. CASE Setter /\ ~nv.crashed /\ UNCHANGED <<nv, window>>
  BY <1>1, SetterKeeps
<1>2. CASE Initialize
  BY <1>2, InitializeKeeps
<1>3. CASE Shutdown
  BY <1>3, ShutdownKeeps
<1>4. CASE Drain
  BY <1>4, DrainKeeps
<1>5. CASE WindowReleases
  BY <1>5, WindowReleasesKeeps
<1>6. ASSUME NEW w \in Lengths, NEW h \in Lengths, Encode(w, h)
      PROVE  NvInv'
  BY <1>6, EncodeKeeps
<1>7. CASE CallBackReturns /\ ~nv.crashed /\ UNCHANGED <<nv, window>>
  BY <1>7, CallBackReturnsKeeps
<1>8. CASE UNCHANGED vars
  BY <1>8, StutterKeeps
<1> QED
  BY <1>1, <1>2, <1>3, <1>4, <1>5, <1>6, <1>7, <1>8 DEF Next

(* The inductive invariant: what the functions of the encoder are called with,
   and what they leave. *)
THEOREM NvInvariant == Spec => []NvInv
<1>1. Init => NvInv
  BY InitKeeps
<1>2. NvInv /\ [Next]_vars => NvInv'
  BY NextKeeps
<1> QED
  BY <1>1, <1>2, PTL DEF Spec
-----------------------------------------------------------------------------
(* What follows from it. *)

LEMMA TypesFollow ==
  ASSUME NvInv
  PROVE  TypeOK
<1>1. PICK s, F : s = nv /\ F = FramesOf(submitted)
  OBVIOUS
<1>2. s \in States(F) /\ s \in NvStates(F) /\ s.recv \in 0..Sent(s)
  BY <1>1, StateParts DEF NvInv
<1>3. /\ s.cuda \in {"none", "failed", "context"} /\ s.session \in Sessions \cup {Null}
      /\ s.resources \in Seq(SessionIds) /\ s.count \in Nat /\ s.accepted \in Seq(F)
      /\ s.lost \subseteq SessionIds /\ s.dropped \subseteq F /\ s.faults \in 0..MaxFaults
      /\ s.slots \in Seq(Contents(F))
  BY <1>2 DEF NvStates
<1>4. s.ready \in BOOLEAN /\ s.registered \in BOOLEAN
  BY <1>2, Zenon DEF NvStates
<1>5. F = Frames
  BY <1>1 DEF FramesOf, Frames
<1>6. s.slots \in Seq(Pictures \cup {Null, Stale})
  <2>1. Contents(F) \subseteq Pictures \cup {Null, Stale}
    <3>1. Empty \in Pictures
      BY DEF Empty, Pictures
    <3>2. [frame : F, key : BOOLEAN] \subseteq Pictures
      BY <1>5 DEF Pictures
    <3> QED
      BY <3>1, <3>2 DEF Contents, NoPicture
  <2> QED
    BY <1>3, <2>1, SeqMonotonic
<1>7. /\ nv.cuda \in {"none", "failed", "context"} /\ nv.session \in Sessions \cup {Null}
      /\ nv.resources \in Seq(SessionIds) /\ nv.count \in Nat /\ nv.accepted \in Seq(Frames)
      /\ nv.lost \subseteq SessionIds /\ nv.dropped \subseteq Frames
      /\ nv.faults \in 0..MaxFaults /\ nv.recv \in 0..Sent(nv)
  BY <1>1, <1>2, <1>3, <1>5
<1>8. nv.ready \in BOOLEAN /\ nv.registered \in BOOLEAN /\ nv.slots \in Seq(Pictures \cup {Null, Stale})
  BY <1>1, <1>4, <1>6
<1> QED
  BY <1>7, <1>8 DEF TypeOK

LEMMA RingFollows ==
  ASSUME NvInv
  PROVE  NextSlotIsFree
<1>1. nv.recv \in 0..Sent(nv) /\ Sent(nv) \in Nat /\ nv.count \in Nat
  <2>1. PICK s, F : s = nv /\ F = FramesOf(submitted)
    OBVIOUS
  <2>2. s \in States(F)
    BY <2>1 DEF NvInv
  <2>3. s.recv \in 0..Sent(s) /\ Sent(s) \in Nat /\ s.count \in Nat
    BY <2>2, StateParts
  <2> QED
    BY <2>1, <2>3
<1> SUFFICES ASSUME ~nv.receiveFailed, nv.count > 0
             PROVE  Sent(nv) - nv.recv < nv.count
  BY DEF NextSlotIsFree
<1>2. ~nv.crashed
  BY DEF NvInv, CrashInv
<1>3. CASE initialized
  BY <1>2, <1>3 DEF NvInv, ReadyInv, RingFits
<1>4. CASE ~initialized
  <2>1. Caught(nv)
    BY <1>2, <1>4 DEF NvInv, IdleInv
  <2> QED
    BY <1>1, <2>1 DEF Caught
<1> QED
  BY <1>3, <1>4

LEMMA PacketsFollow ==
  ASSUME NvInv
  PROVE  PacketsShowTheirFrame
<1>1. PICK P, mayBeLater : mayBeLater = nv.receiveFailed /\ P = Good(submitted, mayBeLater)
  OBVIOUS
<1>2. stream \in Seq(P)
  BY <1>1 DEF NvInv, PacketInv
<1> SUFFICES ASSUME NEW i \in DOMAIN stream
             PROVE  LET p == stream[i]
                        f == submitted[p.pixels]
                    IN /\ p.w = Coded(f.w, p.params) /\ p.h = Coded(f.h, p.params)
                       /\ p.pixels >= p.frame
                       /\ ~mayBeLater => p.pixels = p.frame
  BY <1>1 DEF PacketsShowTheirFrame
<1>3. stream[i] \in P
  BY <1>2, ElementOfSeq
<1>4. Shows(submitted, mayBeLater, stream[i])
  BY <1>1, <1>3 DEF Good
<1> QED
  BY <1>4 DEF Shows

(* The members hold values of their types: as many sessions, frames and faults
   as there may be. *)
THEOREM TypeCorrect == Spec => []TypeOK
<1>1. NvInv => TypeOK
  BY TypesFollow
<1> QED
  BY <1>1, NvInvariant, PTL

(* So long as receiving never failed, GetNextInputFrame returns a slot whose
   packet was received, over Drain, Shutdown and setups, which leave the
   counters: the driver holds fewer frames than InitializeEncodeCtx makes
   slots, and a session ends with all of them received. *)
THEOREM SlotFree == Spec => []NextSlotIsFree
<1>1. NvInv => NextSlotIsFree
  BY RingFollows
<1> QED
  BY <1>1, NvInvariant, PTL

(* Frames in flight are fewer than the slots, so that no two of them share one,
   and every picture in the ring has the size of the session: a packet shows
   the frame it is the packet of, at its even size for 4:2:0, and a later frame
   only after a failure to receive. *)
THEOREM PacketsRight == Spec => []PacketsShowTheirFrame
<1>1. NvInv => PacketsShowTheirFrame
  BY PacketsFollow
<1> QED
  BY <1>1, NvInvariant, PTL

(* An initialized encoder has the one open session that it closes; the others
   are those whose setup or destruction failed. *)
THEOREM SessionsRight == Spec => []SessionsAccountedFor
<1>1. NvInv => SessionsAccountedFor
  BY DEF NvInv
<1> QED
  BY <1>1, NvInvariant, PTL

(* The CUDA resource mapped for a slot is that of its input frame, unless a
   setup that failed has left resources in front. *)
THEOREM ResourcesRight == Spec => []ResourcesMatchSlots
<1>1. NvInv => ResourcesMatchSlots
  BY DEF NvInv
<1> QED
  BY <1>1, NvInvariant, PTL

(* No ring index is computed modulo zero and no null context is made current
   before receiving has failed or the window has released its resources. *)
THEOREM CrashesExplained == Spec => []CrashesOnlyWithoutRing
<1>1. NvInv => CrashesOnlyWithoutRing
  BY DEF NvInv, CrashInv, CrashesOnlyWithoutRing
<1> QED
  BY <1>1, NvInvariant, PTL

-----------------------------------------------------------------------------
(* The abstract view: a sequence taken through a function. *)

Through(f, s) == [i \in DOMAIN s |-> f[s[i]]]

Takes(f, S, T) == f \in [S -> T]

Image(T, f, s, r) ==
  /\ r \in Seq(T) /\ Len(r) = Len(s)
  /\ \A i \in 1..Len(s) : r[i] = f[s[i]]

LEMMA ThroughIsSeq ==
  ASSUME NEW S, NEW T, NEW f, Takes(f, S, T), NEW s \in Seq(S)
  PROVE  Image(T, f, s, Through(f, s))
<1>1. PICK n : n = Len(s)
  OBVIOUS
<1>2. n \in Nat /\ DOMAIN s = 1..n /\ \A i \in 1..n : s[i] \in S
  BY <1>1, LenProperties, ElementOfSeq
<1>3. Through(f, s) = [i \in 1..n |-> f[s[i]]]
  BY <1>2 DEF Through
<1>4. Through(f, s) \in [1..n -> T]
  BY <1>2, <1>3 DEF Takes
<1>5. Through(f, s) \in Seq(T)
  BY <1>2, <1>4, SeqDef
<1>6. Len(Through(f, s)) = n
  BY <1>2, <1>4, <1>5, LenProperties
<1> QED
  BY <1>1, <1>3, <1>5, <1>6 DEF Image

LEMMA ThroughConcat ==
  ASSUME NEW S, NEW T, NEW f, Takes(f, S, T), NEW s \in Seq(S), NEW t \in Seq(S)
  PROVE  Through(f, s \o t) = Through(f, s) \o Through(f, t)
<1>1. PICK n, m : n = Len(s) /\ m = Len(t)
  OBVIOUS
<1>2. n \in Nat /\ m \in Nat
  BY <1>1, LenProperties
<1>3. PICK u : u = s \o t
  OBVIOUS
<1>4. /\ u \in Seq(S) /\ Len(u) = n + m
      /\ \A i \in 1..(n + m) : u[i] = IF i <= n THEN s[i] ELSE t[i - n]
  BY <1>1, <1>3, ConcatProperties
<1>5. PICK a, b, c : a = Through(f, s) /\ b = Through(f, t) /\ c = Through(f, u)
  OBVIOUS
<1>6. Image(T, f, s, a) /\ Image(T, f, t, b) /\ Image(T, f, u, c)
  BY <1>4, <1>5, ThroughIsSeq
<1>7. /\ a \in Seq(T) /\ Len(a) = n /\ b \in Seq(T) /\ Len(b) = m
      /\ c \in Seq(T) /\ Len(c) = n + m
      /\ \A i \in 1..n : a[i] = f[s[i]]
      /\ \A i \in 1..m : b[i] = f[t[i]]
      /\ \A i \in 1..(n + m) : c[i] = f[u[i]]
  BY <1>1, <1>4, <1>6 DEF Image
<1>8. /\ a \o b \in Seq(T) /\ Len(a \o b) = n + m
      /\ \A i \in 1..(n + m) : (a \o b)[i] = IF i <= n THEN a[i] ELSE b[i - n]
  BY <1>7, ConcatProperties
<1>9. \A i \in 1..(n + m) : c[i] = (a \o b)[i]
  <2> TAKE i \in 1..(n + m)
  <2>1. CASE i <= n
    <3>1. i \in 1..n
      BY <1>2, <2>1
    <3>2. u[i] = s[i] /\ (a \o b)[i] = a[i]
      BY <1>4, <1>8, <2>1
    <3>3. a[i] = f[s[i]] /\ c[i] = f[u[i]]
      BY <1>7, <3>1
    <3> QED
      BY <3>2, <3>3
  <2>2. CASE ~(i <= n)
    <3>1. PICK j \in 1..m : j = i - n
      <4>1. i - n \in 1..m
        BY <1>2, <2>2
      <4> QED
        BY <4>1
    <3>2. u[i] = t[j] /\ (a \o b)[i] = b[j]
      BY <1>4, <1>8, <2>2, <3>1
    <3>3. b[j] = f[t[j]] /\ c[i] = f[u[i]]
      BY <1>7
    <3> QED
      BY <3>2, <3>3
  <2> QED
    BY <2>1, <2>2
<1>10. c = a \o b
  BY <1>7, <1>8, <1>9, SeqEqual
<1> QED
  BY <1>3, <1>5, <1>10

LEMMA ThroughEmpty ==
  ASSUME NEW f
  PROVE  Through(f, <<>>) = <<>>
BY DEF Through

LEMMA ThroughOne ==
  ASSUME NEW S, NEW T, NEW f, Takes(f, S, T), NEW x \in S
  PROVE  Through(f, <<x>>) = <<f[x]>>
<1>1. DOMAIN <<x>> = 1..1 /\ <<x>>[1] = x /\ <<f[x]>> = [i \in 1..1 |-> f[x]]
  OBVIOUS
<1>2. Through(f, <<x>>) = [i \in 1..1 |-> f[x]]
  BY <1>1 DEF Through
<1> QED
  BY <1>1, <1>2

LEMMA ThroughHeadTail ==
  ASSUME NEW S, NEW T, NEW f, Takes(f, S, T), NEW s \in Seq(S), s # <<>>
  PROVE  /\ Through(f, s) # <<>>
         /\ Head(Through(f, s)) = f[Head(s)]
         /\ Tail(Through(f, s)) = Through(f, Tail(s))
<1>1. PICK x, r : x = Head(s) /\ r = Tail(s)
  OBVIOUS
<1>2. x \in S /\ r \in Seq(S) /\ s = <<x>> \o r
  <2>1. x \in S /\ r \in Seq(S) /\ Len(r) = Len(s) - 1
        /\ \A i \in 1..Len(r) : r[i] = s[i + 1]
    BY <1>1, HeadTailProperties
  <2>2. Len(s) \in Nat \ {0} /\ x = s[1]
    BY <1>1, EmptySeq
  <2>3. <<x>> \in Seq(S) /\ Len(<<x>>) = 1 /\ <<x>>[1] = x
    BY <2>1
  <2>4. PICK u : u = <<x>> \o r
    OBVIOUS
  <2>5. /\ u \in Seq(S) /\ Len(u) = 1 + Len(r)
        /\ \A i \in 1..(1 + Len(r)) : u[i] = IF i <= 1 THEN <<x>>[i] ELSE r[i - 1]
    BY <2>1, <2>3, <2>4, ConcatProperties
  <2>6. \A i \in 1..Len(s) : s[i] = u[i]
    <3> TAKE i \in 1..Len(s)
    <3>1. CASE i = 1
      BY <2>1, <2>2, <2>3, <2>5, <3>1
    <3>2. CASE i # 1
      <4>1. i - 1 \in 1..Len(r) /\ (i - 1) + 1 = i /\ ~(i <= 1) /\ i \in 1..(1 + Len(r))
        BY <2>1, <2>2, <3>2
      <4> QED
        BY <2>1, <2>5, <4>1
    <3> QED
      BY <3>1, <3>2
  <2>7. Len(s) = Len(u)
    BY <2>1, <2>2, <2>5
  <2> QED
    BY <2>1, <2>4, <2>5, <2>6, <2>7, SeqEqual
<1>3. PICK a : a = Through(f, r)
  OBVIOUS
<1>4. a \in Seq(T)
  BY <1>2, <1>3, ThroughIsSeq DEF Image
<1>5. Through(f, s) = <<f[x]>> \o a
  <2>1. PICK one : one = <<x>>
    OBVIOUS
  <2>2. one \in Seq(S) /\ Through(f, one) = <<f[x]>>
    BY <1>2, <2>1, ThroughOne
  <2>3. Through(f, one \o r) = Through(f, one) \o Through(f, r)
    <3>1. r \in Seq(S) /\ one \in Seq(S)
      BY <1>2, <2>2
    <3> QED
      BY <3>1, ThroughConcat
  <2> QED
    BY <1>2, <1>3, <2>1, <2>2, <2>3
<1>6. f[x] \in T
  BY <1>2 DEF Takes
<1>7. PICK y : y = f[x]
  OBVIOUS
<1>8. <<y>> \o a # <<>> /\ Head(<<y>> \o a) = y /\ Tail(<<y>> \o a) = a
  <2>1. y \in T
    BY <1>6, <1>7
  <2>2. <<y>> \in Seq(T) /\ Len(<<y>>) = 1 /\ <<y>>[1] = y
    BY <2>1
  <2>3. PICK u : u = <<y>> \o a
    OBVIOUS
  <2>4. /\ u \in Seq(T) /\ Len(u) = 1 + Len(a)
        /\ \A i \in 1..(1 + Len(a)) : u[i] = IF i <= 1 THEN <<y>>[i] ELSE a[i - 1]
    BY <1>4, <2>2, <2>3, ConcatProperties
  <2>5. Len(a) \in Nat /\ 1 \in 1..(1 + Len(a))
    BY <1>4, LenProperties
  <2>6. u # <<>>
    BY <2>4, <2>5, EmptySeq
  <2>7. u[1] = y /\ Head(u) = u[1]
    BY <2>2, <2>4, <2>5, <2>6
  <2>8. /\ Tail(u) \in Seq(T) /\ Len(Tail(u)) = Len(a)
        /\ \A i \in 1..Len(Tail(u)) : Tail(u)[i] = u[i + 1]
    BY <2>4, <2>5, <2>6, HeadTailProperties
  <2>9. \A i \in 1..Len(Tail(u)) : Tail(u)[i] = a[i]
    <3> TAKE i \in 1..Len(Tail(u))
    <3>1. PICK j \in 1..(1 + Len(a)) : j = i + 1 /\ ~(j <= 1) /\ j - 1 = i
      BY <2>5, <2>8
    <3>2. u[j] = a[j - 1]
      BY <2>4, <3>1
    <3> QED
      BY <2>8, <3>1, <3>2
  <2>10. Tail(u) = a
    BY <1>4, <2>8, <2>9, SeqEqual
  <2> QED
    BY <2>3, <2>6, <2>7, <2>10
<1> QED
  BY <1>1, <1>3, <1>5, <1>7, <1>8
-----------------------------------------------------------------------------
(* What the application is given, as the contract sees it. *)

Abs(subs, p) ==
  [frame |-> p.frame,
   w |-> Exact(p.w, subs[p.frame].w, p.params),
   h |-> Exact(p.h, subs[p.frame].h, p.params),
   params |-> p.params, key |-> p.key]

Mapped(subs, s) == [i \in DOMAIN s |-> Abs(subs, s[i])]
CallAbs(subs, c) == [frame |-> c.frame, rest |-> Mapped(subs, c.rest)]
MappedCalls(subs, cs) == [i \in DOMAIN cs |-> CallAbs(subs, cs[i])]

CallsOf(P) == [frame : Nat, rest : Seq(P)]

LEMMA MappedThrough ==
  ASSUME NEW subs, NEW P, NEW s \in Seq(P)
  PROVE  \E f, T : /\ Takes(f, P, T)
                   /\ \A q \in P : f[q] = Abs(subs, q)
                   /\ \A r \in Seq(P) : Mapped(subs, r) = Through(f, r)
<1>1. PICK f, T : f = [q \in P |-> Abs(subs, q)] /\ T = {Abs(subs, q) : q \in P}
  OBVIOUS
<1>2. Takes(f, P, T)
  BY <1>1 DEF Takes
<1>3. \A q \in P : f[q] = Abs(subs, q)
  BY <1>1
<1>4. \A r \in Seq(P) : Mapped(subs, r) = Through(f, r)
  <2> TAKE r \in Seq(P)
  <2>1. \A i \in DOMAIN r : r[i] \in P
    BY LenProperties, ElementOfSeq
  <2>2. \A i \in DOMAIN r : Abs(subs, r[i]) = f[r[i]]
    BY <1>3, <2>1
  <2> QED
    BY <2>2 DEF Mapped, Through
<1> QED
  BY <1>2, <1>3, <1>4

LEMMA MappedConcat ==
  ASSUME NEW subs, NEW P, NEW s \in Seq(P), NEW t \in Seq(P)
  PROVE  Mapped(subs, s \o t) = Mapped(subs, s) \o Mapped(subs, t)
<1>1. PICK f, T : /\ Takes(f, P, T)
                  /\ \A r \in Seq(P) : Mapped(subs, r) = Through(f, r)
  BY MappedThrough
<1>2. PICK u : u = s \o t
  OBVIOUS
<1>3. u \in Seq(P)
  BY <1>2, ConcatProperties
<1>4. Through(f, s \o t) = Through(f, s) \o Through(f, t)
  <2>1. Takes(f, P, T)
    BY <1>1
  <2> QED
    BY <2>1, ThroughConcat
<1> QED
  BY <1>1, <1>2, <1>3, <1>4

LEMMA MappedHeadTail ==
  ASSUME NEW subs, NEW P, NEW s \in Seq(P), s # <<>>
  PROVE  /\ Mapped(subs, s) # <<>>
         /\ Head(Mapped(subs, s)) = Abs(subs, Head(s))
         /\ Tail(Mapped(subs, s)) = Mapped(subs, Tail(s))
<1>1. PICK f, T : /\ Takes(f, P, T)
                  /\ \A q \in P : f[q] = Abs(subs, q)
                  /\ \A r \in Seq(P) : Mapped(subs, r) = Through(f, r)
  BY MappedThrough
<1>2. Head(s) \in P /\ Tail(s) \in Seq(P)
  BY HeadTailProperties
<1>3. Takes(f, P, T)
  BY <1>1
<1>4. /\ Through(f, s) # <<>>
      /\ Head(Through(f, s)) = f[Head(s)]
      /\ Tail(Through(f, s)) = Through(f, Tail(s))
  BY <1>3, ThroughHeadTail
<1> QED
  BY <1>1, <1>2, <1>4

LEMMA MappedEmpty ==
  ASSUME NEW subs
  PROVE  Mapped(subs, <<>>) = <<>> /\ MappedCalls(subs, <<>>) = <<>>
BY DEF Mapped, MappedCalls

LEMMA MappedOne ==
  ASSUME NEW subs, NEW p
  PROVE  Mapped(subs, <<p>>) = <<Abs(subs, p)>>
<1>1. PICK a : a = Abs(subs, p)
  OBVIOUS
<1>2. DOMAIN <<p>> = 1..1 /\ <<p>>[1] = p /\ <<a>> = [i \in 1..1 |-> a]
  OBVIOUS
<1>3. Mapped(subs, <<p>>) = [i \in 1..1 |-> a]
  BY <1>1, <1>2 DEF Mapped
<1> QED
  BY <1>1, <1>2, <1>3

LEMMA CallsThrough ==
  ASSUME NEW subs, NEW C
  PROVE  \E f, T : /\ Takes(f, C, T)
                   /\ \A q \in C : f[q] = CallAbs(subs, q)
                   /\ \A r \in Seq(C) : MappedCalls(subs, r) = Through(f, r)
<1>1. PICK f, T : f = [q \in C |-> CallAbs(subs, q)] /\ T = {CallAbs(subs, q) : q \in C}
  OBVIOUS
<1>2. Takes(f, C, T)
  BY <1>1 DEF Takes
<1>3. \A q \in C : f[q] = CallAbs(subs, q)
  BY <1>1
<1>4. \A r \in Seq(C) : MappedCalls(subs, r) = Through(f, r)
  <2> TAKE r \in Seq(C)
  <2>1. \A i \in DOMAIN r : r[i] \in C
    BY LenProperties, ElementOfSeq
  <2>2. \A i \in DOMAIN r : CallAbs(subs, r[i]) = f[r[i]]
    BY <1>3, <2>1
  <2> QED
    BY <2>2 DEF MappedCalls, Through
<1> QED
  BY <1>2, <1>3, <1>4

LEMMA CallsPush ==
  ASSUME NEW subs, NEW C, NEW c \in C, NEW cs \in Seq(C)
  PROVE  MappedCalls(subs, <<c>> \o cs) = <<CallAbs(subs, c)>> \o MappedCalls(subs, cs)
<1>1. PICK f, T : /\ Takes(f, C, T)
                  /\ \A q \in C : f[q] = CallAbs(subs, q)
                  /\ \A r \in Seq(C) : MappedCalls(subs, r) = Through(f, r)
  BY CallsThrough
<1>2. Takes(f, C, T) /\ f[c] = CallAbs(subs, c)
  BY <1>1
<1>3. PICK one : one = <<c>>
  OBVIOUS
<1>4. one \in Seq(C) /\ Through(f, one) = <<f[c]>>
  BY <1>2, <1>3, ThroughOne
<1>5. Through(f, one \o cs) = Through(f, one) \o Through(f, cs)
  <2>1. one \in Seq(C) /\ Takes(f, C, T)
    BY <1>2, <1>4
  <2> QED
    BY <2>1, ThroughConcat
<1>6. one \o cs \in Seq(C)
  BY <1>4, ConcatProperties
<1> QED
  BY <1>1, <1>2, <1>3, <1>4, <1>5, <1>6

LEMMA CallsPop ==
  ASSUME NEW subs, NEW C, NEW cs \in Seq(C), cs # <<>>
  PROVE  /\ MappedCalls(subs, cs) # <<>>
         /\ Head(MappedCalls(subs, cs)) = CallAbs(subs, Head(cs))
         /\ Tail(MappedCalls(subs, cs)) = MappedCalls(subs, Tail(cs))
<1>1. PICK f, T : /\ Takes(f, C, T)
                  /\ \A q \in C : f[q] = CallAbs(subs, q)
                  /\ \A r \in Seq(C) : MappedCalls(subs, r) = Through(f, r)
  BY CallsThrough
<1>2. Head(cs) \in C /\ Tail(cs) \in Seq(C)
  BY HeadTailProperties
<1>3. Takes(f, C, T)
  BY <1>1
<1>4. /\ Through(f, cs) # <<>>
      /\ Head(Through(f, cs)) = f[Head(cs)]
      /\ Tail(Through(f, cs)) = Through(f, Tail(cs))
  BY <1>3, ThroughHeadTail
<1> QED
  BY <1>1, <1>2, <1>4

(* What was given out is seen as before when one more frame is known. *)
LEMMA MappedStable ==
  ASSUME NEW subs, NEW news, Grows(subs, news), NEW b, NEW s \in Seq(Good(subs, b))
  PROVE  Mapped(news, s) = Mapped(subs, s)
<1>1. \A i \in DOMAIN s : s[i] \in Good(subs, b)
  BY LenProperties, ElementOfSeq
<1>2. \A p \in Good(subs, b) : Abs(news, p) = Abs(subs, p)
  <2> TAKE p \in Good(subs, b)
  <2>1. p.frame \in FramesOf(subs)
    BY DEF Good
  <2>2. news[p.frame] = subs[p.frame]
    BY <2>1 DEF Grows
  <2> QED
    BY <2>2 DEF Abs
<1>3. \A i \in DOMAIN s : Abs(news, s[i]) = Abs(subs, s[i])
  BY <1>1, <1>2
<1> QED
  BY <1>3 DEF Mapped

LEMMA CallsStable ==
  ASSUME NEW subs, NEW news, Grows(subs, news), NEW b, NEW cs \in Seq(CallsOf(Good(subs, b)))
  PROVE  MappedCalls(news, cs) = MappedCalls(subs, cs)
<1>1. PICK C : C = CallsOf(Good(subs, b))
  OBVIOUS
<1>2. \A i \in DOMAIN cs : cs[i] \in C
  BY <1>1, LenProperties, ElementOfSeq
<1>3. \A c \in C : CallAbs(news, c) = CallAbs(subs, c)
  <2> TAKE c \in C
  <2>1. PICK r : r = c.rest
    OBVIOUS
  <2>2. r \in Seq(Good(subs, b))
    BY <1>1, <2>1 DEF CallsOf
  <2>3. Mapped(news, r) = Mapped(subs, r)
    BY <2>2, MappedStable
  <2> QED
    BY <2>1, <2>3 DEF CallAbs
<1>4. \A i \in DOMAIN cs : CallAbs(news, cs[i]) = CallAbs(subs, cs[i])
  BY <1>2, <1>3
<1> QED
  BY <1>4 DEF MappedCalls

(* A step at which the contract sees what was given out as before. *)
Steady(P) ==
  /\ NextFrame \in Nat
  /\ stream \in Seq(P) /\ calls \in Seq(CallsOf(P))
  /\ Mapped(submitted', stream) = Mapped(submitted, stream)
  /\ MappedCalls(submitted', calls) = MappedCalls(submitted, calls)

LEMMA CallBackRefines ==
  ASSUME NEW P, Steady(P), NEW packets \in Seq(P), NEW rest \in Seq(P), NEW status,
         CallBack(status, packets, rest),
         NEW a, a = Mapped(submitted', packets), NEW b, b = Mapped(submitted', rest)
  PROVE  Contract!CallBack(status, a, b)
<1>1. PICK news : news = submitted'
  OBVIOUS
<1>2. Mapped(news, stream \o packets) = Mapped(submitted, stream) \o Mapped(news, packets)
  <2>1. stream \in Seq(P) /\ Mapped(news, stream) = Mapped(submitted, stream)
    BY <1>1 DEF Steady
  <2>2. Mapped(news, stream \o packets) = Mapped(news, stream) \o Mapped(news, packets)
    BY <2>1, MappedConcat
  <2> QED
    BY <2>1, <2>2
<1>3. PICK c : c = [frame |-> NextFrame, rest |-> rest]
  OBVIOUS
<1>4. MappedCalls(news, <<c>> \o calls) = <<CallAbs(news, c)>> \o MappedCalls(submitted, calls)
  <2>1. PICK C : C = CallsOf(P)
    OBVIOUS
  <2>2. c \in C /\ calls \in Seq(C) /\ MappedCalls(news, calls) = MappedCalls(submitted, calls)
    BY <1>1, <1>3, <2>1 DEF Steady, CallsOf
  <2>3. MappedCalls(news, <<c>> \o calls) = <<CallAbs(news, c)>> \o MappedCalls(news, calls)
    BY <2>2, CallsPush
  <2> QED
    BY <2>2, <2>3
<1>5. CallAbs(news, c) = [frame |-> NextFrame, rest |-> Mapped(news, rest)]
  BY <1>3 DEF CallAbs
<1>6. /\ reports' = Append(reports, [frame |-> NextFrame, status |-> status])
      /\ stream' = stream \o packets
      /\ calls' = <<c>> \o calls
  BY <1>3 DEF CallBack
<1>7. Mapped(news, stream') = Mapped(submitted, stream) \o Mapped(news, packets)
  BY <1>2, <1>6
<1>8. MappedCalls(news, calls') =
        <<[frame |-> NextFrame, rest |-> Mapped(news, rest)]>> \o MappedCalls(submitted, calls)
  BY <1>4, <1>5, <1>6
<1> QED
  BY <1>1, <1>6, <1>7, <1>8
     DEF Contract!CallBack, Contract!NextFrame, NextFrame, AbstractPackets, AbstractPacket,
         Mapped, MappedCalls, CallAbs, Abs

LEMMA UnseenRefines ==
  ASSUME NEW P, Steady(P), UNCHANGED <<calls, reports, stream>>
  PROVE  /\ UNCHANGED reports
         /\ UNCHANGED AbstractPackets(stream)
         /\ UNCHANGED [i \in DOMAIN calls |->
              [frame |-> calls[i].frame, rest |-> AbstractPackets(calls[i].rest)]]
<1>1. /\ Mapped(submitted', stream') = Mapped(submitted, stream)
      /\ MappedCalls(submitted', calls') = MappedCalls(submitted, calls)
  BY DEF Steady
<1> QED
  BY <1>1 DEF AbstractPackets, AbstractPacket, Mapped, MappedCalls, CallAbs, Abs

(* A report of the encoder is one of the contract. *)
LEMMA ReportRefines ==
  ASSUME NEW P, Steady(P), NEW packets \in Seq(P), NEW status, ReportResult(status, packets),
         NEW a, a = Mapped(submitted', packets)
  PROVE  Contract!ReportResult(status, a)
<1>1. PICK news : news = submitted'
  OBVIOUS
<1>2. PICK none : none = <<>>
  OBVIOUS
<1>3. none \in Seq(P) /\ Mapped(news, none) = <<>>
  BY <1>2, EmptySeq, MappedEmpty
<1>4. CASE handlerSet /\ CallBack(status, packets, <<>>)
  <2>1. CallBack(status, packets, none)
    BY <1>2, <1>4
  <2>2. none = Mapped(submitted', none)
    BY <1>1, <1>2, <1>3
  <2>3. Contract!CallBack(status, a, none)
    BY <1>3, <2>1, <2>2, CallBackRefines
  <2> QED
    BY <1>2, <1>4, <2>3 DEF Contract!ReportResult
<1>5. CASE /\ ~handlerSet
           /\ packets # <<>>
           /\ CallBack("Success", <<Head(packets)>>, Tail(packets))
  <2>1. PICK first, rest : first = <<Head(packets)>> /\ rest = Tail(packets)
    OBVIOUS
  <2>2. Head(packets) \in P /\ rest \in Seq(P)
    BY <1>5, <2>1, HeadTailProperties
  <2>3. first \in Seq(P)
    BY <2>1, <2>2
  <2>4. CallBack("Success", first, rest)
    BY <1>5, <2>1
  <2>5. PICK x, r : x = Mapped(news, first) /\ r = Mapped(news, rest)
    OBVIOUS
  <2>6. Contract!CallBack("Success", x, r)
    <3>1. x = Mapped(submitted', first) /\ r = Mapped(submitted', rest)
      BY <1>1, <2>5
    <3> QED
      BY <2>2, <2>3, <2>4, <3>1, CallBackRefines
  <2>7. a # <<>> /\ <<Head(a)>> = x /\ Tail(a) = r
    <3>1. /\ Mapped(news, packets) # <<>>
          /\ Head(Mapped(news, packets)) = Abs(news, Head(packets))
          /\ Tail(Mapped(news, packets)) = Mapped(news, Tail(packets))
      BY <1>5, MappedHeadTail
    <3>2. a = Mapped(news, packets)
      BY <1>1
    <3> QED
      BY <2>1, <2>5, <3>1, <3>2, MappedOne
  <2> QED
    BY <1>5, <2>6, <2>7 DEF Contract!ReportResult
<1>6. CASE ~handlerSet /\ packets = <<>> /\ UNCHANGED <<calls, reports, stream>>
  <2>1. a = <<>>
    BY <1>6, MappedEmpty
  <2>2. /\ UNCHANGED reports
        /\ UNCHANGED AbstractPackets(stream)
        /\ UNCHANGED [i \in DOMAIN calls |->
             [frame |-> calls[i].frame, rest |-> AbstractPackets(calls[i].rest)]]
    BY <1>6, UnseenRefines
  <2> QED
    BY <1>6, <2>1, <2>2 DEF Contract!ReportResult
<1> QED
  BY <1>4, <1>5, <1>6 DEF ReportResult
-----------------------------------------------------------------------------
(* What becomes of the frames that wait, when no receiving fails. *)

(* The packets that are left are received and given up. *)
GivesUp(s, t) ==
  ~t.receiveFailed /\ ~t.crashed =>
    /\ t.recv = Sent(s)
    /\ t.dropped = s.dropped \cup Range(SubSeq(s.accepted, s.recv + 1, Sent(s)))

(* The end of a stream: the next picture begins one, or the driver refused the
   end, and had received everything. *)
EndsStream(s, t) ==
  /\ t.session.started = s.session.started
  /\ t.session.eos = TRUE
  /\ \/ t.session.fresh = TRUE
     \/ t.session.fresh = s.session.fresh /\ t.recv = s.recv

LEMMA NothingLeft ==
  ASSUME NEW s, Sent(s) \in Nat, s.recv = Sent(s)
  PROVE  SubSeq(s.accepted, s.recv + 1, Sent(s)) = <<>>
<1>1. s.recv + 1 \in Int /\ Sent(s) \in Int /\ Sent(s) < s.recv + 1
  OBVIOUS
<1> QED
  BY <1>1, SubSeqEmpty

LEMMA RangeOfNone == Range(<<>>) = {}
BY DEF Range

LEMMA CaughtGivesUp ==
  ASSUME NEW s, NEW t, Sent(s) \in Nat, t.recv = s.recv, t.dropped = s.dropped,
         ~t.receiveFailed /\ ~t.crashed => s.recv = Sent(s)
  PROVE  GivesUp(s, t)
<1>1. CASE s.recv = Sent(s)
  BY <1>1, NothingLeft, RangeOfNone DEF GivesUp
<1>2. CASE s.recv # Sent(s)
  BY <1>2 DEF GivesUp
<1> QED
  BY <1>1, <1>2

LEMMA ReceiveAndDropGivesUp ==
  ASSUME NEW F, NEW s \in States(F), ~s.crashed, NEW t \in ReceiveAndDrop(s)
  PROVE  GivesUp(s, t) /\ t.session = s.session
<1>1. s.recv \in 0..Sent(s) /\ Sent(s) \in Nat /\ s \in NvStates(F)
  BY StateParts
<1>2. CASE s.count = 0 /\ s.recv < Sent(s)
  <2>1. t = Crash(s)
    BY <1>2 DEF ReceiveAndDrop
  <2>2. t.crashed /\ t.session = s.session
    BY <1>1, <2>1 DEF Crash, NvStates
  <2> QED
    BY <2>2 DEF GivesUp
<1>3. CASE s.count = 0 /\ ~(s.recv < Sent(s))
  <2>1. t = s
    BY <1>3 DEF ReceiveAndDrop
  <2>2. s.recv = Sent(s)
    BY <1>1, <1>3
  <2> QED
    BY <1>1, <2>1, <2>2, CaughtGivesUp
<1>4. CASE s.count # 0
  <2>1. PICK o \in Received(s) :
          t = [AfterReceive(s, o) EXCEPT
                 !.dropped = @ \cup Range(SubSeq(s.accepted, s.recv + 1, o.recv))]
    BY <1>4 DEF ReceiveAndDrop
  <2>2. /\ o.recv \in s.recv..Sent(s)
        /\ o.recv < Sent(s) => s.receiveFailed \/ s.faults < MaxFaults
    BY ReceivedParts
  <2>3. PICK r : r = AfterReceive(s, o)
    OBVIOUS
  <2>4. /\ r \in States(F) /\ r.session = s.session /\ r.dropped = s.dropped
        /\ r.recv = o.recv
    BY <2>2, <2>3, AfterReceiveKeeps
  <2>5. r.receiveFailed = (s.receiveFailed \/ ~(o.recv = Sent(s)))
    BY <1>1, <2>3 DEF AfterReceive, NvStates
  <2>6. PICK D : D = Range(SubSeq(s.accepted, s.recv + 1, o.recv))
    OBVIOUS
  <2>7. r \in NvStates(F)
    BY <2>4, StateParts
  <2>8. /\ t.receiveFailed = r.receiveFailed /\ t.session = r.session /\ t.recv = r.recv
        /\ t.dropped = r.dropped \cup D
    BY <2>1, <2>3, <2>6, <2>7 DEF NvStates
  <2>9. ~t.receiveFailed => o.recv = Sent(s)
    BY <2>5, <2>8
  <2> QED
    BY <2>4, <2>6, <2>8, <2>9 DEF GivesUp
<1> QED
  BY <1>2, <1>3, <1>4

LEMMA EndTakenGivesUp ==
  ASSUME NEW F, NEW s \in States(F), ~s.crashed, s.session # Null, NEW t \in EndTaken(s)
  PROVE  GivesUp(s, t) /\ EndsStream(s, t)
<1>1. PICK r : r = [s EXCEPT !.session.fresh = TRUE, !.session.eos = TRUE]
  OBVIOUS
<1>2. PICK v : v = [s.session EXCEPT !.fresh = TRUE, !.eos = TRUE]
  OBVIOUS
<1>3. s \in NvStates(F) /\ s.session \in Sessions
  BY StateParts DEF NvStates
<1>4. r = [s EXCEPT !.session = v]
  BY <1>1, <1>2, <1>3 DEF NvStates
<1>5. /\ v \in Sessions /\ v.id = s.session.id /\ v.w = s.session.w
      /\ v.h = s.session.h /\ v.params = s.session.params
  BY <1>2, <1>3 DEF Sessions
<1>6. v.started = s.session.started /\ v.fresh = TRUE /\ v.eos = TRUE
  BY <1>2, <1>3 DEF Sessions
<1>7. /\ r \in States(F) /\ r.crashed = s.crashed /\ r.dropped = s.dropped
      /\ r.recv = s.recv /\ Holding(s, r)
  BY <1>4, <1>5, SessionFlags
<1>8. t \in ReceiveAndDrop(r)
  BY <1>1 DEF EndTaken
<1>9. GivesUp(r, t) /\ t.session = r.session
  BY <1>7, <1>8, ReceiveAndDropGivesUp
<1>10. r.session = v
  BY <1>3, <1>4 DEF NvStates
<1>11. Sent(r) = Sent(s) /\ r.accepted = s.accepted
  BY <1>7 DEF Holding, Sent
<1>12. GivesUp(s, t)
  BY <1>7, <1>9, <1>11 DEF GivesUp
<1> QED
  BY <1>6, <1>9, <1>10, <1>12 DEF EndsStream

LEMMA EndRefusedGivesUp ==
  ASSUME NEW F, NEW s \in States(F), ~s.crashed, s.session # Null, NEW t \in EndRefused(s)
  PROVE  GivesUp(s, t) /\ EndsStream(s, t)
<1>1. PICK r : r = [s EXCEPT !.session.eos = TRUE]
  OBVIOUS
<1>2. PICK v : v = [s.session EXCEPT !.eos = TRUE]
  OBVIOUS
<1>3. /\ s \in NvStates(F) /\ s.session \in Sessions
      /\ s.recv \in 0..Sent(s) /\ Sent(s) \in Nat
  BY StateParts DEF NvStates
<1>4. r = [s EXCEPT !.session = v]
  BY <1>1, <1>2, <1>3 DEF NvStates
<1>5. /\ v \in Sessions /\ v.id = s.session.id /\ v.w = s.session.w
      /\ v.h = s.session.h /\ v.params = s.session.params
  BY <1>2, <1>3 DEF Sessions
<1>6. v.started = s.session.started /\ v.fresh = s.session.fresh /\ v.eos = TRUE
  BY <1>2, <1>3 DEF Sessions
<1>7. /\ r \in States(F) /\ r.crashed = s.crashed /\ r.dropped = s.dropped
      /\ r.recv = s.recv /\ Holding(s, r)
  BY <1>4, <1>5, SessionFlags
<1>8. PICK p : p = [upTo |-> r.recv, recv |-> r.recv]
  OBVIOUS
<1>9. t = AfterReceive(r, p)
  <2>1. r.recv = s.recv
    BY <1>7
  <2>2. t = AfterReceive([s EXCEPT !.session.eos = TRUE], [upTo |-> s.recv, recv |-> s.recv])
    BY DEF EndRefused, WithinFaults
  <2> QED
    BY <1>1, <1>8, <2>1, <2>2
<1>10. r.session = v /\ r \in NvStates(F)
  BY <1>3, <1>4, <1>7, StateParts DEF NvStates
<1>11. Sent(r) = Sent(s) /\ r.accepted = s.accepted
  BY <1>7 DEF Holding, Sent
<1>12. /\ t.recv = r.recv /\ t.session = r.session /\ t.dropped = r.dropped
       /\ t.receiveFailed = (r.receiveFailed \/ ~(r.recv = Sent(r)))
  BY <1>8, <1>9, <1>10 DEF AfterReceive, NvStates
<1>13. ~t.receiveFailed => s.recv = Sent(s)
  BY <1>7, <1>11, <1>12
<1>14. GivesUp(s, t)
  BY <1>3, <1>7, <1>12, <1>13, CaughtGivesUp
<1> QED
  BY <1>6, <1>7, <1>10, <1>12, <1>14 DEF EndsStream

LEMMA FlushGivesUp ==
  ASSUME NEW F, NEW s \in States(F), ~s.crashed, s.session # Null,
         NEW t \in Flush(s) \cup SendEOS(s)
  PROVE  GivesUp(s, t) /\ EndsStream(s, t)
BY EndTakenGivesUp, EndRefusedGivesUp DEF Flush, SendEOS

(* Where everything was received, nothing more is given up. *)
LosesNothing(s, t) ==
  ~t.receiveFailed /\ ~t.crashed /\ s.recv = Sent(s) => t.dropped = s.dropped

LEMMA GivesUpNothing ==
  ASSUME NEW s, NEW t, Sent(s) \in Nat, GivesUp(s, t)
  PROVE  LosesNothing(s, t)
BY NothingLeft, RangeOfNone DEF GivesUp, LosesNothing

LEMMA ReleaseGLResourcesLoses ==
  ASSUME NEW F, NEW s \in States(F), ~s.crashed, NEW context,
         NEW t \in ReleaseGLResources(s, context)
  PROVE  LosesNothing(s, t)
<1>1. CASE ~IsInitialized(s)
  BY <1>1 DEF ReleaseGLResources, LosesNothing
<1>2. CASE IsInitialized(s)
  <2>1. PICK q \in Flush(s) :
          t \in (IF q.crashed THEN {q}
                 ELSE {[q EXCEPT !.count = 0, !.resources = <<>>, !.crashed = (context = Null)]})
    BY <1>2 DEF ReleaseGLResources, Then
  <2>2. Ended(F, s, q) /\ GivesUp(s, q)
    BY <1>2, <2>1, FlushEnds, FlushGivesUp DEF IsInitialized
  <2>3. LosesNothing(s, q)
    BY <2>2, StateParts, GivesUpNothing
  <2>4. CASE q.crashed
    BY <2>1, <2>3, <2>4
  <2>5. CASE ~q.crashed
    <3>1. q \in NvStates(F)
      BY <2>2, StateParts DEF Ended
    <3>2. t = [q EXCEPT !.count = 0, !.resources = <<>>, !.crashed = (context = Null)]
      BY <2>1, <2>5
    <3>3. t.dropped = q.dropped /\ t.receiveFailed = q.receiveFailed
      BY <3>1, <3>2 DEF NvStates
    <3> QED
      BY <2>3, <2>5, <3>3 DEF LosesNothing
  <2> QED
    BY <2>4, <2>5
<1> QED
  BY <1>1, <1>2

LEMMA ReleaseLoses ==
  ASSUME NEW F, NEW s \in States(F), ~s.crashed, NEW t \in Release(s)
  PROVE  /\ LosesNothing(s, t)
         /\ IsInitialized(s) => t = s \/ t.count = 0
<1>1. CASE ~s.registered
  BY <1>1 DEF Release, LosesNothing
<1>2. CASE s.registered
  <2>1. PICK q \in ReleaseGLResources(s, "context") :
          t \in (IF q.crashed THEN {q} ELSE {[q EXCEPT !.registered = FALSE]})
    BY <1>2 DEF Release, Then
  <2>2. Released(F, s, q) /\ (IsInitialized(s) => q.count = 0)
    BY <2>1, ReleaseGLResourcesKeeps
  <2>3. LosesNothing(s, q)
    BY <2>1, ReleaseGLResourcesLoses
  <2>4. CASE q.crashed
    BY <2>1, <2>2, <2>3, <2>4
  <2>5. CASE ~q.crashed
    <3>1. q \in NvStates(F)
      BY <2>2, StateParts DEF Released
    <3>2. t = [q EXCEPT !.registered = FALSE]
      BY <2>1, <2>5
    <3>3. /\ t.dropped = q.dropped /\ t.receiveFailed = q.receiveFailed
          /\ t.crashed = q.crashed /\ t.count = q.count
      BY <3>1, <3>2 DEF NvStates
    <3> QED
      BY <2>2, <2>3, <3>3 DEF LosesNothing
  <2> QED
    BY <2>4, <2>5
<1> QED
  BY <1>1, <1>2

(* The counters go on. *)
Later(F, s, t) ==
  /\ t \in States(F) /\ s.recv <= t.recv /\ t.accepted = s.accepted
  /\ s.receiveFailed => t.receiveFailed

LEMMA ShutdownInternalLoses ==
  ASSUME NEW F, NEW s \in States(F), ~s.crashed, NEW t \in ShutdownInternal(s)
  PROVE  LosesNothing(s, t) /\ Later(F, s, t)
<1>1. PICK a \in Then(Release(s), DestroySession) :
        t \in (IF a.crashed THEN {a} ELSE {[a EXCEPT !.cuda = "none"]})
  BY DEF ShutdownInternal, Then
<1>2. PICK b \in Release(s) : a \in (IF b.crashed THEN {b} ELSE DestroySession(b))
  BY <1>1 DEF Then
<1>3. Released(F, s, b) /\ LosesNothing(s, b)
  BY <1>2, ReleaseKeeps, ReleaseLoses
<1>4. Later(F, s, b) /\ b \in States(F) /\ b \in NvStates(F)
  BY <1>3, StateParts DEF Released, Holding, Later
<1>5. CASE b.crashed
  BY <1>1, <1>2, <1>3, <1>4, <1>5
<1>6. CASE ~b.crashed
  <2>1. a \in DestroySession(b)
    BY <1>2, <1>6
  <2>2. /\ a \in States(F) /\ a.crashed = b.crashed /\ a.dropped = b.dropped
        /\ a.receiveFailed = b.receiveFailed /\ a.accepted = b.accepted /\ a.recv = b.recv
    <3>1. CASE IsInitialized(b)
      <4>1. /\ a \in States(F) /\ a.crashed = b.crashed
            /\ a.accepted = b.accepted /\ a.recv = b.recv /\ a.receiveFailed = b.receiveFailed
        BY <1>4, <2>1, <3>1, DestroySessionKeeps
      <4>2. a.dropped = b.dropped
        BY <1>4, <2>1, <3>1 DEF DestroySession, WithinFaults, NvStates
      <4> QED
        BY <4>1, <4>2
    <3>2. CASE ~IsInitialized(b)
      BY <1>4, <2>1, <3>2 DEF DestroySession
    <3> QED
      BY <3>1, <3>2
  <2>3. t = [a EXCEPT !.cuda = "none"]
    BY <1>1, <1>6, <2>2
  <2>4. "none" \in {"none", "failed", "context"}
    OBVIOUS
  <2>5. /\ t \in States(F) /\ t.crashed = a.crashed
        /\ t.accepted = a.accepted /\ t.recv = a.recv /\ t.receiveFailed = a.receiveFailed
    BY <2>2, <2>3, <2>4, NoCuda
  <2>6. t.dropped = a.dropped
    BY <2>2, <2>3, StateParts DEF NvStates
  <2>7. LosesNothing(s, t)
    BY <1>3, <2>2, <2>5, <2>6 DEF LosesNothing
  <2>8. Later(F, s, t)
    BY <1>4, <2>2, <2>5 DEF Later
  <2> QED
    BY <2>7, <2>8
<1> QED
  BY <1>5, <1>6

(* Shutdown gives up exactly the frames that waited. *)
LEMMA ShutDownGivesUp ==
  ASSUME NEW F, NEW s \in States(F), ~s.crashed, IsInitialized(s), NEW t \in ShutDown(s)
  PROVE  GivesUp(s, t)
<1>1. PICK r : /\ r \in Then(SendEOS(s), LAMBDA q : ReleaseGLResources(q, GraphicsContext))
               /\ t \in (IF r.crashed THEN {r} ELSE ShutdownInternal(r))
  BY DEF ShutDown, Then
<1>2. PICK q \in SendEOS(s) :
        r \in (IF q.crashed THEN {q} ELSE ReleaseGLResources(q, GraphicsContext))
  BY <1>1 DEF Then
<1>3. Ended(F, s, q) /\ GivesUp(s, q)
  BY <1>2, FlushEnds, FlushGivesUp DEF IsInitialized
<1>4. Sent(q) = Sent(s)
  BY <1>3 DEF Ended, Holding, Sent
<1>5. CASE q.crashed
  BY <1>1, <1>2, <1>3, <1>5
<1>6. CASE ~q.crashed
  <2>1. q \in States(F)
    BY <1>3 DEF Ended
  <2>2. r \in ReleaseGLResources(q, GraphicsContext)
    BY <1>2, <1>6
  <2>3. Released(F, q, r) /\ LosesNothing(q, r)
    BY <1>6, <2>1, <2>2, ReleaseGLResourcesKeeps, ReleaseGLResourcesLoses
  <2>4. CASE r.crashed
    BY <1>1, <2>4 DEF GivesUp
  <2>5. CASE ~r.crashed
    <3>1. /\ r \in States(F) /\ (q.receiveFailed => r.receiveFailed)
          /\ q.recv <= r.recv /\ r.accepted = q.accepted
      BY <2>3 DEF Released, Holding
    <3>2. t \in ShutdownInternal(r)
      BY <1>1, <2>5
    <3>3. LosesNothing(r, t) /\ Later(F, r, t)
      BY <2>5, <3>1, <3>2, ShutdownInternalLoses
    <3>4. r.receiveFailed => t.receiveFailed
      BY <3>3 DEF Later
    <3>5. CASE t.receiveFailed \/ t.crashed
      BY <3>5 DEF GivesUp
    <3>6. CASE ~t.receiveFailed /\ ~t.crashed
      <4>1. ~r.receiveFailed /\ ~q.receiveFailed
        BY <3>1, <3>4, <3>6
      <4>2. /\ q.recv = Sent(s)
            /\ q.dropped = s.dropped \cup Range(SubSeq(s.accepted, s.recv + 1, Sent(s)))
        BY <1>3, <1>6, <4>1 DEF GivesUp
      <4>3. r.dropped = q.dropped
        BY <1>4, <2>3, <2>5, <4>1, <4>2 DEF LosesNothing
      <4>4. r.recv = Sent(r) /\ Sent(r) = Sent(s)
        <5>1. Sent(r) = Sent(s)
          BY <1>4, <3>1 DEF Sent
        <5>2. r.recv \in 0..Sent(r) /\ Sent(r) \in Nat
          BY <3>1, StateParts
        <5> QED
          BY <3>1, <4>2, <5>1, <5>2
      <4>5. t.dropped = r.dropped
        BY <3>3, <3>6, <4>4 DEF LosesNothing
      <4>6. t.recv = Sent(s)
        <5>1. /\ r.recv <= t.recv /\ Sent(t) = Sent(r)
              /\ t.recv \in 0..Sent(t) /\ Sent(t) \in Nat
          BY <3>3, StateParts DEF Later, Sent
        <5> QED
          BY <4>4, <5>1
      <4> QED
        BY <4>2, <4>3, <4>5, <4>6 DEF GivesUp
    <3> QED
      BY <3>5, <3>6
  <2> QED
    BY <2>4, <2>5
<1> QED
  BY <1>5, <1>6

(* A setup gives up no frame, and its session is at the beginning of a stream. *)
Begins(s, t) ==
  /\ t.dropped = s.dropped
  /\ t.session.started = FALSE /\ t.session.fresh = TRUE /\ t.session.eos = FALSE

LEMMA OpenedBegins ==
  ASSUME NEW F, NEW s \in States(F), ~s.crashed, params \in Params,
         NEW w \in Lengths, NEW h \in Lengths, NEW t \in Opened(s, w, h)
  PROVE  /\ Begins(s, t)
         /\ t \in States(F) /\ ~t.crashed /\ t.session \in Sessions
<1>1. PICK r \in CudaReady(s) : t \in (IF r.crashed THEN {r} ELSE Open(r, w, h))
  BY DEF Opened, Then
<1>2. s \in NvStates(F)
  BY StateParts
<1>3. r = [s EXCEPT !.cuda = "context"]
  BY <1>1 DEF CudaReady
<1>4. "context" \in {"none", "failed", "context"}
  OBVIOUS
<1>5. r \in States(F) /\ r.crashed = s.crashed
  BY <1>3, <1>4, NoCuda
<1>6. r.dropped = s.dropped
  BY <1>2, <1>3 DEF NvStates
<1>7. t \in Open(r, w, h) /\ r \in NvStates(F)
  BY <1>1, <1>5, StateParts
<1>8. PICK v : v = [id |-> r.opened + 1, w |-> w, h |-> h, params |-> params,
                    usable |-> FALSE, fresh |-> TRUE, started |-> FALSE, eos |-> FALSE]
  OBVIOUS
<1>9. PICK L : L = r.live \cup {r.opened + 1}
  OBVIOUS
<1>10. PICK n : n = r.opened + 1
  OBVIOUS
<1>11. t = [r EXCEPT !.opened = n, !.live = L, !.session = v]
  <2>1. t = [r EXCEPT !.opened = @ + 1,
                      !.live = @ \cup {r.opened + 1},
                      !.session = [id |-> r.opened + 1, w |-> w, h |-> h, params |-> params,
                                   usable |-> FALSE, fresh |-> TRUE, started |-> FALSE,
                                   eos |-> FALSE]]
    BY <1>7 DEF Open
  <2> QED
    BY <1>7, <1>8, <1>9, <1>10, <2>1 DEF NvStates
<1>12. t.dropped = r.dropped /\ t.session = v
  BY <1>7, <1>11 DEF NvStates
<1>13. v.started = FALSE /\ v.fresh = TRUE /\ v.eos = FALSE
  BY <1>8
<1> QED
  BY <1>6, <1>12, <1>13, OpenedKeeps DEF Begins

LEMMA InitializeEncodeCtxBegins ==
  ASSUME NEW F, NEW s \in States(F), s.session \in Sessions, NEW t \in InitializeEncodeCtx(s)
  PROVE  /\ t.dropped = s.dropped
         /\ t.session.started = s.session.started
         /\ t.session.fresh = s.session.fresh
         /\ t.session.eos = s.session.eos
<1>1. PICK n : n = BufferCount(s.session.params)
  OBVIOUS
<1>2. PICK made \in 0..n :
        t = [s EXCEPT !.session.usable = TRUE, !.ready = TRUE, !.count = n,
                      !.slots = Ring(s, n, made),
                      !.faults = IF made = n THEN @ ELSE @ + 1]
  BY <1>1 DEF InitializeEncodeCtx, WithinFaults
<1>3. PICK v, ring, f : /\ v = [s.session EXCEPT !.usable = TRUE]
                        /\ ring = Ring(s, n, made)
                        /\ f = IF made = n THEN s.faults ELSE s.faults + 1
  OBVIOUS
<1>4. s \in NvStates(F)
  BY StateParts
<1>5. t = [s EXCEPT !.session = v, !.ready = TRUE, !.count = n, !.slots = ring,
                    !.faults = f]
  BY <1>2, <1>3, <1>4 DEF NvStates
<1>6. t.dropped = s.dropped /\ t.session = v
  BY <1>4, <1>5 DEF NvStates
<1>7. /\ v.started = s.session.started /\ v.fresh = s.session.fresh
      /\ v.eos = s.session.eos
  BY <1>3 DEF Sessions
<1> QED
  BY <1>6, <1>7

LEMMA AllocateBegins ==
  ASSUME NEW F, NEW s \in States(F), NEW n, NEW t, t = Allocate(s, n)
  PROVE  t.dropped = s.dropped /\ t.session = s.session
<1>1. s \in NvStates(F)
  BY StateParts
<1>2. PICK R : R = s.resources \o [i \in 1..n |-> s.session.id]
  OBVIOUS
<1>3. t = [s EXCEPT !.registered = TRUE, !.resources = R]
  BY <1>1, <1>2 DEF Allocate, NvStates
<1> QED
  BY <1>1, <1>3 DEF NvStates

LEMMA SetUpBegins ==
  ASSUME NEW F, NEW s \in States(F), ~s.crashed, params \in Params,
         NEW w \in Lengths, NEW h \in Lengths, NEW t \in SetUp(s, w, h)
  PROVE  Begins(s, t)
<1>1. PICK r \in Then(Opened(s, w, h), InitializeEncodeCtx) :
        t \in (IF r.crashed THEN {r} ELSE InputBuffersAllocated(r))
  BY DEF SetUp, Then
<1>2. PICK q \in Opened(s, w, h) : r \in (IF q.crashed THEN {q} ELSE InitializeEncodeCtx(q))
  BY <1>1 DEF Then
<1>3. Begins(s, q) /\ q \in States(F) /\ ~q.crashed /\ q.session \in Sessions
  BY <1>2, OpenedBegins
<1>4. r \in InitializeEncodeCtx(q)
  BY <1>2, <1>3
<1>5. r \in States(F) /\ r.crashed = q.crashed
  BY <1>3, <1>4, InitializeEncodeCtxKeeps
<1>6. /\ r.dropped = q.dropped
      /\ r.session.started = q.session.started
      /\ r.session.fresh = q.session.fresh
      /\ r.session.eos = q.session.eos
  BY <1>3, <1>4, InitializeEncodeCtxBegins
<1>7. t = Allocate(r, r.count)
  BY <1>1, <1>3, <1>5 DEF InputBuffersAllocated
<1>8. t.dropped = r.dropped /\ t.session = r.session
  BY <1>5, <1>7, AllocateBegins
<1> QED
  BY <1>3, <1>6, <1>8 DEF Begins

LEMMA SetUpFailsLoses ==
  ASSUME NEW F, NEW s \in States(F), ~s.crashed, params \in Params,
         NEW w \in Lengths, NEW h \in Lengths, NEW t \in SetUpFails(s, w, h)
  PROVE  t.dropped = s.dropped
<1>1. s \in NvStates(F)
  BY StateParts
<1>2. CASE t \in CudaNotReady(s) \cup CudaReady(s)
  <2>1. t = s \/ (\E c \in {"failed", "context"} : t = [s EXCEPT !.cuda = c])
    BY <1>2 DEF CudaNotReady, CudaReady
  <2> QED
    BY <1>1, <2>1 DEF NvStates
<1>3. ASSUME NEW r \in States(F), r.dropped = s.dropped,
             t = [r EXCEPT !.lost = @ \cup {r.session.id}]
      PROVE  t.dropped = s.dropped
  <2>1. PICK L : L = r.lost \cup {r.session.id}
    OBVIOUS
  <2>2. r \in NvStates(F)
    BY StateParts
  <2>3. t = [r EXCEPT !.lost = L]
    BY <1>3, <2>1, <2>2 DEF NvStates
  <2> QED
    BY <1>3, <2>2, <2>3 DEF NvStates
<1>4. ASSUME NEW r \in Then(Opened(s, w, h), EncodeCtxFails)
      PROVE  r \in States(F) /\ r.dropped = s.dropped
  <2>1. PICK q \in Opened(s, w, h) : r \in (IF q.crashed THEN {q} ELSE EncodeCtxFails(q))
    BY <1>4 DEF Then
  <2>2. Begins(s, q) /\ q \in States(F) /\ ~q.crashed
    BY <2>1, OpenedBegins
  <2>3. r \in EncodeCtxFails(q) /\ q \in NvStates(F)
    BY <2>1, <2>2, StateParts
  <2>4. r \in States(F)
    BY <2>2, <2>3, EncodeCtxFailsKeeps
  <2>5. r.dropped = q.dropped
    BY <2>3 DEF EncodeCtxFails, NvStates
  <2> QED
    BY <2>2, <2>4, <2>5 DEF Begins
<1>5. ASSUME NEW r \in Then(Then(Opened(s, w, h), InitializeEncodeCtx), InputBuffersFail)
      PROVE  r \in States(F) /\ r.dropped = s.dropped
  <2>1. PICK p \in Then(Opened(s, w, h), InitializeEncodeCtx) :
          r \in (IF p.crashed THEN {p} ELSE InputBuffersFail(p))
    BY <1>5 DEF Then
  <2>2. PICK q \in Opened(s, w, h) : p \in (IF q.crashed THEN {q} ELSE InitializeEncodeCtx(q))
    BY <2>1 DEF Then
  <2>3. Begins(s, q) /\ q \in States(F) /\ ~q.crashed /\ q.session \in Sessions
    BY <2>2, OpenedBegins
  <2>4. p \in InitializeEncodeCtx(q)
    BY <2>2, <2>3
  <2>5. /\ p \in States(F) /\ p.crashed = q.crashed
        /\ SameSession(q, p) /\ p.session # Null /\ p.count \in Nat
    BY <2>3, <2>4, InitializeEncodeCtxKeeps
  <2>6. p.dropped = s.dropped
    BY <2>3, <2>4, InitializeEncodeCtxBegins DEF Begins
  <2>7. p.session \in Sessions
    BY <2>5, StateParts DEF SameSession, NvStates
  <2>8. r \in InputBuffersFail(p)
    BY <2>1, <2>3, <2>5
  <2>9. CASE r = p
    BY <2>5, <2>6, <2>9
  <2>10. CASE \E n \in 0..p.count : r = Allocate(p, n)
    <3>1. PICK n \in Nat : r = Allocate(p, n)
      BY <2>5, <2>10
    <3>2. r \in States(F) /\ r.dropped = p.dropped
      BY <2>5, <2>7, <3>1, AllocateKeeps, AllocateBegins
    <3> QED
      BY <2>6, <3>2
  <2> QED
    BY <2>8, <2>9, <2>10 DEF InputBuffersFail
<1> DEFINE A == Then(Opened(s, w, h), EncodeCtxFails)
           B == Then(Then(Opened(s, w, h), InitializeEncodeCtx), InputBuffersFail)
<1>6. t \in (CudaNotReady(s) \cup CudaReady(s))
            \cup {[r EXCEPT !.lost = @ \cup {r.session.id}] : r \in A \cup B}
  BY DEF SetUpFails
<1>7. \A r \in A \cup B : r \in States(F) /\ r.dropped = s.dropped
  BY <1>4, <1>5
<1> HIDE DEF A, B
<1> QED
  BY <1>2, <1>3, <1>6, <1>7
-----------------------------------------------------------------------------
(* The frames that wait in the driver. *)

(* They were submitted with the configuration of the session, and the picture
   of one that was asked to be a key frame is one. *)
HeldFits(subs, s) ==
  s.count > 0 =>
    \A n \in (s.recv + 1)..Sent(s) :
      LET f == subs[s.accepted[n]]
      IN /\ f.w = s.session.w /\ f.h = s.session.h /\ f.params = s.session.params
         /\ f.forced = TRUE => s.slots[Slot(s, n)].key = TRUE

(* As long as a session gave no packet out, the next it gives is a key frame. *)
FirstKey(s) ==
  s.count > 0 /\ s.session.started = FALSE =>
    IF s.recv = Sent(s)
    THEN s.session.fresh = TRUE
    ELSE s.slots[Slot(s, s.recv + 1)].key = TRUE

LEMMA CaughtFits ==
  ASSUME NEW subs, NEW s, Sent(s) \in Nat, s.recv = Sent(s)
  PROVE  HeldFits(subs, s)
BY DEF HeldFits

LEMMA HeldFitsGrows ==
  ASSUME NEW subs, NEW news, Grows(subs, news), NEW s \in States(FramesOf(subs)),
         HeldFits(subs, s)
  PROVE  HeldFits(news, s)
<1>1. \A n \in (s.recv + 1)..Sent(s) : s.accepted[n] \in FramesOf(subs)
  <2> TAKE n \in (s.recv + 1)..Sent(s)
  <2>1. s.accepted \in Seq(FramesOf(subs)) /\ s.recv \in 0..Sent(s) /\ Sent(s) \in Nat
    BY StateParts
  <2>2. n \in 1..Len(s.accepted)
    BY <2>1 DEF Sent
  <2> QED
    BY <2>1, <2>2, ElementOfSeq
<1>2. \A n \in (s.recv + 1)..Sent(s) : news[s.accepted[n]] = subs[s.accepted[n]]
  BY <1>1 DEF Grows
<1> QED
  BY <1>2 DEF HeldFits

LEMMA AcceptMore ==
  ASSUME NEW F, NEW s \in States(F), s.session # Null, s.count > 0, NEW key \in BOOLEAN,
         NEW t, t = Accept(s, key)
  PROVE  /\ t.session.started = s.session.started /\ t.session.eos = s.session.eos
         /\ t.dropped = s.dropped
         /\ t.slots[Slot(s, Sent(s) + 1)].key = key
<1>1. /\ s \in NvStates(F) /\ Sent(s) \in Nat /\ s.count \in 0..Len(s.slots)
      /\ s.slots \in Seq(Contents(F)) /\ Len(s.slots) \in Nat
  BY StateParts, LenProperties
<1>2. s.session \in Sessions
  BY <1>1 DEF NvStates
<1>3. PICK v, k, picture, ring, sent :
        /\ v = [s.session EXCEPT !.fresh = FALSE]
        /\ k = Slot(s, Sent(s) + 1)
        /\ picture = [frame |-> NextFrame, key |-> key]
        /\ ring = [s.slots EXCEPT ![k] = picture]
        /\ sent = Append(s.accepted, NextFrame)
  OBVIOUS
<1>4. t = [s EXCEPT !.accepted = sent, !.slots = ring, !.session = v]
  BY <1>1, <1>3 DEF Accept, NvStates
<1>5. t.session = v /\ t.slots = ring /\ t.dropped = s.dropped
  BY <1>1, <1>4 DEF NvStates
<1>6. v.started = s.session.started /\ v.eos = s.session.eos
  BY <1>2, <1>3 DEF Sessions
<1>7. k \in DOMAIN s.slots
  <2>1. k \in 1..s.count
    <3>1. s.count \in Nat /\ Sent(s) + 1 \in Nat \ {0}
      BY <1>1
    <3>2. Slot(s, Sent(s) + 1) \in 1..s.count
      BY <3>1, SlotInRing
    <3> QED
      BY <1>3, <3>2
  <2>2. DOMAIN s.slots = 1..Len(s.slots)
    BY <1>1, LenProperties
  <2> QED
    BY <1>1, <2>1, <2>2
<1>8. ring[k] = picture /\ picture.key = key
  BY <1>3, <1>7
<1> QED
  BY <1>3, <1>5, <1>6, <1>8

(* The frame that Encode was called with. *)
FrameGiven(news, w, h) ==
  /\ news[NextFrame].w = w /\ news[NextFrame].h = h
  /\ news[NextFrame].params = params /\ news[NextFrame].forced = forceIFrame

LEMMA SubmitGives ==
  ASSUME BaseTypes, NEW w \in Lengths, NEW h \in Lengths, Submit(w, h)
  PROVE  FrameGiven(submitted', w, h)
<1>1. PICK r : r = [w |-> w, h |-> h, params |-> params,
                    forced |-> forceIFrame, toHandler |-> handlerSet]
  OBVIOUS
<1>2. submitted' = Append(submitted, r) /\ submitted \in Seq(Submissions) /\ r \in Submissions
  BY <1>1 DEF Submit, BaseTypes, Submissions
<1>3. submitted'[Len(submitted) + 1] = r
  BY <1>2, AppendProperties
<1> QED
  BY <1>1, <1>3 DEF FrameGiven, NextFrame

LEMMA AcceptHolds ==
  ASSUME NEW subs, NEW news, Grows(subs, news), NextFrame = Len(subs) + 1,
         NEW s \in States(FramesOf(subs)), s.session # Null, s.count > 0,
         FrameGiven(news, s.session.w, s.session.h), s.session.params = params,
         forceIFrame \in BOOLEAN,
         ~s.receiveFailed, RingFits(subs, s), HeldFits(subs, s), FirstKey(s),
         NEW key \in BOOLEAN, s.session.fresh = TRUE \/ forceIFrame = TRUE => key = TRUE,
         NEW t, t = Accept(s, key), Accepted(s, t)
  PROVE  HeldFits(news, t) /\ FirstKey(t)
<1>1. /\ s.recv \in 0..Sent(s) /\ Sent(s) \in Nat /\ s.count \in Nat
      /\ s.accepted \in Seq(FramesOf(subs)) /\ Len(s.accepted) = Sent(s)
  BY StateParts DEF Sent
<1>2. PICK k : k = Slot(s, Sent(s) + 1)
  OBVIOUS
<1>3. /\ t.session.started = s.session.started /\ t.slots[k].key = key
      /\ t.recv = s.recv /\ t.count = s.count /\ Sent(t) = Sent(s) + 1
      /\ t.accepted = Append(s.accepted, NextFrame)
      /\ t.session.w = s.session.w /\ t.session.h = s.session.h
      /\ t.session.params = s.session.params
      /\ \A i \in 1..s.count : i # k => t.slots[i] = s.slots[i]
  BY <1>2, AcceptMore DEF Accepted, SameSession
<1>4. \A n : Slot(t, n) = Slot(s, n)
  BY <1>3 DEF Slot
<1>5. Sent(s) - s.recv < s.count
  BY DEF RingFits
<1>6. ASSUME NEW n \in (s.recv + 1)..Sent(s)
      PROVE  t.slots[Slot(t, n)] = s.slots[Slot(s, n)]
  <2>1. /\ n \in Nat \ {0} /\ Sent(s) + 1 \in Nat \ {0}
        /\ n < Sent(s) + 1 /\ (Sent(s) + 1) - n < s.count
    BY <1>1, <1>5
  <2>2. Slot(s, n) # k /\ Slot(s, n) \in 1..s.count
    BY <1>1, <1>2, <2>1, SlotsDiffer, SlotInRing
  <2> QED
    BY <1>3, <1>4, <2>2
<1>7. HeldFits(news, t)
  <2> SUFFICES ASSUME NEW n \in (t.recv + 1)..Sent(t)
               PROVE  /\ news[t.accepted[n]].w = t.session.w
                      /\ news[t.accepted[n]].h = t.session.h
                      /\ news[t.accepted[n]].params = t.session.params
                      /\ news[t.accepted[n]].forced = TRUE => t.slots[Slot(t, n)].key = TRUE
    BY DEF HeldFits
  <2>1. CASE n \in (s.recv + 1)..Sent(s)
    <3>1. n \in 1..Len(s.accepted)
      BY <1>1, <2>1
    <3>2. PICK f : f = s.accepted[n]
      OBVIOUS
    <3>3. f \in FramesOf(subs) /\ t.accepted[n] = f
      <4>1. f \in FramesOf(subs)
        BY <1>1, <3>1, <3>2, ElementOfSeq
      <4>2. NextFrame \in FramesOf(news) /\ FramesOf(subs) \subseteq FramesOf(news)
        BY DEF Grows, FramesOf
      <4>3. s.accepted \in Seq(FramesOf(news))
        BY <1>1, <4>2, SeqMonotonic
      <4>4. t.accepted[n] = s.accepted[n]
        BY <1>3, <3>1, <4>2, <4>3, AppendProperties
      <4> QED
        BY <3>2, <4>1, <4>4
    <3>4. news[f] = subs[f]
      BY <3>3 DEF Grows
    <3>5. /\ subs[f].w = s.session.w /\ subs[f].h = s.session.h
          /\ subs[f].params = s.session.params
          /\ subs[f].forced = TRUE => s.slots[Slot(s, n)].key = TRUE
      BY <2>1, <3>2 DEF HeldFits
    <3> QED
      BY <1>3, <1>6, <2>1, <3>3, <3>4, <3>5
  <2>2. CASE n = Sent(s) + 1
    <3>1. t.accepted[n] = NextFrame
      <4>1. PICK F : F = FramesOf(subs) \cup {NextFrame}
        OBVIOUS
      <4>2. FramesOf(subs) \subseteq F /\ NextFrame \in F
        BY <4>1
      <4>3. s.accepted \in Seq(F)
        BY <1>1, <4>2, SeqMonotonic
      <4> QED
        BY <1>1, <1>3, <2>2, <4>2, <4>3, AppendProperties
    <3>2. t.slots[Slot(t, n)].key = key
      BY <1>2, <1>3, <1>4, <2>2
    <3> QED
      BY <1>3, <3>1, <3>2 DEF FrameGiven
  <2>3. n \in (s.recv + 1)..Sent(s) \/ n = Sent(s) + 1
    BY <1>1, <1>3
  <2> QED
    BY <2>1, <2>2, <2>3
<1>8. FirstKey(t)
  <2> SUFFICES ASSUME s.session.started = FALSE
               PROVE  t.slots[Slot(t, s.recv + 1)].key = TRUE
    <3>1. t.recv # Sent(t)
      BY <1>1, <1>3
    <3> QED
      BY <1>3, <3>1 DEF FirstKey
  <2>1. CASE s.recv = Sent(s)
    <3>1. s.session.fresh = TRUE
      BY <2>1 DEF FirstKey
    <3> QED
      BY <1>2, <1>3, <1>4, <2>1, <3>1
  <2>2. CASE s.recv # Sent(s)
    <3>1. s.slots[Slot(s, s.recv + 1)].key = TRUE
      BY <2>2 DEF FirstKey
    <3>2. PICK n \in (s.recv + 1)..Sent(s) : n = s.recv + 1
      BY <1>1, <2>2
    <3> QED
      BY <1>6, <3>1, <3>2
  <2> QED
    BY <2>1, <2>2
<1> QED
  BY <1>7, <1>8
-----------------------------------------------------------------------------
(* EncodeInternal is that of the contract. *)

AbsCtx(s) ==
  [w |-> s.session.w, h |-> s.session.h, params |-> s.session.params,
   held |-> SubSeq(s.accepted, s.recv + 1, Sent(s)),
   started |-> s.session.started, eos |-> s.session.eos]

IsContext(H, r) ==
  r \in [w : Lengths, h : Lengths, params : Params, held : H,
         started : BOOLEAN, eos : BOOLEAN]

Changes(r, held, started) ==
  [r EXCEPT !.held = held, !.started = started] =
    [w |-> r.w, h |-> r.h, params |-> r.params,
     held |-> held, started |-> started, eos |-> r.eos]

LEMMA ContextChanges ==
  ASSUME NEW H, NEW r, IsContext(H, r), NEW held \in H, NEW started \in BOOLEAN
  PROVE  Changes(r, held, started)
<1>1. PICK q : q = [w |-> r.w, h |-> r.h, params |-> r.params,
                    held |-> held, started |-> started, eos |-> r.eos]
  OBVIOUS
<1>2. /\ q \in [w : Lengths, h : Lengths, params : Params, held : H,
                started : BOOLEAN, eos : BOOLEAN]
      /\ q.w = r.w /\ q.h = r.h /\ q.params = r.params
      /\ q.held = held /\ q.started = started /\ q.eos = r.eos
  BY <1>1 DEF IsContext
<1>3. [r EXCEPT !.held = held, !.started = started] = q
  BY <1>2 DEF IsContext
<1> QED
  BY <1>1, <1>3 DEF Changes

LEMMA HeldParts ==
  ASSUME NEW F, NEW s \in States(F)
  PROVE  /\ AbsCtx(s).held \in Seq(F)
         /\ Len(AbsCtx(s).held) = Sent(s) - s.recv
         /\ \A i \in 1..(Sent(s) - s.recv) : AbsCtx(s).held[i] = s.accepted[s.recv + i]
<1>1. s.accepted \in Seq(F) /\ Sent(s) \in Nat /\ s.recv \in 0..Sent(s) /\ s.recv \in Nat
  BY StateParts
<1>2. PICK m, n : m = s.recv + 1 /\ n = Sent(s)
  OBVIOUS
<1>3. m \in Int /\ n \in Int /\ (\A i \in m..n : s.accepted[i] \in F)
  <2>1. \A i \in m..n : i \in 1..Len(s.accepted)
    BY <1>1, <1>2 DEF Sent
  <2> QED
    BY <1>1, <1>2, <2>1, ElementOfSeq
<1>4. /\ SubSeq(s.accepted, m, n) \in Seq(F)
      /\ Len(SubSeq(s.accepted, m, n)) = (IF m <= n THEN n - m + 1 ELSE 0)
      /\ \A i \in 1..(n - m + 1) : SubSeq(s.accepted, m, n)[i] = s.accepted[m + i - 1]
  BY <1>3, SubSeqProperties
<1>5. AbsCtx(s).held = SubSeq(s.accepted, m, n)
  BY <1>2 DEF AbsCtx
<1>6. Len(AbsCtx(s).held) = Sent(s) - s.recv
  BY <1>1, <1>2, <1>4, <1>5
<1>7. \A i \in 1..(Sent(s) - s.recv) : AbsCtx(s).held[i] = s.accepted[s.recv + i]
  <2> TAKE i \in 1..(Sent(s) - s.recv)
  <2>1. i \in 1..(n - m + 1) /\ m + i - 1 = s.recv + i
    BY <1>1, <1>2
  <2> QED
    BY <1>4, <1>5, <2>1
<1> QED
  BY <1>4, <1>5, <1>6, <1>7

(* One more frame waits. *)
LEMMA OneMoreWaits ==
  ASSUME NEW F, NEW s \in States(F), NEW t \in States(F), NextFrame \in F,
         t.accepted = Append(s.accepted, NextFrame), t.recv = s.recv
  PROVE  /\ AbsCtx(t).held = Append(AbsCtx(s).held, NextFrame)
         /\ Sent(t) = Sent(s) + 1
<1>1. /\ s.accepted \in Seq(F) /\ Sent(s) \in Nat /\ s.recv \in 0..Sent(s) /\ s.recv \in Nat
  BY StateParts
<1>2. /\ Sent(t) = Sent(s) + 1
      /\ \A i \in 1..Sent(s) : t.accepted[i] = s.accepted[i]
      /\ t.accepted[Sent(s) + 1] = NextFrame
  BY <1>1, AppendProperties DEF Sent
<1>3. PICK c, d, u : /\ c = AbsCtx(s).held /\ d = AbsCtx(t).held
                     /\ u = Append(c, NextFrame)
  OBVIOUS
<1>4. PICK k : k = Sent(s) - s.recv
  OBVIOUS
<1>5. /\ c \in Seq(F) /\ Len(c) = k /\ k \in Nat
      /\ \A i \in 1..k : c[i] = s.accepted[s.recv + i]
  <2>1. k \in Nat
    BY <1>1, <1>4
  <2> QED
    BY <1>3, <1>4, <2>1, HeldParts
<1>6. /\ d \in Seq(F) /\ Len(d) = k + 1
      /\ \A i \in 1..(k + 1) : d[i] = t.accepted[s.recv + i]
  <2>1. Sent(t) - t.recv = k + 1
    BY <1>1, <1>2, <1>4
  <2>2. /\ d \in Seq(F) /\ Len(d) = Sent(t) - t.recv
        /\ \A i \in 1..(Sent(t) - t.recv) : d[i] = t.accepted[t.recv + i]
    BY <1>3, HeldParts
  <2> QED
    BY <2>1, <2>2
<1>7. /\ u \in Seq(F) /\ Len(u) = k + 1
      /\ \A i \in 1..k : u[i] = c[i]
      /\ u[k + 1] = NextFrame
  BY <1>3, <1>5, AppendProperties
<1>8. \A i \in 1..(k + 1) : d[i] = u[i]
  <2> TAKE i \in 1..(k + 1)
  <2>1. CASE i \in 1..k
    <3>1. s.recv + i \in 1..Sent(s)
      BY <1>1, <1>4, <2>1
    <3> QED
      BY <1>2, <1>5, <1>6, <1>7, <2>1, <3>1
  <2>2. CASE i = k + 1
    <3>1. s.recv + i = Sent(s) + 1
      BY <1>1, <1>4, <2>2
    <3> QED
      BY <1>2, <1>6, <1>7, <2>2, <3>1
  <2> QED
    BY <1>5, <2>1, <2>2
<1>9. d = u
  BY <1>6, <1>7, <1>8, SeqEqual
<1> QED
  BY <1>2, <1>3, <1>9

(* What EncodeAccepted makes of the packets it received. *)
Came(s, o) == [AfterReceive(s, o) EXCEPT !.session.started = @ \/ o.upTo > s.recv]
Coming(s, o) == [i \in 1..(o.upTo - s.recv) |-> Packet(s, s.recv + i)]

LEMMA ReceivedState ==
  ASSUME NEW F, NEW s \in States(F), s.session # Null, NEW o \in Received(s),
         NEW t, t = Came(s, o)
  PROVE  /\ t.recv = o.recv /\ t.accepted = s.accepted /\ t.slots = s.slots
         /\ t.count = s.count /\ t.dropped = s.dropped
         /\ t.session.w = s.session.w /\ t.session.h = s.session.h
         /\ t.session.params = s.session.params /\ t.session.eos = s.session.eos
         /\ t.session.started = (s.session.started \/ o.upTo > s.recv)
         /\ ~t.receiveFailed => o.recv = Sent(s) /\ o.upTo = Sent(s)
<1>1. s \in NvStates(F) /\ s.session \in Sessions /\ Sent(s) \in Nat /\ s.recv \in Nat
  BY StateParts DEF NvStates
<1>2. /\ o.upTo \in s.recv..Sent(s) /\ o.recv \in s.recv..Sent(s)
      /\ o.recv < Sent(s) => s.receiveFailed \/ s.faults < MaxFaults
  BY ReceivedParts
<1>3. o.recv = o.upTo \/ o.recv = o.upTo - 1
  BY DEF Received
<1>4. PICK r : r = AfterReceive(s, o)
  OBVIOUS
<1>5. /\ r \in States(F) /\ Holding(s, r) /\ r.session = s.session
      /\ r.count = s.count /\ r.dropped = s.dropped /\ r.recv = o.recv
  BY <1>2, <1>4, AfterReceiveKeeps
<1>6. r.receiveFailed = (s.receiveFailed \/ ~(o.recv = Sent(s)))
  BY <1>1, <1>4 DEF AfterReceive, NvStates
<1>7. r \in NvStates(F) /\ r.accepted = s.accepted /\ r.slots = s.slots
  BY <1>5, StateParts DEF Holding
<1>8. PICK b : b = (s.session.started \/ o.upTo > s.recv)
  OBVIOUS
<1>9. PICK v : v = [s.session EXCEPT !.started = b]
  OBVIOUS
<1>10. t = [r EXCEPT !.session = v]
  BY <1>4, <1>5, <1>7, <1>8, <1>9 DEF Came, NvStates
<1>11. /\ t.session = v /\ t.recv = r.recv /\ t.accepted = r.accepted /\ t.slots = r.slots
       /\ t.count = r.count /\ t.dropped = r.dropped /\ t.receiveFailed = r.receiveFailed
  BY <1>7, <1>10 DEF NvStates
<1>12. /\ v.w = s.session.w /\ v.h = s.session.h /\ v.params = s.session.params
       /\ v.eos = s.session.eos /\ v.started = b
  BY <1>1, <1>9 DEF Sessions
<1>13. ~t.receiveFailed => o.recv = Sent(s) /\ o.upTo = Sent(s)
  <2>1. ~t.receiveFailed => o.recv = Sent(s)
    BY <1>6, <1>11
  <2>2. o.recv = Sent(s) => o.upTo = Sent(s)
    BY <1>1, <1>2, <1>3
  <2> QED
    BY <2>1, <2>2
<1> QED
  BY <1>5, <1>7, <1>8, <1>11, <1>12, <1>13

LEMMA ExactCoded ==
  ASSUME NEW length, NEW p
  PROVE  Exact(Coded(length, p), length, p) = length
BY DEF Exact

LEMMA PacketIsAbstract ==
  ASSUME NEW news, NEW s, NEW n,
         news[s.accepted[n]].w = s.session.w, news[s.accepted[n]].h = s.session.h
  PROVE  Abs(news, Packet(s, n)) =
           [frame |-> s.accepted[n], w |-> s.session.w, h |-> s.session.h,
            params |-> s.session.params, key |-> s.slots[Slot(s, n)].key]
<1>1. PICK p : p = Packet(s, n)
  OBVIOUS
<1>2. PICK cw, ch : /\ cw = Coded(s.session.w, s.session.params)
                    /\ ch = Coded(s.session.h, s.session.params)
  OBVIOUS
<1>3. /\ p.frame = s.accepted[n] /\ p.w = cw /\ p.h = ch /\ p.params = s.session.params
      /\ p.key = s.slots[Slot(s, n)].key
  BY <1>1, <1>2 DEF Packet
<1>4. /\ Exact(cw, s.session.w, s.session.params) = s.session.w
      /\ Exact(ch, s.session.h, s.session.params) = s.session.h
  BY <1>2, ExactCoded
<1> QED
  BY <1>1, <1>3, <1>4 DEF Abs

(* The packets that came out, as the contract sees them. *)
PacketsOut(c, waiting, k, keys) ==
  [i \in 1..k |-> [frame |-> waiting[i], w |-> c.w, h |-> c.h, params |-> c.params,
                   key |-> keys[i]]]

GivesOut(H, c, waiting, k, keys, status, ps) ==
  /\ IsContext(H, c) /\ width' = c.w /\ height' = c.h
  /\ waiting = Append(c.held, NextFrame)
  /\ k \in 0..Len(waiting) /\ status \in {"Success", "Error"} /\ keys \in [1..k -> BOOLEAN]
  /\ \A i \in 1..k : submitted'[waiting[i]].forced \/ (i = 1 /\ ~c.started) => keys[i]
  /\ ps = PacketsOut(c, waiting, k, keys)
  /\ Contract!ReportResult(status, ps) /\ UNCHANGED failed

Leaves(H, c, waiting, k, held, started) ==
  /\ held \in H /\ held = SubSeq(waiting, k + 1, Len(waiting))
  /\ started \in BOOLEAN /\ started = (c.started \/ k > 0)
  /\ AbstractContext' = [w |-> c.w, h |-> c.h, params |-> c.params,
                         held |-> held, started |-> started, eos |-> c.eos]

LEMMA TakesIn ==
  ASSUME NEW H, NEW c, NEW waiting, NEW k, NEW keys, NEW status, NEW ps, NEW held, NEW started,
         GivesOut(H, c, waiting, k, keys, status, ps), Leaves(H, c, waiting, k, held, started)
  PROVE  Contract!EncodeInternal(c)
<1> DEFINE W == Append(c.held, Contract!NextFrame)
<1>1. waiting = W
  BY DEF Contract!NextFrame, NextFrame, GivesOut
<1>2. Changes(c, held, started)
  <2>1. held \in H /\ started \in BOOLEAN /\ IsContext(H, c)
    BY DEF GivesOut, Leaves
  <2> QED
    BY <2>1, ContextChanges
<1>3. [c EXCEPT !.held = held, !.started = started] = AbstractContext'
  BY <1>2 DEF Changes, Leaves
<1>4. AbstractContext' = [c EXCEPT !.held = SubSeq(W, k + 1, Len(W)), !.started = @ \/ k > 0]
  <2>1. [c EXCEPT !.held = held, !.started = @ \/ k > 0] =
          [c EXCEPT !.held = held, !.started = started]
    <3>1. started = (c.started \/ k > 0)
      BY DEF Leaves
    <3> QED
      BY <3>1
  <2> HIDE DEF W
  <2>2. held = SubSeq(W, k + 1, Len(W))
    BY <1>1 DEF Leaves
  <2> QED
    BY <1>3, <2>1, <2>2
<1>5. ps = [i \in 1..k |-> Contract!Packet(c, W[i], keys[i])]
  <2> HIDE DEF W
  <2> QED
    BY <1>1 DEF GivesOut, PacketsOut, Contract!Packet
<1>6. Contract!ReportResult(status, [i \in 1..k |-> Contract!Packet(c, W[i], keys[i])])
  BY <1>5 DEF GivesOut
<1>7. \A i \in 1..k : submitted'[W[i]].forced \/ (i = 1 /\ ~c.started) => keys[i]
  BY <1>1 DEF GivesOut
<1>8. k \in 0..Len(W) /\ UNCHANGED failed
  BY <1>1 DEF GivesOut
<1>9. status \in {"Success", "Error"} /\ keys \in [1..k -> BOOLEAN]
  BY DEF GivesOut
<1>10. Contract!EncodeTakesIn(c)
  BY <1>4, <1>6, <1>7, <1>8, <1>9 DEF Contract!EncodeTakesIn
<1> QED
  BY <1>10 DEF Contract!EncodeInternal

LEMMA ContextType ==
  ASSUME NEW F, NEW s \in States(F), s.session # Null
  PROVE  IsContext(Seq(F), AbsCtx(s))
<1>1. s.session \in Sessions
  BY StateParts DEF NvStates
<1>2. AbsCtx(s).held \in Seq(F)
  BY HeldParts
<1> QED
  BY <1>1, <1>2 DEF AbsCtx, Sessions, IsContext

LEMMA NowTheContext ==
  ASSUME initialized' = TRUE
  PROVE  AbstractContext' = AbsCtx(nv')
BY DEF AbstractContext, AbsCtx

(* The frame is sent in session s, and then the state is a. *)
Sends(F, s, a) ==
  /\ s \in States(F) /\ a \in States(F) /\ NextFrame \in F
  /\ s.session # Null /\ a.session # Null
  /\ a.accepted = Append(s.accepted, NextFrame) /\ a.recv = s.recv
  /\ a.session.w = s.session.w /\ a.session.h = s.session.h
  /\ a.session.params = s.session.params
  /\ a.session.started = s.session.started /\ a.session.eos = s.session.eos

(* The driver asks for more input. *)
LEMMA NoPacketRefines ==
  ASSUME NEW F, NEW s, NEW a, Sends(F, s, a), nv' = a, initialized' = TRUE,
         width' = s.session.w, height' = s.session.h,
         NEW P, Steady(P), ReportResult("Error", <<>>), UNCHANGED failed
  PROVE  Contract!EncodeInternal(AbsCtx(s))
<1>1. PICK c, H : c = AbsCtx(s) /\ H = Seq(F)
  OBVIOUS
<1>2. IsContext(H, c)
  BY <1>1, ContextType DEF Sends
<1>3. PICK waiting : waiting = Append(c.held, NextFrame)
  OBVIOUS
<1>4. AbsCtx(a).held = waiting /\ waiting \in H
  BY <1>1, <1>3, OneMoreWaits, HeldParts DEF Sends
<1>5. Len(waiting) \in Nat /\ SubSeq(waiting, 1, Len(waiting)) = waiting
  BY <1>1, <1>4, LenProperties, SubSeqFull
<1>6. PICK k, keys, ps : /\ k = 0 /\ keys = [i \in 1..k |-> TRUE]
                         /\ ps = PacketsOut(c, waiting, k, keys)
  OBVIOUS
<1>7. ps = <<>>
  <2>1. 1..k = {}
    BY <1>6
  <2>2. ps \in [1..0 -> {}]
    BY <1>6, <2>1 DEF PacketsOut
  <2>3. ps \in Seq({}) /\ Len(ps) = 0
    BY <2>2, SeqDef, LenProperties
  <2> QED
    BY <2>3, EmptySeq
<1>8. Contract!ReportResult("Error", ps)
  <2>1. PICK none : none = <<>>
    OBVIOUS
  <2>2. none \in Seq(P) /\ ps = Mapped(submitted', none)
    BY <1>7, <2>1, EmptySeq, MappedEmpty
  <2>3. ReportResult("Error", none)
    BY <2>1
  <2> QED
    BY <2>2, <2>3, ReportRefines
<1>9. /\ k \in 0..Len(waiting) /\ keys \in [1..k -> BOOLEAN] /\ "Error" \in {"Success", "Error"}
      /\ \A i \in 1..k : submitted'[waiting[i]].forced \/ (i = 1 /\ ~c.started) => keys[i]
  BY <1>5, <1>6
<1>10. PICK held, started : held = waiting /\ started = c.started
  OBVIOUS
<1>11. /\ held = SubSeq(waiting, k + 1, Len(waiting)) /\ held \in H
       /\ started \in BOOLEAN /\ started = (c.started \/ k > 0)
  <2>1. started \in BOOLEAN
    BY <1>2, <1>10 DEF IsContext
  <2>2. ~(k > 0) /\ k + 1 = 1
    BY <1>6
  <2>3. started = (c.started \/ k > 0)
    BY <1>10, <2>1, <2>2
  <2> QED
    BY <1>4, <1>5, <1>10, <2>1, <2>2, <2>3
<1>12. AbstractContext' = [w |-> c.w, h |-> c.h, params |-> c.params,
                           held |-> held, started |-> started, eos |-> c.eos]
  <2>1. AbstractContext' = AbsCtx(a)
    BY NowTheContext
  <2>2. AbsCtx(a) = [w |-> c.w, h |-> c.h, params |-> c.params,
                     held |-> AbsCtx(a).held, started |-> c.started, eos |-> c.eos]
    BY <1>1 DEF Sends, AbsCtx
  <2> QED
    BY <1>4, <1>10, <2>1, <2>2
<1>13. width' = c.w /\ height' = c.h
  BY <1>1 DEF AbsCtx
<1>14. Contract!EncodeInternal(c)
  <2>1. GivesOut(H, c, waiting, k, keys, "Error", ps)
    BY <1>2, <1>3, <1>6, <1>8, <1>9, <1>13 DEF GivesOut
  <2>2. Leaves(H, c, waiting, k, held, started)
    BY <1>11, <1>12 DEF Leaves
  <2> QED
    BY <2>1, <2>2, TakesIn
<1> QED
  BY <1>1, <1>14

(* The pictures of the frames that wait were coded. *)
LEMMA KeysKnown ==
  ASSUME NEW F, NEW a \in States(F), a.count > 0, NEW o \in Received(a), o.upTo = Sent(a),
         NEW n \in (a.recv + 1)..Sent(a)
  PROVE  /\ a.slots[Slot(a, n)] \notin NoPicture
         /\ a.slots[Slot(a, n)].key \in BOOLEAN
<1>1. /\ a.recv \in Nat /\ Sent(a) \in Nat /\ a.slots \in Seq(Contents(F))
      /\ a.count \in 0..Len(a.slots) /\ Len(a.slots) \in Nat
  BY StateParts, LenProperties
<1>2. PICK p : p = a.slots[Slot(a, n)]
  OBVIOUS
<1>3. p \notin NoPicture
  BY <1>2, ReceivedParts
<1>4. n \in Nat \ {0} /\ a.count \in Nat
  BY <1>1
<1>5. Slot(a, n) \in 1..a.count
  BY <1>4, SlotInRing
<1>6. Slot(a, n) \in 1..Len(a.slots)
  BY <1>1, <1>5
<1>7. p \in Contents(F)
  BY <1>1, <1>2, <1>6, ElementOfSeq
<1>8. p \in [frame : F, key : BOOLEAN]
  BY <1>3, <1>7 DEF Contents
<1> QED
  BY <1>2, <1>3, <1>8

(* Every packet that waits comes out. *)
LEMMA PacketsRefine ==
  ASSUME NEW news, news = submitted', NEW F, F = FramesOf(news),
         NEW s, NEW a, Sends(F, s, a), a.count > 0, ~a.receiveFailed,
         SizedSlots(news, a), OrderedSlots(a), HeldFits(news, a), FirstKey(a),
         NEW o \in Received(a),
         NEW t, nv' = t,
         t = Came(a, o),
         NEW status \in {"Success", "Error"}, NEW packets,
         packets = Coming(a, o),
         ReportResult(status, packets), ~t.receiveFailed, UNCHANGED failed,
         initialized' = TRUE, width' = s.session.w, height' = s.session.h,
         NEW P, P = Good(news, t.receiveFailed), Steady(P)
  PROVE  Contract!EncodeInternal(AbsCtx(s)) /\ t.recv = Sent(t) /\ t.session.started = TRUE
<1>1. PICK c, H : c = AbsCtx(s) /\ H = Seq(F)
  OBVIOUS
<1>2. /\ s \in States(F) /\ a \in States(F) /\ NextFrame \in F
      /\ s.session # Null /\ a.session # Null
      /\ a.accepted = Append(s.accepted, NextFrame) /\ a.recv = s.recv
      /\ a.session.w = s.session.w /\ a.session.h = s.session.h
      /\ a.session.params = s.session.params
      /\ a.session.started = s.session.started /\ a.session.eos = s.session.eos
  BY DEF Sends
<1>3. IsContext(H, c)
  BY <1>1, <1>2, ContextType
<1>4. PICK waiting : waiting = Append(c.held, NextFrame)
  OBVIOUS
<1>5. AbsCtx(a).held = waiting /\ waiting \in H /\ Sent(a) = Sent(s) + 1
  BY <1>1, <1>2, <1>4, OneMoreWaits, HeldParts
<1>6. /\ a.recv \in Nat /\ Sent(a) \in Nat /\ Sent(s) \in Nat /\ a.recv \in 0..Sent(s)
  BY <1>2, StateParts
<1>7. PICK k : k = Sent(a) - a.recv
  OBVIOUS
<1>8. k \in Nat /\ k > 0
  BY <1>5, <1>6, <1>7
<1>9. Len(waiting) = k /\ \A i \in 1..k : waiting[i] = a.accepted[a.recv + i]
  BY <1>2, <1>5, <1>7, HeldParts
<1>10. /\ t.recv = o.recv /\ t.accepted = a.accepted
       /\ t.session.w = a.session.w /\ t.session.h = a.session.h
       /\ t.session.params = a.session.params /\ t.session.eos = a.session.eos
       /\ t.session.started = (a.session.started \/ o.upTo > a.recv)
       /\ o.recv = Sent(a) /\ o.upTo = Sent(a)
  <2>1. a \in States(F) /\ a.session # Null
    BY <1>2
  <2>2. /\ t.recv = o.recv /\ t.accepted = a.accepted
        /\ t.session.w = a.session.w /\ t.session.h = a.session.h
        /\ t.session.params = a.session.params /\ t.session.eos = a.session.eos
        /\ t.session.started = (a.session.started \/ o.upTo > a.recv)
        /\ ~t.receiveFailed => o.recv = Sent(a) /\ o.upTo = Sent(a)
    BY <2>1, ReceivedState
  <2> QED
    BY <2>2
<1>11. t.session.started = TRUE /\ t.recv = Sent(t)
  <2>1. o.upTo > a.recv
    BY <1>6, <1>7, <1>8, <1>10
  <2> QED
    BY <1>10, <2>1 DEF Sent
<1>12. PICK keys : keys = [i \in 1..k |-> a.slots[Slot(a, a.recv + i)].key]
  OBVIOUS
<1>13. \A i \in 1..k : a.recv + i \in (a.recv + 1)..Sent(a)
  BY <1>6, <1>7
<1>14. keys \in [1..k -> BOOLEAN]
  <2>1. \A i \in 1..k : a.slots[Slot(a, a.recv + i)].key \in BOOLEAN
    BY <1>2, <1>10, <1>13, KeysKnown
  <2> QED
    BY <1>12, <2>1
<1>15. packets = [i \in 1..k |-> Packet(a, a.recv + i)]
  BY <1>7, <1>10 DEF Coming
<1>16. packets \in Seq(P)
  <2>1. \A i \in 1..k : Packet(a, a.recv + i) \in P
    <3> TAKE i \in 1..k
    <3>1. PICK n \in (a.recv + 1)..Sent(a) : n = a.recv + i
      BY <1>13
    <3>2. a.slots[Slot(a, n)] \notin NoPicture
      BY <1>2, <1>10, KeysKnown
    <3>3. Packet(a, n) \in Good(news, t.receiveFailed)
      BY <1>2, <3>2, PacketIsGood
    <3> QED
      BY <3>1, <3>3
  <2>2. packets \in [1..k -> P]
    BY <1>15, <2>1
  <2> QED
    BY <1>8, <2>2, FunctionIsSeq
<1>17. PICK ps : ps = PacketsOut(c, waiting, k, keys)
  OBVIOUS
<1>18. ps = Mapped(news, packets)
  <2>1. \A i \in 1..k : Abs(news, Packet(a, a.recv + i)) =
          [frame |-> waiting[i], w |-> c.w, h |-> c.h, params |-> c.params, key |-> keys[i]]
    <3> TAKE i \in 1..k
    <3>1. PICK n \in (a.recv + 1)..Sent(a) : n = a.recv + i
      BY <1>13
    <3>2. news[a.accepted[n]].w = a.session.w /\ news[a.accepted[n]].h = a.session.h
      BY DEF HeldFits
    <3>3. Abs(news, Packet(a, n)) =
            [frame |-> a.accepted[n], w |-> a.session.w, h |-> a.session.h,
             params |-> a.session.params, key |-> a.slots[Slot(a, n)].key]
      BY <3>2, PacketIsAbstract
    <3>4. c.w = a.session.w /\ c.h = a.session.h /\ c.params = a.session.params
      BY <1>1, <1>2 DEF AbsCtx
    <3>5. waiting[i] = a.accepted[n] /\ keys[i] = a.slots[Slot(a, n)].key
      BY <1>9, <1>12, <3>1
    <3> QED
      BY <3>1, <3>3, <3>4, <3>5
  <2>2. DOMAIN packets = 1..k /\ \A i \in 1..k : packets[i] = Packet(a, a.recv + i)
    BY <1>15
  <2>3. Mapped(news, packets) =
          [i \in 1..k |-> [frame |-> waiting[i], w |-> c.w, h |-> c.h,
                           params |-> c.params, key |-> keys[i]]]
    BY <2>1, <2>2 DEF Mapped
  <2> QED
    BY <1>17, <2>3 DEF PacketsOut
<1>19. Contract!ReportResult(status, ps)
  <2>1. ps = Mapped(submitted', packets)
    BY <1>18
  <2> QED
    BY <1>16, <2>1, ReportRefines
<1>20. \A i \in 1..k : submitted'[waiting[i]].forced \/ (i = 1 /\ ~c.started) => keys[i]
  <2> TAKE i \in 1..k
  <2>1. PICK n \in (a.recv + 1)..Sent(a) : n = a.recv + i
    BY <1>13
  <2>2. waiting[i] = a.accepted[n] /\ keys[i] = a.slots[Slot(a, n)].key
    BY <1>9, <1>12, <2>1
  <2>3. ASSUME submitted'[waiting[i]].forced
        PROVE  keys[i]
    <3>1. news[a.accepted[n]].forced = TRUE => a.slots[Slot(a, n)].key = TRUE
      BY DEF HeldFits
    <3>2. news[waiting[i]].forced = TRUE
      <4>1. news[waiting[i]].forced
        BY <2>3
      <4> QED
        BY <4>1
    <3> QED
      BY <2>2, <3>1, <3>2
  <2>4. ASSUME i = 1, ~c.started
        PROVE  keys[i]
    <3>1. a.session.started = FALSE
      <4>1. c.started \in BOOLEAN /\ c.started = a.session.started
        BY <1>1, <1>2, <1>3 DEF AbsCtx, IsContext
      <4> QED
        BY <2>4, <4>1
    <3>2. a.recv # Sent(a)
      BY <1>7, <1>8, <1>6
    <3>3. a.slots[Slot(a, a.recv + 1)].key = TRUE
      BY <3>1, <3>2 DEF FirstKey
    <3> QED
      BY <2>1, <2>2, <2>4, <3>3
  <2> QED
    BY <2>3, <2>4
<1>21. PICK held, started : held = SubSeq(waiting, k + 1, Len(waiting)) /\ started = TRUE
  OBVIOUS
<1>22. held = <<>> /\ held \in H
  <2>1. k + 1 \in Int /\ k \in Int /\ k < k + 1
    BY <1>8
  <2>2. SubSeq(waiting, k + 1, k) = <<>>
    BY <2>1, SubSeqEmpty
  <2>3. held = <<>>
    BY <1>9, <1>21, <2>2
  <2> QED
    BY <1>1, <2>3, EmptySeq
<1>23. started \in BOOLEAN /\ started = (c.started \/ k > 0)
  BY <1>8, <1>21
<1>24. AbstractContext' = [w |-> c.w, h |-> c.h, params |-> c.params,
                           held |-> held, started |-> started, eos |-> c.eos]
  <2>1. AbstractContext' = AbsCtx(t)
    BY NowTheContext
  <2>2. SubSeq(t.accepted, t.recv + 1, Sent(t)) = <<>>
    <3>1. Sent(t) \in Nat
      BY <1>6, <1>10 DEF Sent
    <3> QED
      BY <1>11, <3>1, NothingLeft
  <2>3. AbsCtx(t).held = held
    BY <1>22, <2>2 DEF AbsCtx
  <2>4. AbsCtx(t) = [w |-> c.w, h |-> c.h, params |-> c.params,
                     held |-> AbsCtx(t).held, started |-> started, eos |-> c.eos]
    BY <1>1, <1>2, <1>10, <1>11, <1>21 DEF AbsCtx
  <2> QED
    BY <2>1, <2>3, <2>4
<1>25. width' = c.w /\ height' = c.h /\ k \in 0..Len(waiting)
  BY <1>1, <1>8, <1>9 DEF AbsCtx
<1>26. Contract!EncodeInternal(c)
  <2>1. held \in H /\ held = SubSeq(waiting, k + 1, Len(waiting))
    BY <1>21, <1>22
  <2> QED
    <3>1. GivesOut(H, c, waiting, k, keys, status, ps)
      BY <1>3, <1>4, <1>14, <1>17, <1>19, <1>20, <1>25 DEF GivesOut
    <3>2. Leaves(H, c, waiting, k, held, started)
      BY <1>23, <1>24, <2>1 DEF Leaves
    <3> QED
      BY <3>1, <3>2, TakesIn
<1> QED
  BY <1>1, <1>11, <1>26

(* The frame is refused. *)
LEMMA RefusalRefines ==
  ASSUME NEW s, nv' = s, initialized' = TRUE, failed' = failed \cup {NextFrame},
         NEW P, Steady(P), ReportResult("Error", <<>>)
  PROVE  Contract!EncodeInternal(AbsCtx(s))
<1>1. PICK none : none = <<>>
  OBVIOUS
<1>2. none \in Seq(P) /\ none = Mapped(submitted', none)
  BY <1>1, EmptySeq, MappedEmpty
<1>3. ReportResult("Error", none)
  BY <1>1
<1>4. Contract!ReportResult("Error", none)
  BY <1>2, <1>3, ReportRefines
<1>5. AbstractContext' = AbsCtx(s)
  BY NowTheContext
<1> QED
  BY <1>1, <1>4, <1>5
     DEF Contract!EncodeInternal, Contract!EncodeRefuses, Contract!NextFrame, NextFrame

(* What is known of a session before the frame is sent to it. *)
Holds(subs, s) ==
  /\ s \in States(FramesOf(subs)) /\ ~s.crashed /\ IsInitialized(s)
  /\ RingFits(subs, s) /\ HeldFits(subs, s) /\ FirstKey(s)

(* The frame is sent to the driver. *)
LEMMA AcceptSends ==
  ASSUME BaseTypes, NEW w \in Lengths, NEW h \in Lengths, Submit(w, h),
         NEW s, Holds(submitted, s), s.count > 0, ~s.receiveFailed,
         s.session.w = w, s.session.h = h, s.session.params = params,
         NEW key \in BOOLEAN, s.session.fresh \/ forceIFrame => key,
         NEW a, a = Accept(s, key), NEW news, news = submitted', NEW F, F = FramesOf(news)
  PROVE  /\ Sends(F, s, a) /\ a.count > 0 /\ ~a.receiveFailed /\ a.dropped = s.dropped
         /\ SizedSlots(news, a) /\ OrderedSlots(a) /\ HeldFits(news, a) /\ FirstKey(a)
<1>1. /\ s \in States(FramesOf(submitted)) /\ ~s.crashed /\ IsInitialized(s)
      /\ RingFits(submitted, s) /\ HeldFits(submitted, s) /\ FirstKey(s) /\ s.session # Null
  BY DEF Holds, IsInitialized
<1>2. /\ NextFrame = Len(submitted) + 1 /\ NextFrame \in F
      /\ FramesOf(submitted) \subseteq F /\ Grows(submitted, news)
  BY SubmitGrows
<1>3. \E k \in BOOLEAN : a = Accept(s, k)
  OBVIOUS
<1>4. /\ a \in States(FramesOf(submitted')) /\ Accepted(s, a)
      /\ SizedSlots(submitted', a) /\ OrderedSlots(a)
  BY <1>1, <1>3, AcceptedFits
<1>5. /\ a.session.started = s.session.started /\ a.session.eos = s.session.eos
      /\ a.dropped = s.dropped
  BY <1>1, AcceptMore
<1>6. s \in States(F)
  BY <1>1, <1>2, StatesGrow
<1>7. /\ a.count = s.count /\ a.recv = s.recv /\ a.receiveFailed = s.receiveFailed
      /\ a.accepted = Append(s.accepted, NextFrame) /\ a.session # Null
      /\ a.session.w = s.session.w /\ a.session.h = s.session.h
      /\ a.session.params = s.session.params
  BY <1>1, <1>4 DEF Accepted, SameSession
<1>8. HeldFits(news, a) /\ FirstKey(a)
  <2>1. FrameGiven(news, s.session.w, s.session.h)
    BY SubmitGives
  <2>2. forceIFrame \in BOOLEAN
    BY DEF BaseTypes
  <2>3. s.session \in Sessions
    BY <1>1, StateParts DEF NvStates
  <2>4. s.session.fresh = TRUE \/ forceIFrame = TRUE => key = TRUE
    BY <2>2, <2>3 DEF Sessions
  <2> QED
    BY <1>1, <1>2, <1>4, <2>1, <2>2, <2>4, AcceptHolds
<1>9. SizedSlots(news, a) /\ OrderedSlots(a) /\ a \in States(F)
  BY <1>4
<1>10. Sends(F, s, a)
  BY <1>1, <1>2, <1>5, <1>6, <1>7, <1>9 DEF Sends
<1>11. a.count > 0 /\ ~a.receiveFailed
  BY <1>7
<1> QED
  BY <1>5, <1>8, <1>9, <1>10, <1>11

(* What the contract sees of a frame, and what the session holds after it. *)
Refines(news, s, t) ==
  /\ Contract!EncodeInternal(AbsCtx(s))
  /\ HeldFits(news, t) /\ FirstKey(t) /\ t.dropped = s.dropped

LEMMA AcceptedRefines ==
  ASSUME BaseTypes, NEW w \in Lengths, NEW h \in Lengths, Submit(w, h),
         NEW s, Holds(submitted, s), s.count > 0, ~s.receiveFailed,
         s.session.w = w, s.session.h = h, s.session.params = params,
         NEW key \in BOOLEAN, s.session.fresh \/ forceIFrame => key,
         NEW a, a = Accept(s, key), EncodeAccepted(a), UNCHANGED failed,
         NEW t, nv' = t, ~t.receiveFailed, initialized' = TRUE,
         NEW news, news = submitted',
         NEW P, P = Good(news, t.receiveFailed), Steady(P)
  PROVE  Refines(news, s, t)
<1>1. PICK F : F = FramesOf(news)
  OBVIOUS
<1>2. /\ Sends(F, s, a) /\ a.count > 0 /\ ~a.receiveFailed /\ a.dropped = s.dropped
      /\ SizedSlots(news, a) /\ OrderedSlots(a) /\ HeldFits(news, a) /\ FirstKey(a)
  BY <1>1, AcceptSends
<1>3. width' = s.session.w /\ height' = s.session.h
  BY SubmitGrows
<1>4. CASE nv' = a /\ ReportResult("Error", <<>>)
  <2>1. Contract!EncodeInternal(AbsCtx(s))
    BY <1>2, <1>3, <1>4, NoPacketRefines
  <2>2. t = a
    BY <1>4
  <2> QED
    BY <1>2, <2>1, <2>2 DEF Refines
<1>5. CASE \E o \in Received(a) :
             /\ nv' = Came(a, o)
             /\ ReportResult(IF o.recv = Sent(a) THEN "Success" ELSE "Error", Coming(a, o))
  <2>1. PICK o \in Received(a) :
          /\ nv' = Came(a, o)
          /\ ReportResult(IF o.recv = Sent(a) THEN "Success" ELSE "Error", Coming(a, o))
    BY <1>5
  <2>2. PICK status \in {"Success", "Error"} :
          status = IF o.recv = Sent(a) THEN "Success" ELSE "Error"
    OBVIOUS
  <2>3. PICK packets : packets = Coming(a, o)
    OBVIOUS
  <2>4. t = Came(a, o) /\ ReportResult(status, packets)
    BY <2>1, <2>2, <2>3
  <2>5. Contract!EncodeInternal(AbsCtx(s)) /\ t.recv = Sent(t) /\ t.session.started = TRUE
    BY <1>1, <1>2, <1>3, <2>3, <2>4, PacketsRefine
  <2>6. a \in States(F) /\ a.session # Null
    BY <1>2 DEF Sends
  <2>7. t.dropped = a.dropped /\ t.accepted = a.accepted
    BY <2>4, <2>6, ReceivedState
  <2>8. Sent(t) \in Nat
    BY <2>6, <2>7, StateParts DEF Sent
  <2>9. HeldFits(news, t)
    BY <2>5, <2>8, CaughtFits
  <2>10. FirstKey(t)
    BY <2>5 DEF FirstKey
  <2> QED
    BY <1>2, <2>5, <2>7, <2>9, <2>10 DEF Refines
<1> QED
  BY <1>4, <1>5 DEF EncodeAccepted, Came, Coming

LEMMA EncodeInternalRefines ==
  ASSUME BaseTypes, NEW w \in Lengths, NEW h \in Lengths, Submit(w, h),
         NEW s, Holds(submitted, s), ~s.receiveFailed,
         s.session.w = w, s.session.h = h, s.session.params = params,
         EncodeInternal(s),
         NEW t, nv' = t, ~t.receiveFailed, ~t.crashed, initialized' = TRUE,
         NEW news, news = submitted',
         NEW P, P = Good(news, t.receiveFailed), Steady(P)
  PROVE  Refines(news, s, t)
<1>1. CASE s.count = 0 /\ nv' = Crash(s)
  <2>1. s \in States(FramesOf(submitted))
    BY DEF Holds
  <2>2. t.crashed
    BY <1>1, <2>1, CrashKeeps
  <2> QED
    BY <2>2
<1>2. CASE nv' = s /\ failed' = failed \cup {NextFrame} /\ ReportResult("Error", <<>>)
  <2>1. Contract!EncodeInternal(AbsCtx(s))
    BY <1>2, RefusalRefines
  <2>2. s \in States(FramesOf(submitted)) /\ HeldFits(submitted, s) /\ FirstKey(s)
    BY DEF Holds
  <2>3. Grows(submitted, news)
    BY SubmitGrows
  <2>4. HeldFits(news, s)
    BY <2>2, <2>3, HeldFitsGrows
  <2>5. t = s
    BY <1>2
  <2> QED
    BY <2>1, <2>2, <2>4, <2>5 DEF Refines
<1>3. CASE /\ s.count > 0
           /\ \E key \in BOOLEAN :
                (s.session.fresh \/ forceIFrame => key) /\ EncodeAccepted(Accept(s, key))
           /\ UNCHANGED failed
  <2>1. PICK key \in BOOLEAN :
          (s.session.fresh \/ forceIFrame => key) /\ EncodeAccepted(Accept(s, key))
    BY <1>3
  <2>2. PICK a : a = Accept(s, key)
    OBVIOUS
  <2>3. EncodeAccepted(a)
    BY <2>1, <2>2
  <2> QED
    BY <1>3, <2>1, <2>2, <2>3, AcceptedRefines
<1> QED
  BY <1>1, <1>2, <1>3 DEF EncodeInternal
-----------------------------------------------------------------------------
(* The steps of the encoder are those of the contract. *)

HeldInv ==
  ~nv.crashed /\ initialized /\ ~nv.receiveFailed =>
    HeldFits(submitted, nv) /\ FirstKey(nv)

LEMMA SteadyGrows ==
  ASSUME PacketInv, BaseTypes, NEW w \in Lengths, NEW h \in Lengths, Submit(w, h),
         NEW t, nv.receiveFailed => t.receiveFailed,
         NEW P, P = Good(submitted', t.receiveFailed)
  PROVE  Steady(P)
<1>1. PICK subs, news, b, str, cs :
        /\ subs = submitted /\ news = submitted' /\ b = nv.receiveFailed
        /\ str = stream /\ cs = calls
  OBVIOUS
<1>2. stream \in Seq(P) /\ calls \in Seq([frame : Nat, rest : Seq(P)])
  BY PacketsGrow
<1>3. Grows(subs, news) /\ NextFrame \in Nat
  BY <1>1, SubmitGrows
<1>4. str \in Seq(Good(subs, b)) /\ cs \in Seq(CallsOf(Good(subs, b)))
  BY <1>1 DEF PacketInv, CallsOf
<1>5. Mapped(news, str) = Mapped(subs, str)
  BY <1>3, <1>4, MappedStable
<1>6. MappedCalls(news, cs) = MappedCalls(subs, cs)
  BY <1>3, <1>4, CallsStable
<1> QED
  BY <1>1, <1>2, <1>3, <1>5, <1>6 DEF Steady, CallsOf

LEMMA OutputStays ==
  ASSUME UNCHANGED output
  PROVE  UNCHANGED Contract!output
BY DEF output, Contract!output, AbstractPackets, AbstractPacket

LEMMA RangesAgree ==
  ASSUME NEW f
  PROVE  Contract!Range(f) = Range(f)
BY DEF Range, Contract!Range

(* The packets of the frames that wait are given up. *)
LEMMA GivesUpDropsHeld ==
  ASSUME NEW s, nv = s, NEW t, GivesUp(s, t), ~t.receiveFailed, ~t.crashed,
         nv'.dropped = t.dropped, initialized
  PROVE  Contract!DropHeld
<1>1. AbstractContext.held = SubSeq(s.accepted, s.recv + 1, Sent(s))
  BY DEF AbstractContext
<1>2. nv'.dropped = nv.dropped \cup Range(AbstractContext.held)
  BY <1>1 DEF GivesUp
<1> QED
  BY <1>2, RangesAgree DEF Contract!DropHeld

LEMMA SetterRefines ==
  ASSUME Setter, UNCHANGED <<nv, window>>
  PROVE  Contract!Next
<1>1. UNCHANGED <<initialized, output>>
  BY DEF Setter, SetWidth, SetHeight, SetParams, SetForceIFrame, SetOutputHandler,
         Modified, setup, output
<1>2. UNCHANGED AbstractContext
  BY <1>1 DEF AbstractContext
<1>3. UNCHANGED Contract!output
  BY <1>1, OutputStays
<1>4. Contract!Setter
  <2>1. calls = <<>> => MappedCalls(submitted, calls) = <<>>
    BY MappedEmpty
  <2>2. calls = <<>> => [i \in DOMAIN calls |->
          [frame |-> calls[i].frame, rest |-> AbstractPackets(calls[i].rest)]] = <<>>
    BY <2>1 DEF MappedCalls, CallAbs, Mapped, Abs, AbstractPackets, AbstractPacket
  <2> QED
    BY <1>3, <2>2
       DEF Setter, SetWidth, SetHeight, SetParams, SetForceIFrame, SetOutputHandler,
           Modified, setup,
           Contract!Setter, Contract!SetWidth, Contract!SetHeight, Contract!SetParams,
           Contract!SetForceIFrame, Contract!SetOutputHandler, Contract!Modified,
           Contract!setup
<1> QED
  BY <1>2, <1>4 DEF Contract!Next

LEMMA SetterHolds ==
  ASSUME HeldInv, Setter, UNCHANGED <<nv, window>>
  PROVE  HeldInv'
<1>1. UNCHANGED <<initialized, submitted>>
  BY DEF Setter, SetWidth, SetHeight, SetParams, SetForceIFrame, SetOutputHandler,
         Modified, setup, output
<1> QED
  BY <1>1 DEF HeldInv

(* The next event of a result. *)
LEMMA MappedPop ==
  ASSUME NEW subs, NEW P, NEW str \in Seq(P), NEW cs \in Seq(CallsOf(P)), cs # <<>>,
         NEW top, top = Head(cs), top.rest # <<>>
  PROVE  /\ Mapped(subs, Append(str, Head(top.rest))) =
              Append(Mapped(subs, str), Head(Mapped(subs, top.rest)))
         /\ MappedCalls(subs, <<[top EXCEPT !.rest = Tail(@)]>> \o Tail(cs)) =
              <<[CallAbs(subs, top) EXCEPT !.rest = Tail(@)]>> \o Tail(MappedCalls(subs, cs))
<1>1. PICK C : C = CallsOf(P)
  OBVIOUS
<1>2. top \in C /\ Tail(cs) \in Seq(C)
  BY <1>1, HeadTailProperties
<1>3. PICK r : r = top.rest
  OBVIOUS
<1>4. r \in Seq(P) /\ r # <<>> /\ top.frame \in Nat /\ top = [frame |-> top.frame, rest |-> r]
  BY <1>1, <1>2, <1>3 DEF CallsOf
<1>5. Head(r) \in P /\ Tail(r) \in Seq(P)
  BY <1>4, HeadTailProperties
<1>6. /\ Head(Mapped(subs, r)) = Abs(subs, Head(r))
      /\ Tail(Mapped(subs, r)) = Mapped(subs, Tail(r))
  BY <1>4, MappedHeadTail
<1>7. Mapped(subs, Append(str, Head(r))) = Append(Mapped(subs, str), Abs(subs, Head(r)))
  <2>1. PICK p, one : p = Head(r) /\ one = <<p>>
    OBVIOUS
  <2>2. p \in P /\ one \in Seq(P)
    BY <1>5, <2>1
  <2>3. Append(str, p) = str \o one
    BY <2>1, <2>2, AppendIsConcat
  <2>4. Mapped(subs, str \o one) = Mapped(subs, str) \o Mapped(subs, one)
    BY <2>2, MappedConcat
  <2>5. Mapped(subs, one) = <<Abs(subs, p)>>
    BY <2>1, MappedOne
  <2>6. PICK T, a, m : T = {Abs(subs, q) : q \in P} /\ a = Abs(subs, p) /\ m = Mapped(subs, str)
    OBVIOUS
  <2>7. a \in T
    BY <2>2, <2>6
  <2>8. m \in Seq(T)
    <3>1. PICK n : n = Len(str)
      OBVIOUS
    <3>2. n \in Nat /\ DOMAIN str = 1..n /\ \A i \in 1..n : str[i] \in P
      BY <3>1, LenProperties, ElementOfSeq
    <3>3. m = [i \in 1..n |-> Abs(subs, str[i])]
      BY <2>6, <3>2 DEF Mapped
    <3>4. m \in [1..n -> T]
      BY <2>6, <3>2, <3>3
    <3> QED
      BY <3>2, <3>4, FunctionIsSeq
  <2>9. Append(m, a) = m \o <<a>>
    BY <2>7, <2>8, AppendIsConcat
  <2> QED
    BY <2>1, <2>3, <2>4, <2>5, <2>6, <2>9
<1>8. PICK new : new = [top EXCEPT !.rest = Tail(@)]
  OBVIOUS
<1>9. new = [frame |-> top.frame, rest |-> Tail(r)]
  BY <1>1, <1>2, <1>3, <1>8 DEF CallsOf
<1>10. new \in C
  BY <1>1, <1>4, <1>5, <1>9 DEF CallsOf
<1>11. CallAbs(subs, new) = [CallAbs(subs, top) EXCEPT !.rest = Tail(@)]
  <2>1. PICK m : m = Mapped(subs, r)
    OBVIOUS
  <2>2. CallAbs(subs, top) = [frame |-> top.frame, rest |-> m]
    BY <1>3, <2>1 DEF CallAbs
  <2>3. CallAbs(subs, new) = [frame |-> top.frame, rest |-> Tail(m)]
    BY <1>6, <1>9, <2>1 DEF CallAbs
  <2>4. PICK c, f, tail : c = CallAbs(subs, top) /\ f = top.frame /\ tail = Tail(m)
    OBVIOUS
  <2>5. c = [frame |-> f, rest |-> m]
    BY <2>2, <2>4
  <2>6. [c EXCEPT !.rest = Tail(m)] = [frame |-> f, rest |-> tail] /\ c.rest = m
    <3>1. [c EXCEPT !.rest = tail] = [frame |-> f, rest |-> tail]
      BY <2>5
    <3> QED
      BY <2>4, <2>5, <3>1
  <2>7. [c EXCEPT !.rest = Tail(@)] = [c EXCEPT !.rest = Tail(m)]
    BY <2>6
  <2> QED
    BY <2>3, <2>4, <2>6, <2>7
<1>12. PICK tail : tail = Tail(cs)
  OBVIOUS
<1>13. MappedCalls(subs, <<new>> \o tail) = <<CallAbs(subs, new)>> \o MappedCalls(subs, tail)
  BY <1>2, <1>10, <1>12, CallsPush
<1>14. Tail(MappedCalls(subs, cs)) = MappedCalls(subs, tail)
  BY <1>1, <1>12, CallsPop
<1>15. MappedCalls(subs, <<new>> \o tail) =
         <<[CallAbs(subs, top) EXCEPT !.rest = Tail(@)]>> \o Tail(MappedCalls(subs, cs))
  BY <1>11, <1>13, <1>14
<1> QED
  BY <1>3, <1>6, <1>7, <1>8, <1>12, <1>15

LEMMA CallBackReturnsRefines ==
  ASSUME NvInv, CallBackReturns, UNCHANGED <<nv, window>>
  PROVE  Contract!Next
<1>1. PICK subs, P, cs, str, top :
        /\ subs = submitted /\ P = Good(submitted, nv.receiveFailed)
        /\ cs = calls /\ str = stream /\ top = Head(calls)
  OBVIOUS
<1>2. /\ str \in Seq(P) /\ cs \in Seq(CallsOf(P)) /\ cs # <<>> /\ top = Head(cs)
      /\ submitted' = subs
      /\ UNCHANGED <<config, setup, submitted, failed, reentered>>
  BY <1>1 DEF NvInv, PacketInv, CallsOf, CallBackReturns
<1>3. UNCHANGED AbstractContext /\ UNCHANGED nv.dropped
  BY <1>2 DEF AbstractContext, setup
<1>4. PICK C : C = MappedCalls(subs, cs)
  OBVIOUS
<1>5. /\ C # <<>> /\ Head(C) = CallAbs(subs, top) /\ Tail(C) = MappedCalls(subs, Tail(cs))
  <2>1. PICK S : S = CallsOf(P)
    OBVIOUS
  <2>2. cs \in Seq(S)
    BY <1>2, <2>1
  <2> QED
    BY <1>2, <1>4, <2>2, CallsPop
<1>6. Head(C).rest = Mapped(subs, top.rest) /\ Head(C).frame = top.frame
  BY <1>5 DEF CallAbs
<1>7. UNCHANGED <<Contract!config, Contract!setup, submitted, failed, reentered>>
  BY <1>2 DEF config, setup, Contract!config, Contract!setup
<1> DEFINE mapped == [i \in DOMAIN calls |->
             [frame |-> calls[i].frame, rest |-> AbstractPackets(calls[i].rest)]]
<1>8. mapped = C /\ AbstractPackets(stream) = Mapped(subs, str)
  BY <1>1, <1>4 DEF MappedCalls, CallAbs, Mapped, Abs, AbstractPackets, AbstractPacket
<1>9. mapped' = MappedCalls(subs, calls') /\ AbstractPackets(stream)' = Mapped(subs, stream')
  BY <1>2 DEF MappedCalls, CallAbs, Mapped, Abs, AbstractPackets, AbstractPacket
<1>10. CASE top.rest = <<>> /\ calls' = Tail(calls) /\ UNCHANGED <<reports, stream>>
  <2>1. mapped' = Tail(C)
    BY <1>1, <1>5, <1>9, <1>10
  <2>2. Head(C).rest = <<>>
    BY <1>6, <1>10, MappedEmpty
  <2>3. UNCHANGED AbstractPackets(stream)
    BY <1>1, <1>8, <1>9, <1>10
  <2>4. Contract!CallBackReturns
    <3> HIDE DEF mapped
    <3>1. mapped # <<>> /\ mapped' = Tail(mapped) /\ Head(mapped).rest = <<>>
      BY <1>5, <1>8, <2>1, <2>2
    <3> QED
      BY <1>7, <1>10, <2>3, <3>1 DEF Contract!CallBackReturns, mapped
  <2> QED
    BY <1>3, <2>4 DEF Contract!Next
<1>11. CASE /\ top.rest # <<>>
            /\ reports' = Append(reports, [frame |-> top.frame, status |-> "Success"])
            /\ stream' = Append(stream, Head(top.rest))
            /\ calls' = <<[top EXCEPT !.rest = Tail(@)]>> \o Tail(calls)
  <2>1. /\ Mapped(subs, Append(str, Head(top.rest))) =
             Append(Mapped(subs, str), Head(Mapped(subs, top.rest)))
        /\ MappedCalls(subs, <<[top EXCEPT !.rest = Tail(@)]>> \o Tail(cs)) =
             <<[CallAbs(subs, top) EXCEPT !.rest = Tail(@)]>> \o Tail(MappedCalls(subs, cs))
    BY <1>2, <1>11, MappedPop
  <2>2. calls' = <<[top EXCEPT !.rest = Tail(@)]>> \o Tail(cs)
    BY <1>1, <1>11
  <2>3. mapped' = <<[Head(C) EXCEPT !.rest = Tail(@)]>> \o Tail(C)
    <3>1. MappedCalls(subs, calls') =
            <<[CallAbs(subs, top) EXCEPT !.rest = Tail(@)]>> \o Tail(MappedCalls(subs, cs))
      BY <2>1, <2>2
    <3> HIDE DEF mapped
    <3> QED
      BY <1>4, <1>5, <1>9, <3>1
  <2>4. AbstractPackets(stream)' = Append(AbstractPackets(stream), Head(Head(C).rest))
    BY <1>1, <1>6, <1>8, <1>9, <1>11, <2>1
  <2>5. Head(C).rest # <<>>
    <3>1. PICK r : r = top.rest
      OBVIOUS
    <3>2. top \in CallsOf(P)
      <4>1. PICK S : S = CallsOf(P)
        OBVIOUS
      <4> QED
        BY <1>2, <4>1, HeadTailProperties
    <3>3. r \in Seq(P) /\ r # <<>>
      BY <1>11, <3>1, <3>2 DEF CallsOf
    <3>4. Mapped(subs, r) # <<>>
      BY <3>3, MappedHeadTail
    <3> QED
      BY <1>6, <3>1, <3>4
  <2>6. reports' = Append(reports, [frame |-> Head(C).frame, status |-> "Success"])
    BY <1>6, <1>11
  <2>7. Contract!CallBackReturns
    <3> HIDE DEF mapped
    <3>1. /\ mapped # <<>> /\ Head(mapped).rest # <<>>
          /\ mapped' = <<[Head(mapped) EXCEPT !.rest = Tail(@)]>> \o Tail(mapped)
          /\ reports' = Append(reports, [frame |-> Head(mapped).frame, status |-> "Success"])
          /\ AbstractPackets(stream)' = Append(AbstractPackets(stream), Head(Head(mapped).rest))
      BY <1>5, <1>8, <2>3, <2>4, <2>5, <2>6
    <3> QED
      BY <1>7, <3>1 DEF Contract!CallBackReturns, mapped
  <2> QED
    BY <1>3, <2>7 DEF Contract!Next
<1> QED
  BY <1>1, <1>10, <1>11 DEF CallBackReturns

LEMMA CallBackReturnsHolds ==
  ASSUME HeldInv, CallBackReturns, UNCHANGED <<nv, window>>
  PROVE  HeldInv'
BY DEF HeldInv, CallBackReturns, setup

(* The context of a setup is new. *)
New(w, h) == [w |-> w, h |-> h, params |-> params,
              held |-> <<>>, started |-> FALSE, eos |-> FALSE]

LEMMA SetUpGives ==
  ASSUME NEW F, NEW s \in States(F), ~s.crashed, Caught(s), params \in Params,
         NEW w \in Lengths, NEW h \in Lengths, NEW t \in SetUp(s, w, h), NEW subs
  PROVE  /\ t.receiveFailed = s.receiveFailed /\ t.dropped = s.dropped
         /\ ~t.receiveFailed => /\ AbsCtx(t) = New(w, h)
                                /\ HeldFits(subs, t) /\ FirstKey(t)
<1>1. NewSession(F, s, w, h, t) /\ Begins(s, t)
  BY SetUpEnds, SetUpBegins
<1>2. /\ t.session.w = w /\ t.session.h = h /\ t.session.params = params
      /\ t.accepted = s.accepted /\ t.recv = s.recv /\ t.receiveFailed = s.receiveFailed
  BY <1>1 DEF NewSession
<1>3. /\ t.dropped = s.dropped
      /\ t.session.started = FALSE /\ t.session.fresh = TRUE /\ t.session.eos = FALSE
  BY <1>1 DEF Begins
<1>4. Sent(s) \in Nat /\ Sent(t) = Sent(s)
  BY <1>2, StateParts DEF Sent
<1>5. ASSUME ~t.receiveFailed
      PROVE  AbsCtx(t) = New(w, h) /\ HeldFits(subs, t) /\ FirstKey(t)
  <2>1. t.recv = Sent(t)
    BY <1>2, <1>4, <1>5 DEF Caught
  <2>2. SubSeq(t.accepted, t.recv + 1, Sent(t)) = <<>>
    BY <1>4, <2>1, NothingLeft
  <2>3. AbsCtx(t) = New(w, h)
    BY <1>2, <1>3, <2>2 DEF AbsCtx, New
  <2>4. HeldFits(subs, t)
    BY <1>4, <2>1, CaughtFits
  <2> QED
    BY <1>3, <2>1, <2>3, <2>4 DEF FirstKey
<1> QED
  BY <1>2, <1>3, <1>5

LEMMA InitializeRefines ==
  ASSUME NvInv, Initialize
  PROVE  HeldInv' /\ (Sound' => Contract!Next)
<1>1. /\ ~nv.crashed /\ ~initialized
      /\ UNCHANGED <<width, height, forceIFrame, handlerSet, output>>
  BY DEF Initialize
<1>2. UNCHANGED Contract!output
  BY <1>1, OutputStays
<1>3. PICK F, s, t, subs, w, h :
        /\ F = FramesOf(submitted) /\ s = nv /\ t = nv' /\ subs = submitted'
        /\ w = width /\ h = height
  OBVIOUS
<1>4. s \in States(F) /\ ~s.crashed /\ Caught(s)
  BY <1>1, <1>3 DEF NvInv, IdleInv
<1>5. params \in Params /\ w \in Lengths /\ h \in Lengths
  BY <1>3 DEF NvInv, BaseTypes
<1>6. CASE SetupSucceeded /\ nv' \in SetUp(nv, width, height)
  <2>1. t \in SetUp(s, w, h)
    BY <1>3, <1>6
  <2>2. /\ t.receiveFailed = s.receiveFailed /\ t.dropped = s.dropped
        /\ ~t.receiveFailed => /\ AbsCtx(t) = New(w, h)
                               /\ HeldFits(subs, t) /\ FirstKey(t)
    BY <1>4, <1>5, <2>1, SetUpGives
  <2>3. HeldInv'
    BY <1>3, <2>2 DEF HeldInv
  <2>4. ASSUME Sound'
        PROVE  Contract!Next
    <3>1. initialized' = TRUE
      BY <1>6 DEF SetupSucceeded
    <3>2. AbstractContext' = AbsCtx(t)
      BY <1>3, <3>1, NowTheContext
    <3>3. AbstractContext' = Contract!NewContext(width, height, params)
      BY <1>3, <2>2, <2>4, <3>2 DEF Sound, New, Contract!NewContext
    <3>4. UNCHANGED nv.dropped
      BY <1>3, <2>2
    <3>5. Contract!SetupSucceeded
      BY <1>6 DEF SetupSucceeded, Contract!SetupSucceeded
    <3>6. Contract!Initialize
      BY <1>1, <1>2, <3>3, <3>4, <3>5 DEF Contract!Initialize
    <3> QED
      BY <3>6 DEF Contract!Next
  <2> QED
    BY <2>3, <2>4
<1>7. CASE SetupFailed /\ nv' \in SetUpFails(nv, width, height)
  <2>1. t.dropped = s.dropped
    BY <1>3, <1>4, <1>5, <1>7, SetUpFailsLoses
  <2>2. initialized' = FALSE
    BY <1>7 DEF SetupFailed
  <2>3. HeldInv'
    BY <2>2 DEF HeldInv
  <2>4. Contract!SetupFails
    BY <1>7, <2>2 DEF SetupFailed, Contract!SetupFails, Contract!SetupFailed, AbstractContext
  <2>5. Contract!Initialize
    BY <1>1, <1>2, <1>3, <2>1, <2>4 DEF Contract!Initialize
  <2> QED
    BY <2>3, <2>5 DEF Contract!Next
<1> QED
  BY <1>6, <1>7 DEF Initialize

(* The end of a stream, as the contract sees it. *)
Drained(r) == [w |-> r.w, h |-> r.h, params |-> r.params,
               held |-> <<>>, started |-> r.started, eos |-> TRUE]

LEMMA ContextDrained ==
  ASSUME NEW H, <<>> \in H, NEW r, IsContext(H, r)
  PROVE  [r EXCEPT !.held = <<>>, !.eos = TRUE] = Drained(r)
<1>1. PICK q, none : q = Drained(r) /\ none = <<>>
  OBVIOUS
<1>2. /\ q \in [w : Lengths, h : Lengths, params : Params, held : H,
                started : BOOLEAN, eos : BOOLEAN]
      /\ q.w = r.w /\ q.h = r.h /\ q.params = r.params
      /\ q.held = none /\ q.started = r.started /\ q.eos = TRUE
  BY <1>1 DEF IsContext, Drained
<1>3. [r EXCEPT !.held = none, !.eos = TRUE] = q
  BY <1>2 DEF IsContext
<1> QED
  BY <1>1, <1>3

LEMMA DrainRefines ==
  ASSUME NvInv, HeldInv, Drain
  PROVE  HeldInv' /\ (Sound' => Contract!Next)
<1>1. PICK F, s, t, subs :
        F = FramesOf(submitted) /\ s = nv /\ t = nv' /\ subs = submitted'
  OBVIOUS
<1>2. /\ ~s.crashed /\ initialized /\ t \in SendEOS(s) /\ UNCHANGED baseVars
  BY <1>1 DEF Drain
<1>3. s \in States(F) /\ IsInitialized(s)
  BY <1>1, <1>2 DEF NvInv, SessionsAccountedFor
<1>4. s.session # Null
  BY <1>3 DEF IsInitialized
<1>5. GivesUp(s, t) /\ EndsStream(s, t) /\ Ended(F, s, t)
  <2>1. t \in Flush(s) \cup SendEOS(s)
    BY <1>2
  <2> QED
    BY <1>2, <1>3, <1>4, <2>1, FlushGivesUp, FlushEnds
<1>6. /\ t \in States(F) /\ t.accepted = s.accepted /\ t.count = s.count
      /\ (s.receiveFailed => t.receiveFailed) /\ s.recv <= t.recv
      /\ t.session # Null
      /\ t.session.w = s.session.w /\ t.session.h = s.session.h
      /\ t.session.params = s.session.params
  BY <1>4, <1>5 DEF Ended, Holding, SameSession
<1>7. /\ t.session.started = s.session.started /\ t.session.eos = TRUE
      /\ \/ t.session.fresh = TRUE
         \/ t.session.fresh = s.session.fresh /\ t.recv = s.recv
  BY <1>5 DEF EndsStream
<1>8. Sent(t) = Sent(s) /\ Sent(t) \in Nat
  BY <1>6, StateParts DEF Sent
<1>9. initialized' = TRUE /\ UNCHANGED submitted /\ UNCHANGED output /\ initialized = TRUE
  <2>1. initialized \in BOOLEAN
    BY DEF NvInv, BaseTypes
  <2> QED
    BY <1>2, <2>1 DEF baseVars, setup, output
<1>10. ASSUME ~t.receiveFailed, ~t.crashed
       PROVE  /\ HeldFits(subs, t) /\ FirstKey(t)
              /\ t.recv = Sent(t)
  <2>1. t.recv = Sent(t)
    BY <1>5, <1>8, <1>10 DEF GivesUp
  <2>2. HeldFits(subs, t)
    BY <1>8, <2>1, CaughtFits
  <2>3. FirstKey(s)
    BY <1>1, <1>2, <1>6, <1>10 DEF HeldInv
  <2>4. FirstKey(t)
    BY <1>6, <1>7, <1>8, <2>1, <2>3 DEF FirstKey
  <2> QED
    BY <2>1, <2>2, <2>4
<1>11. HeldInv'
  BY <1>1, <1>10 DEF HeldInv
<1>12. ASSUME Sound'
       PROVE  Contract!Next
  <2>1. ~t.receiveFailed /\ ~t.crashed
    BY <1>1, <1>12 DEF Sound
  <2>2. AbstractContext' = AbsCtx(t)
    BY <1>1, <1>9, NowTheContext
  <2>3. AbstractContext = AbsCtx(s)
    BY <1>1, <1>9 DEF AbstractContext, AbsCtx
  <2>4. SubSeq(t.accepted, t.recv + 1, Sent(t)) = <<>>
    BY <1>8, <1>10, <2>1, NothingLeft
  <2>5. PICK c, H : c = AbsCtx(s) /\ H = Seq(F)
    OBVIOUS
  <2>6. AbsCtx(t) = Drained(c)
    BY <1>6, <1>7, <2>4, <2>5 DEF AbsCtx, Drained
  <2>7. [c EXCEPT !.held = <<>>, !.eos = TRUE] = Drained(c)
    <3>1. <<>> \in H
      BY <2>5, EmptySeq
    <3>2. IsContext(H, c)
      BY <1>3, <1>4, <2>5, ContextType
    <3> QED
      BY <3>1, <3>2, ContextDrained
  <2>8. AbstractContext' = [AbstractContext EXCEPT !.held = <<>>, !.eos = TRUE]
    BY <2>2, <2>3, <2>5, <2>6, <2>7
  <2>9. Contract!DropHeld
    BY <1>1, <1>2, <1>5, <2>1, GivesUpDropsHeld
  <2>10. UNCHANGED Contract!baseVars
    <3>1. UNCHANGED Contract!output
      BY <1>9, OutputStays
    <3> QED
      BY <1>2, <3>1 DEF baseVars, config, setup,
                        Contract!baseVars, Contract!config, Contract!setup
  <2>11. Contract!Drain
    BY <1>2, <2>8, <2>9, <2>10 DEF Contract!Drain
  <2> QED
    BY <2>11 DEF Contract!Next
<1> QED
  BY <1>11, <1>12

LEMMA ShutdownRefines ==
  ASSUME NvInv, Shutdown
  PROVE  HeldInv' /\ (Sound' => Contract!Next)
<1>1. PICK F, s, t : F = FramesOf(submitted) /\ s = nv /\ t = nv'
  OBVIOUS
<1>2. /\ ~s.crashed /\ initialized /\ t \in ShutDown(s) /\ initialized' = t.crashed
      /\ UNCHANGED <<config, mtime, lastSetupMTime, touched, output>>
  BY <1>1 DEF Shutdown
<1>3. s \in States(F) /\ IsInitialized(s)
  BY <1>1, <1>2 DEF NvInv, SessionsAccountedFor
<1>4. GivesUp(s, t)
  BY <1>2, <1>3, ShutDownGivesUp
<1>5. HeldInv'
  BY <1>1, <1>2 DEF HeldInv
<1>6. ASSUME Sound'
      PROVE  Contract!Next
  <2>1. ~t.receiveFailed /\ ~t.crashed
    BY <1>1, <1>6 DEF Sound
  <2>2. t.crashed = FALSE
    <3>1. nv' \in States(FramesOf(submitted'))
      BY ShutdownKeeps DEF NvInv
    <3>2. t.crashed \in BOOLEAN
      BY <1>1, <3>1, StateParts
    <3> QED
      BY <2>1, <3>2
  <2>3. initialized' = FALSE
    BY <1>2, <2>2
  <2>4. AbstractContext' = Null
    BY <2>3 DEF AbstractContext
  <2>5. Contract!DropHeld
    BY <1>1, <1>2, <1>4, <2>1, GivesUpDropsHeld
  <2>6. UNCHANGED <<Contract!config, Contract!output>>
    <3>1. UNCHANGED Contract!output
      BY <1>2, OutputStays
    <3> QED
      BY <1>2, <3>1 DEF config, Contract!config
  <2>7. Contract!Shutdown
    BY <1>2, <2>3, <2>4, <2>5, <2>6 DEF Contract!Shutdown
  <2> QED
    BY <2>7 DEF Contract!Next
<1> QED
  BY <1>5, <1>6

LEMMA StutterRefines ==
  ASSUME UNCHANGED baseVars, UNCHANGED AbstractContext, UNCHANGED nv.dropped
  PROVE  UNCHANGED Contract!vars
<1>1. UNCHANGED <<config, setup, output>>
  BY DEF baseVars
<1>2. UNCHANGED Contract!output
  BY <1>1, OutputStays
<1> QED
  BY <1>1, <1>2 DEF config, setup, Contract!vars, Contract!baseVars, Contract!config,
                    Contract!setup

LEMMA WindowReleasesRefines ==
  ASSUME NvInv, HeldInv, WindowReleases
  PROVE  HeldInv' /\ (Sound' => UNCHANGED Contract!vars)
<1>1. PICK F, s, t, subs :
        F = FramesOf(submitted) /\ s = nv /\ t = nv' /\ subs = submitted
  OBVIOUS
<1>2. ~s.crashed /\ t \in Release(s) /\ UNCHANGED baseVars /\ s \in States(F)
  BY <1>1 DEF WindowReleases, NvInv
<1>3. UNCHANGED <<initialized, submitted>> /\ initialized \in BOOLEAN
  BY <1>2 DEF baseVars, setup, output, NvInv, BaseTypes
<1>4. LosesNothing(s, t) /\ (IsInitialized(s) => t = s \/ t.count = 0)
  BY <1>2, ReleaseLoses
<1>5. CASE initialized
  <2>1. t = s \/ t.count = 0
    BY <1>1, <1>4, <1>5 DEF NvInv, SessionsAccountedFor
  <2>2. CASE t = s
    <3>1. UNCHANGED nv
      BY <1>1, <2>2
    <3>2. HeldInv'
      BY <1>3, <3>1 DEF HeldInv
    <3>3. UNCHANGED AbstractContext /\ UNCHANGED nv.dropped
      BY <1>3, <3>1 DEF AbstractContext
    <3> QED
      BY <1>2, <3>2, <3>3, StutterRefines
  <2>3. CASE t.count = 0
    <3>1. HeldInv'
      BY <1>1, <2>3 DEF HeldInv, HeldFits, FirstKey
    <3>2. ~Sound'
      BY <1>1, <1>3, <1>5, <2>3 DEF Sound
    <3> QED
      BY <3>1, <3>2
  <2> QED
    BY <2>1, <2>2, <2>3
<1>6. CASE ~initialized
  <2>1. HeldInv'
    BY <1>3, <1>6 DEF HeldInv
  <2>2. ASSUME Sound'
        PROVE  UNCHANGED Contract!vars
    <3>1. ~t.receiveFailed /\ ~t.crashed
      BY <1>1, <2>2 DEF Sound
    <3>2. s.receiveFailed => t.receiveFailed
      BY <1>2, ReleaseKeeps DEF Released, Holding
    <3>3. s.recv = Sent(s)
      BY <1>1, <1>2, <1>6, <3>1, <3>2 DEF NvInv, IdleInv, Caught
    <3>4. t.dropped = s.dropped
      BY <1>4, <3>1, <3>3 DEF LosesNothing
    <3>5. UNCHANGED AbstractContext
      BY <1>3, <1>6 DEF AbstractContext
    <3> QED
      BY <1>1, <1>2, <3>4, <3>5, StutterRefines
  <2> QED
    BY <2>1, <2>2
<1> QED
  BY <1>5, <1>6

LEMMA SubmitRefines ==
  ASSUME PacketInv, NEW w, NEW h, Submit(w, h)
  PROVE  Contract!Submit(w, h)
<1>1. PICK subs, P, cs, C :
        /\ subs = submitted /\ P = Good(submitted, nv.receiveFailed) /\ cs = calls
        /\ C = MappedCalls(subs, cs)
  OBVIOUS
<1>2. cs \in Seq(CallsOf(P))
  BY <1>1 DEF PacketInv, CallsOf
<1>3. PICK n : n = Len(cs)
  OBVIOUS
<1>4. n \in Nat /\ DOMAIN cs = 1..n /\ \A i \in 1..n : cs[i] \in CallsOf(P)
  <2>1. PICK S : S = CallsOf(P)
    OBVIOUS
  <2>2. cs \in Seq(S)
    BY <1>2, <2>1
  <2> QED
    BY <1>3, <2>1, <2>2, LenProperties, ElementOfSeq
<1>5. C = [i \in 1..n |-> CallAbs(subs, cs[i])]
  BY <1>1, <1>4 DEF MappedCalls
<1>6. Len(C) = n /\ DOMAIN C = 1..n
  <2>1. PICK T : T = {CallAbs(subs, cs[i]) : i \in 1..n}
    OBVIOUS
  <2>2. C \in [1..n -> T]
    BY <1>5, <2>1
  <2>3. C \in Seq(T)
    BY <1>4, <2>2, FunctionIsSeq
  <2>4. DOMAIN C = 1..n /\ DOMAIN C = 1..Len(C) /\ Len(C) \in Nat
    BY <2>2, <2>3, LenProperties
  <2> QED
    BY <1>4, <2>4
<1>7. \A i \in 1..n : C[i].rest # <<>> <=> cs[i].rest # <<>>
  <2> TAKE i \in 1..n
  <2>1. PICK r : r = cs[i].rest
    OBVIOUS
  <2>2. r \in Seq(P)
    BY <1>4, <2>1 DEF CallsOf
  <2>3. C[i].rest = Mapped(subs, r)
    BY <1>5, <2>1 DEF CallAbs
  <2>4. r # <<>> => Mapped(subs, r) # <<>>
    BY <2>2, MappedHeadTail
  <2>5. r = <<>> => Mapped(subs, r) = <<>>
    BY MappedEmpty
  <2> QED
    BY <2>1, <2>3, <2>4, <2>5
<1>8. C = [i \in DOMAIN calls |->
             [frame |-> calls[i].frame, rest |-> AbstractPackets(calls[i].rest)]]
  BY <1>1 DEF MappedCalls, CallAbs, Mapped, Abs, AbstractPackets, AbstractPacket
<1>9. /\ Len(C) < MaxDepth
      /\ reentered' = (reentered \/ \E i \in DOMAIN C : C[i].rest # <<>>)
  <2>1. Len(cs) < MaxDepth
    BY <1>1 DEF Submit
  <2>2. reentered' = (reentered \/ \E i \in DOMAIN cs : cs[i].rest # <<>>)
    BY <1>1 DEF Submit
  <2>3. (\E i \in DOMAIN C : C[i].rest # <<>>) <=> (\E i \in DOMAIN cs : cs[i].rest # <<>>)
    BY <1>4, <1>6, <1>7
  <2> QED
    BY <1>3, <1>6, <2>1, <2>2, <2>3
<1> QED
  BY <1>8, <1>9 DEF Submit, Contract!Submit

(* The frame is sent in a session that is ready for it. *)
LEMMA SessionRefines ==
  ASSUME BaseTypes, PacketInv, NEW w \in Lengths, NEW h \in Lengths, Submit(w, h),
         NEW s, s \in States(FramesOf(submitted)), ~s.crashed, IsInitialized(s),
         RingFits(submitted, s),
         ~s.receiveFailed => HeldFits(submitted, s) /\ FirstKey(s),
         s.session.w = w, s.session.h = h, s.session.params = params,
         nv.receiveFailed => s.receiveFailed, EncodeInternal(s), initialized' = TRUE,
         NEW t, nv' = t, ~t.receiveFailed, ~t.crashed, NEW news, news = submitted'
  PROVE  ~s.receiveFailed /\ Refines(news, s, t)
<1>1. /\ stream \in Seq(Good(submitted, s.receiveFailed))
      /\ calls \in Seq([frame : Nat, rest : Seq(Good(submitted, s.receiveFailed))])
  BY PacketsWeaken
<1>2. Encoded(submitted', s, nv')
  BY <1>1, EncodeInternalKeeps
<1>3. ~s.receiveFailed
  BY <1>2 DEF Encoded
<1>4. PICK P : P = Good(news, t.receiveFailed)
  OBVIOUS
<1>5. nv.receiveFailed => t.receiveFailed
  BY <1>3
<1>6. Steady(P)
  <2>1. P = Good(submitted', t.receiveFailed)
    BY <1>4
  <2> QED
    BY <1>5, <2>1, SteadyGrows
<1>7. Holds(submitted, s)
  BY <1>3 DEF Holds
<1>8. Refines(news, s, t)
  BY <1>3, <1>4, <1>6, <1>7, EncodeInternalRefines
<1> QED
  BY <1>3, <1>8

LEMMA EncodeUpToDateRefines ==
  ASSUME NvInv, HeldInv, NEW w \in Lengths, NEW h \in Lengths, ~nv.crashed, Submit(w, h),
         UpToDate(w, h), EncodeInternal(nv), UNCHANGED <<params, setup>>
  PROVE  HeldInv' /\ (Sound' => Contract!Encode(w, h))
<1>1. BaseTypes /\ PacketInv
  BY DEF NvInv
<1>2. /\ initialized = TRUE /\ lastSetupMTime = mtime /\ w = width /\ h = height
      /\ UNCHANGED <<params, mtime, lastSetupMTime, initialized, touched>>
  BY <1>1 DEF UpToDate, BaseTypes, setup
<1>3. PICK s, t, news : s = nv /\ t = nv' /\ news = submitted'
  OBVIOUS
<1>4. /\ s \in States(FramesOf(submitted)) /\ ~s.crashed /\ IsInitialized(s)
      /\ RingFits(submitted, s)
      /\ s.session.w = w /\ s.session.h = h /\ s.session.params = params
  BY <1>2, <1>3 DEF NvInv, ReadyInv, SessionsAccountedFor
<1>5. ~s.receiveFailed => HeldFits(submitted, s) /\ FirstKey(s)
  BY <1>2, <1>3, <1>4 DEF HeldInv
<1>6. EncodeInternal(s) /\ initialized' = TRUE
  BY <1>2, <1>3
<1>7. ASSUME ~t.receiveFailed, ~t.crashed
      PROVE  Refines(news, s, t)
  <2>1. nv.receiveFailed => s.receiveFailed
    BY <1>3
  <2>2. t = nv'
    BY <1>3
  <2> QED
    BY <1>1, <1>3, <1>4, <1>5, <1>6, <1>7, <2>1, <2>2, SessionRefines
<1>8. HeldInv'
  BY <1>3, <1>7 DEF HeldInv, Refines
<1>9. ASSUME Sound'
      PROVE  Contract!Encode(w, h)
  <2>1. Refines(news, s, t)
    BY <1>3, <1>7, <1>9 DEF Sound
  <2>2. AbsCtx(s) = AbstractContext
    BY <1>2, <1>3 DEF AbsCtx, AbstractContext
  <2>3. Contract!EncodeInternal(AbstractContext) /\ UNCHANGED nv.dropped
    BY <1>3, <2>1, <2>2 DEF Refines
  <2>4. Contract!Submit(w, h) /\ Contract!UpToDate(w, h) /\ UNCHANGED <<params, Contract!setup>>
    <3>1. Contract!Submit(w, h)
      BY <1>1, SubmitRefines
    <3> QED
      BY <1>2, <3>1 DEF UpToDate, Contract!UpToDate, setup, Contract!setup
  <2> QED
    BY <2>3, <2>4 DEF Contract!Encode
<1> QED
  BY <1>8, <1>9

(* What the frames that wait in the context are worth to a setup: nothing. *)
LEMMA RestartDropsHeld ==
  ASSUME NvInv, ~nv.crashed, NEW s \in (IF initialized THEN ShutDown(nv) ELSE {nv}),
         ~s.receiveFailed, ~s.crashed, nv'.dropped = s.dropped
  PROVE  Contract!DropHeld
<1>1. CASE initialized
  <2>1. PICK r, F : r = nv /\ F = FramesOf(submitted)
    OBVIOUS
  <2>2. r \in States(F) /\ ~r.crashed /\ IsInitialized(r) /\ s \in ShutDown(r)
    BY <1>1, <2>1 DEF NvInv, SessionsAccountedFor
  <2>3. GivesUp(r, s)
    BY <2>2, ShutDownGivesUp
  <2>4. nv = r /\ nv'.dropped = s.dropped
    BY <2>1
  <2> QED
    BY <1>1, <2>3, <2>4, GivesUpDropsHeld
<1>2. CASE ~initialized
  BY <1>2 DEF Contract!DropHeld
<1> QED
  BY <1>1, <1>2

LEMMA UpToDateAgrees ==
  ASSUME NEW w, NEW h
  PROVE  Contract!UpToDate(w, h) <=> UpToDate(w, h)
BY DEF UpToDate, Contract!UpToDate

LEMMA EncodeAnewRefines ==
  ASSUME NvInv, ~nv.crashed, NEW w \in Lengths, NEW h \in Lengths, Submit(w, h),
         ~UpToDate(w, h), NEW s \in (IF initialized THEN ShutDown(nv) ELSE {nv}),
         Idle(FramesOf(submitted), s), nv.receiveFailed => s.receiveFailed,
         SetupSucceeded, NEW r \in SetUp(s, w, h), EncodeInternal(r)
  PROVE  HeldInv' /\ (Sound' => Contract!Encode(w, h))
<1>1. BaseTypes /\ PacketInv
  BY DEF NvInv
<1>2. PICK F, subs, news, t :
        F = FramesOf(submitted) /\ subs = submitted /\ news = submitted' /\ t = nv'
  OBVIOUS
<1>3. Idle(F, s) /\ s \in States(F) /\ ~s.crashed /\ Caught(s)
  BY <1>2 DEF Idle
<1>4. params \in Params
  BY <1>1 DEF BaseTypes
<1>5. NewSession(F, s, w, h, r)
  BY <1>3, <1>4, SetUpEnds
<1>6. RingFits(subs, r)
  BY <1>3, <1>5, NewRing
<1>7. /\ r \in States(F) /\ ~r.crashed /\ IsInitialized(r)
      /\ r.session.w = w /\ r.session.h = h /\ r.session.params = params
  BY <1>5 DEF NewSession
<1>8. /\ r.receiveFailed = s.receiveFailed /\ r.dropped = s.dropped
      /\ ~r.receiveFailed => /\ AbsCtx(r) = New(w, h)
                             /\ HeldFits(subs, r) /\ FirstKey(r)
  BY <1>3, <1>4, SetUpGives
<1>9. initialized' = TRUE
  BY DEF SetupSucceeded
<1>10. ASSUME ~t.receiveFailed, ~t.crashed
       PROVE  ~r.receiveFailed /\ Refines(news, r, t)
  <2>1. r \in States(FramesOf(submitted)) /\ RingFits(submitted, r)
    BY <1>2, <1>6, <1>7
  <2>2. ~r.receiveFailed => HeldFits(submitted, r) /\ FirstKey(r)
    BY <1>2, <1>8
  <2>3. (nv.receiveFailed => r.receiveFailed) /\ nv' = t /\ news = submitted'
    BY <1>2, <1>8
  <2> QED
    BY <1>1, <1>7, <1>9, <1>10, <2>1, <2>2, <2>3, SessionRefines
<1>11. HeldInv'
  BY <1>2, <1>10 DEF HeldInv, Refines
<1>12. ASSUME Sound'
       PROVE  Contract!Encode(w, h)
  <2>1. ~r.receiveFailed /\ Refines(news, r, t)
    BY <1>2, <1>10, <1>12 DEF Sound
  <2>2. AbsCtx(r) = Contract!NewContext(w, h, params)
    BY <1>8, <2>1 DEF New, Contract!NewContext
  <2>3. Contract!EncodeInternal(Contract!NewContext(w, h, params)) /\ t.dropped = r.dropped
    BY <2>1, <2>2 DEF Refines
  <2>4. Contract!DropHeld
    <3>1. nv'.dropped = s.dropped /\ ~s.receiveFailed
      BY <1>2, <1>8, <2>1, <2>3
    <3> QED
      BY <1>3, <3>1, RestartDropsHeld
  <2>5. Contract!Submit(w, h) /\ ~Contract!UpToDate(w, h)
    BY <1>1, SubmitRefines, UpToDateAgrees
  <2>6. Contract!SetupSucceeded
    BY DEF SetupSucceeded, Contract!SetupSucceeded
  <2> QED
    BY <2>3, <2>4, <2>5, <2>6 DEF Contract!Encode
<1> QED
  BY <1>11, <1>12

LEMMA EncodeFailsRefines ==
  ASSUME NvInv, ~nv.crashed, NEW w \in Lengths, NEW h \in Lengths, Submit(w, h),
         ~UpToDate(w, h), NEW s \in (IF initialized THEN ShutDown(nv) ELSE {nv}),
         Idle(FramesOf(submitted), s), nv.receiveFailed => s.receiveFailed,
         SetupFailed, nv' \in SetUpFails(s, w, h), ReportNoContext
  PROVE  HeldInv' /\ (Sound' => Contract!Encode(w, h))
<1>1. BaseTypes /\ PacketInv /\ params \in Params
  BY DEF NvInv, BaseTypes
<1>2. PICK F, t : F = FramesOf(submitted) /\ t = nv'
  OBVIOUS
<1>3. s \in States(F) /\ ~s.crashed /\ t \in SetUpFails(s, w, h)
  BY <1>2 DEF Idle
<1>4. SetUpFailed(F, s, t) /\ t.dropped = s.dropped
  BY <1>1, <1>3, SetUpFailsEnds, SetUpFailsLoses
<1>5. t.receiveFailed = s.receiveFailed
  BY <1>4 DEF SetUpFailed
<1>6. initialized' = FALSE
  BY DEF SetupFailed
<1>7. HeldInv'
  BY <1>6 DEF HeldInv
<1>8. ASSUME Sound'
      PROVE  Contract!Encode(w, h)
  <2>1. ~t.receiveFailed
    BY <1>2, <1>8 DEF Sound
  <2>2. Contract!SetupFails
    BY <1>6 DEF SetupFailed, Contract!SetupFails, Contract!SetupFailed, AbstractContext
  <2>3. Contract!DropHeld
    <3>1. nv'.dropped = s.dropped /\ ~s.receiveFailed
      BY <1>2, <1>4, <1>5, <2>1
    <3> QED
      BY <1>3, <3>1, RestartDropsHeld
  <2>4. Contract!Submit(w, h) /\ ~Contract!UpToDate(w, h)
    BY <1>1, SubmitRefines, UpToDateAgrees
  <2>5. PICK P, none : P = Good(submitted', t.receiveFailed) /\ none = <<>>
    OBVIOUS
  <2>6. Steady(P)
    BY <1>1, <1>5, <2>5, SteadyGrows
  <2>7. Contract!CallBack("Error", none, none)
    <3>1. none \in Seq(P) /\ none = Mapped(submitted', none)
      BY <2>5, EmptySeq, MappedEmpty
    <3>2. CallBack("Error", none, none)
      BY <2>5 DEF ReportNoContext
    <3> QED
      BY <2>6, <3>1, <3>2, CallBackRefines
  <2>8. Contract!ReportNoContext
    BY <2>5, <2>7 DEF ReportNoContext, Contract!ReportNoContext, NextFrame, Contract!NextFrame
  <2> QED
    BY <2>2, <2>3, <2>4, <2>8 DEF Contract!Encode
<1> QED
  BY <1>7, <1>8

LEMMA EncodeRefines ==
  ASSUME NvInv, HeldInv, NEW w \in Lengths, NEW h \in Lengths, Encode(w, h)
  PROVE  HeldInv' /\ (Sound' => Contract!Encode(w, h))
<1>1. ~nv.crashed /\ Submit(w, h)
  BY DEF Encode
<1>2. CASE UpToDate(w, h) /\ EncodeInternal(nv) /\ UNCHANGED <<params, setup>>
  BY <1>1, <1>2, EncodeUpToDateRefines
<1>3. ASSUME ~UpToDate(w, h),
             NEW s \in (IF initialized THEN ShutDown(nv) ELSE {nv}),
             \/ /\ s.crashed
                /\ nv' = s
             \/ /\ ~s.crashed
                /\ SetupSucceeded
                /\ \E t \in SetUp(s, w, h) : EncodeInternal(t)
             \/ /\ ~s.crashed
                /\ SetupFailed
                /\ nv' \in SetUpFails(s, w, h)
                /\ ReportNoContext
      PROVE  HeldInv' /\ (Sound' => Contract!Encode(w, h))
  <2>1. \/ Idle(FramesOf(submitted), s) /\ (nv.receiveFailed => s.receiveFailed)
        \/ initialized /\ Crashed(FramesOf(submitted), nv, s)
    BY <1>1, <1>3, RestartEnds
  <2>2. CASE s.crashed /\ nv' = s
    BY <2>2 DEF HeldInv, Sound
  <2>3. CASE ~s.crashed
    <3>1. Idle(FramesOf(submitted), s) /\ (nv.receiveFailed => s.receiveFailed)
      BY <2>1, <2>3 DEF Crashed
    <3>2. CASE SetupSucceeded /\ \E t \in SetUp(s, w, h) : EncodeInternal(t)
      BY <1>1, <1>3, <3>1, <3>2, EncodeAnewRefines
    <3>3. CASE SetupFailed /\ nv' \in SetUpFails(s, w, h) /\ ReportNoContext
      BY <1>1, <1>3, <3>1, <3>3, EncodeFailsRefines
    <3> QED
      BY <1>3, <2>3, <3>2, <3>3
  <2> QED
    BY <1>3, <2>2, <2>3
<1> QED
  BY <1>2, <1>3 DEF Encode

LEMMA InitRefines ==
  ASSUME Init
  PROVE  HeldInv /\ Contract!Init
<1>1. initialized = FALSE /\ stream = <<>> /\ calls = <<>>
  BY DEF Init, BaseInit
<1>2. AbstractPackets(stream) = <<>>
  BY <1>1, MappedEmpty DEF AbstractPackets, AbstractPacket, Mapped, Abs
<1>3. [i \in DOMAIN calls |->
         [frame |-> calls[i].frame, rest |-> AbstractPackets(calls[i].rest)]] = <<>>
  BY <1>1, MappedEmpty
     DEF AbstractPackets, AbstractPacket, MappedCalls, CallAbs, Mapped, Abs
<1>4. AbstractContext = Null /\ nv.dropped = {}
  BY <1>1 DEF AbstractContext, Init, NoNv
<1>5. Contract!BaseInit
  BY <1>2, <1>3 DEF Init, BaseInit, Contract!BaseInit
<1> QED
  BY <1>1, <1>4, <1>5 DEF HeldInv, Contract!Init

LEMMA NextRefines ==
  ASSUME NvInv, HeldInv, [Next]_vars
  PROVE  HeldInv' /\ [Sound' => Contract!Next]_(Contract!vars)
<1>1. CASE Setter /\ ~nv.crashed /\ UNCHANGED <<nv, window>>
  BY <1>1, SetterRefines, SetterHolds
<1>2. CASE Initialize
  BY <1>2, InitializeRefines
<1>3. CASE Shutdown
  BY <1>3, ShutdownRefines
<1>4. CASE Drain
  BY <1>4, DrainRefines
<1>5. CASE WindowReleases
  BY <1>5, WindowReleasesRefines
<1>6. ASSUME NEW w \in Lengths, NEW h \in Lengths, Encode(w, h)
      PROVE  HeldInv' /\ (Sound' => Contract!Next)
  <2>1. HeldInv' /\ (Sound' => Contract!Encode(w, h))
    BY <1>6, EncodeRefines
  <2> QED
    BY <2>1 DEF Contract!Next
<1>7. CASE CallBackReturns /\ ~nv.crashed /\ UNCHANGED <<nv, window>>
  BY <1>7, CallBackReturnsRefines, CallBackReturnsHolds
<1>8. CASE UNCHANGED vars
  <2>1. UNCHANGED baseVars /\ UNCHANGED nv
    BY <1>8 DEF vars
  <2>2. UNCHANGED <<initialized, submitted>>
    BY <2>1 DEF baseVars, setup, output
  <2>3. UNCHANGED AbstractContext /\ UNCHANGED nv.dropped
    BY <2>1, <2>2 DEF AbstractContext
  <2>4. UNCHANGED Contract!vars
    BY <2>1, <2>3, StutterRefines
  <2>5. HeldInv'
    BY <2>1, <2>2 DEF HeldInv
  <2> QED
    BY <2>4, <2>5
<1> QED
  BY <1>1, <1>2, <1>3, <1>4, <1>5, <1>6, <1>7, <1>8 DEF Next

(* Whatever NVENC, CUDA and the window do to vtkNvEncoderGL: as long as every
   packet could be received and the window keeps the resources, each of its
   steps is one that the contract allows.  The frames that wait in the driver
   come out in order, once, with the settings they were submitted with. *)
THEOREM NvImplementsContract == Spec => ImplementsContract
<1>1. Init => HeldInv /\ Contract!Init
  BY InitRefines
<1>2. NvInv /\ HeldInv /\ [Next]_vars => HeldInv' /\ [Sound' => Contract!Next]_(Contract!vars)
  BY NextRefines
<1> QED
  BY <1>1, <1>2, NvInvariant, PTL DEF Spec, ImplementsContract
-----------------------------------------------------------------------------
(* What is proved of the contract. *)
CP == INSTANCE EncoderContractProofs WITH
  NoContext <- Null,
  stream <- AbstractPackets(stream),
  calls <- [i \in DOMAIN calls |->
              [frame |-> calls[i].frame, rest |-> AbstractPackets(calls[i].rest)]],
  context <- AbstractContext,
  dropped <- nv.dropped

LEMMA ContractAssumptions == CP!LengthsAssumption /\ CP!BoundsAssumption
BY LengthsAssumption, BoundsAssumption DEF CP!LengthsAssumption, CP!BoundsAssumption

(* It is proved of the same specification. *)
LEMMA SameInit == Contract!Init => CP!Init
BY DEF Contract!Init, Contract!BaseInit, CP!Init, CP!BaseInit

LEMMA SameSetter ==
  ASSUME Contract!Setter, UNCHANGED <<AbstractContext, nv.dropped>>
  PROVE  CP!Next
BY DEF Contract!Setter, Contract!SetWidth, Contract!SetHeight, Contract!SetParams,
       Contract!SetForceIFrame, Contract!SetOutputHandler, Contract!Modified,
       Contract!setup, Contract!output,
       CP!Setter, CP!SetWidth, CP!SetHeight, CP!SetParams,
       CP!SetForceIFrame, CP!SetOutputHandler, CP!Modified, CP!setup, CP!output, CP!Next

LEMMA SameSetup ==
  /\ Contract!SetupSucceeded <=> CP!SetupSucceeded
  /\ Contract!SetupFails <=> CP!SetupFails
  /\ Contract!DropHeld <=> CP!DropHeld
  /\ \A w, h, p : Contract!NewContext(w, h, p) = CP!NewContext(w, h, p)
BY DEF Contract!SetupSucceeded, Contract!SetupFails, Contract!SetupFailed, Contract!DropHeld,
       Contract!NewContext, Contract!Range, CP!SetupSucceeded, CP!SetupFails, CP!SetupFailed,
       CP!DropHeld, CP!NewContext, CP!Range

LEMMA SameLife ==
  /\ Contract!Initialize <=> CP!Initialize
  /\ Contract!Drain <=> CP!Drain
  /\ Contract!Shutdown <=> CP!Shutdown
BY SameSetup
   DEF Contract!Initialize, Contract!Drain, Contract!Shutdown, Contract!baseVars,
       Contract!config, Contract!setup, Contract!output,
       CP!Initialize, CP!Drain, CP!Shutdown, CP!baseVars, CP!config, CP!setup, CP!output

LEMMA SameReports ==
  /\ \A status, packets : Contract!ReportResult(status, packets) <=> CP!ReportResult(status, packets)
  /\ Contract!ReportNoContext <=> CP!ReportNoContext
<1>1. \A status, packets, rest :
        Contract!CallBack(status, packets, rest) <=> CP!CallBack(status, packets, rest)
  BY DEF Contract!CallBack, Contract!NextFrame, CP!CallBack, CP!NextFrame
<1>2. Contract!NextFrame = CP!NextFrame
  BY DEF Contract!NextFrame, CP!NextFrame
<1> QED
  BY <1>1, <1>2 DEF Contract!ReportResult, Contract!ReportNoContext, CP!ReportResult,
                    CP!ReportNoContext

LEMMA SameEncodeInternal ==
  ASSUME NEW c
  PROVE  Contract!EncodeInternal(c) <=> CP!EncodeInternal(c)
BY Zenon DEF Contract!EncodeInternal, Contract!EncodeTakesIn, Contract!EncodeRefuses,
       Contract!NextFrame, Contract!Packet, Contract!ReportResult, Contract!CallBack,
       CP!EncodeInternal, CP!EncodeTakesIn, CP!EncodeRefuses,
       CP!NextFrame, CP!Packet, CP!ReportResult, CP!CallBack

LEMMA SameEncode ==
  ASSUME NEW w, NEW h
  PROVE  Contract!Encode(w, h) <=> CP!Encode(w, h)
<1>1. Contract!Submit(w, h) <=> CP!Submit(w, h)
  BY DEF Contract!Submit, CP!Submit
<1>2. Contract!UpToDate(w, h) <=> CP!UpToDate(w, h)
  BY DEF Contract!UpToDate, CP!UpToDate
<1> QED
  BY <1>1, <1>2, SameSetup, SameReports, SameEncodeInternal
     DEF Contract!Encode, Contract!setup, CP!Encode, CP!setup

LEMMA SameReturns == Contract!CallBackReturns <=> CP!CallBackReturns
BY DEF Contract!CallBackReturns, Contract!config, Contract!setup,
       CP!CallBackReturns, CP!config, CP!setup

LEMMA SameSpec == Contract!Spec => CP!Spec
<1>1. [Contract!Next]_(Contract!vars) => [CP!Next]_(CP!vars)
  <2>1. CASE Contract!Setter /\ UNCHANGED <<AbstractContext, nv.dropped>>
    BY <2>1, SameSetter
  <2>2. CASE Contract!Initialize \/ Contract!Drain \/ Contract!Shutdown
    BY <2>2, SameLife DEF CP!Next
  <2>3. ASSUME NEW w \in Lengths, NEW h \in Lengths, Contract!Encode(w, h)
        PROVE  CP!Next
    BY <2>3, SameEncode DEF CP!Next
  <2>4. CASE Contract!CallBackReturns /\ UNCHANGED <<AbstractContext, nv.dropped>>
    BY <2>4, SameReturns DEF CP!Next
  <2>5. CASE UNCHANGED Contract!vars
    BY <2>5 DEF Contract!vars, Contract!baseVars, Contract!config, Contract!setup,
                Contract!output, CP!vars, CP!baseVars, CP!config, CP!setup, CP!output
  <2> QED
    BY <2>1, <2>2, <2>3, <2>4, <2>5 DEF Contract!Next
<1> QED
  BY <1>1, SameInit, PTL DEF Contract!Spec, CP!Spec

(* What an application may rely on: each packet was encoded for its frame as it
   was given, at its size up to the rounding of the driver; each frame is in one
   place; packets come in order, new configurations begin with key frames, and
   a handler hears of every frame once. *)
KeepsContract ==
  /\ Contract!PacketsMatchTheirFrame
  /\ Contract!EveryFrameInOnePlace
  /\ Contract!DeliveredInOrder
  /\ Contract!NewConfigurationStartsWithKey
  /\ Contract!OneReportPerFrame

LEMMA SameProperties ==
  /\ CP!PacketsMatchTheirFrame => Contract!PacketsMatchTheirFrame
  /\ CP!EveryFrameInOnePlace => Contract!EveryFrameInOnePlace
  /\ CP!DeliveredInOrder => Contract!DeliveredInOrder
  /\ CP!NewConfigurationStartsWithKey => Contract!NewConfigurationStartsWithKey
  /\ CP!OneReportPerFrame => Contract!OneReportPerFrame
<1>1. CP!PacketsMatchTheirFrame => Contract!PacketsMatchTheirFrame
  BY Zenon DEF CP!PacketsMatchTheirFrame, CP!SubmittedAs, Contract!PacketsMatchTheirFrame,
               Contract!SubmittedAs
<1>2. CP!EveryFrameInOnePlace => Contract!EveryFrameInOnePlace
  BY Zenon DEF CP!EveryFrameInOnePlace, CP!Delivered, CP!InEvents, CP!RestPackets, CP!Held,
               CP!Frames, CP!Range, Contract!EveryFrameInOnePlace, Contract!Delivered,
               Contract!InEvents, Contract!RestPackets, Contract!Held, Contract!Frames,
               Contract!Range
<1>3. CP!DeliveredInOrder => Contract!DeliveredInOrder
  BY Zenon DEF CP!DeliveredInOrder, Contract!DeliveredInOrder
<1>4. CP!NewConfigurationStartsWithKey => Contract!NewConfigurationStartsWithKey
  BY Zenon DEF CP!NewConfigurationStartsWithKey, Contract!NewConfigurationStartsWithKey
<1>5. CP!OneReportPerFrame => Contract!OneReportPerFrame
  BY Zenon DEF CP!OneReportPerFrame, CP!Frames, Contract!OneReportPerFrame, Contract!Frames
<1> QED
  BY <1>1, <1>2, <1>3, <1>4, <1>5

(* As long as every packet could be received and the window keeps the
   resources, vtkNvEncoderGL is an encoder, *)
THEOREM SoundImplementsContract == Spec /\ []Sound => Contract!Spec
<1>1. ImplementsContract /\ []Sound => Contract!Spec
  BY PTL DEF ImplementsContract, Contract!Spec
<1> QED
  BY <1>1, NvImplementsContract, PTL

(* and so far an application may rely on what every encoder promises, over
   drains, restarts and setups that fail, with frames waiting in the driver. *)
THEOREM SoundKeepsContract == Spec /\ []Sound => []KeepsContract
<1>1. CP!Spec => []CP!PacketsMatchTheirFrame
  BY ContractAssumptions, CP!PacketsMatch
<1>2. CP!Spec => []CP!EveryFrameInOnePlace
  BY ContractAssumptions, CP!NoFrameLostOrTwice
<1>3. CP!Spec => []CP!DeliveredInOrder
  BY ContractAssumptions, CP!AlwaysDeliveredInOrder
<1>4. CP!Spec => []CP!NewConfigurationStartsWithKey
  BY ContractAssumptions, CP!AlwaysKeyFirst
<1>5. CP!Spec => []CP!OneReportPerFrame
  BY ContractAssumptions, CP!AlwaysOneReport
<1>6. CP!PacketsMatchTheirFrame /\ CP!EveryFrameInOnePlace /\ CP!DeliveredInOrder
        /\ CP!NewConfigurationStartsWithKey /\ CP!OneReportPerFrame => KeepsContract
  BY SameProperties DEF KeepsContract
<1> QED
  BY <1>1, <1>2, <1>3, <1>4, <1>5, <1>6, SoundImplementsContract, SameSpec, PTL
=============================================================================

--------------------------- MODULE RecordingProofs ---------------------------
(***************************************************************************)
(* Proofs about WebmMuxer, for an application that may give it any packets *)
(* at any time, and about Recording.                                       *)
(***************************************************************************)
EXTENDS Recording, SequenceTheorems, TLAPS

LEMMA Quotients ==
  ASSUME NEW c \in Nat \ {0}, NEW a \in Nat
  PROVE  /\ a \div c \in Nat
         /\ \A b \in Nat : a <= b => a \div c <= b \div c
<1>1. \A n \in Nat : /\ n = c * (n \div c) + (n % c) /\ n \div c \in Int /\ n % c \in 0..(c - 1)
  OBVIOUS
<1>2. \A q \in Int : q < 0 => c * q <= 0 - c
  <2> TAKE q \in Int
  <2> HAVE q < 0
  <2>1. c * (0 - 1 - q) >= 0
    <3>1. PICK k \in Nat : k = 0 - 1 - q
      OBVIOUS
    <3>2. c * k >= 0
      OBVIOUS
    <3> QED
      BY <3>1, <3>2
  <2>2. c * (0 - 1 - q) = 0 - c - c * q
    OBVIOUS
  <2> QED
    BY <2>1, <2>2
<1>3. \A n \in Nat : n \div c \in Nat
  <2> TAKE n \in Nat
  <2> SUFFICES ASSUME n \div c < 0 PROVE FALSE
    BY <1>1
  <2>1. c * (n \div c) <= 0 - c
    BY <1>1, <1>2
  <2> QED
    BY <1>1, <2>1
<1>4. ASSUME NEW b \in Nat, a <= b, a \div c > b \div c
      PROVE  FALSE
  <2>1. PICK p \in Int, q \in Int : p = a \div c /\ q = b \div c
    BY <1>1
  <2>2. c * (q - p) <= 0 - c
    BY <1>2, <1>4, <2>1
  <2>3. c * (q - p) = c * q - c * p
    OBVIOUS
  <2>4. b - a < 0
    <3>1. a = c * p + (a % c) /\ b = c * q + (b % c)
      BY <1>1, <2>1
    <3>2. a % c \in 0..(c - 1) /\ b % c \in 0..(c - 1)
      BY <1>1
    <3>3. c * p \in Int /\ c * q \in Int
      OBVIOUS
    <3> QED
      BY <2>2, <2>3, <3>1, <3>2, <3>3
  <2> QED
    BY <1>4, <2>4
<1> QED
  BY <1>3, <1>4
-----------------------------------------------------------------------------
(* Types. *)

LEMMA SegmentIsThere ==
  /\ \A s \in Segments : s # None
  /\ \A w \in Writers : w # None
BY NoneAssumption

LEMMA PacketParts ==
  ASSUME NEW p \in Packets
  PROVE  p.ts \in Nat /\ p.w \in Nat /\ p.h \in Nat
<1>1. p.ts \in 0..MaxPTS /\ p.w \in Widths /\ p.h \in Heights
  BY DEF Packets
<1>2. MaxPTS \in Nat /\ Widths \subseteq Nat /\ Heights \subseteq Nat
  BY MuxerAssumption
<1>3. p.ts \in Nat
  <2>1. \A x \in 0..MaxPTS : x \in Nat
    BY <1>2
  <2> QED
    BY <1>1, <2>1
<1> QED
  BY <1>1, <1>2, <1>3

LEMMA SegmentParts ==
  ASSUME NEW s \in Segments
  PROVE  /\ s.scale \in Scales /\ s.scale \in Nat \ {0} /\ s.w \in Nat /\ s.h \in Nat
         /\ s.payload \in Nat /\ s.clusters \in Nat /\ s.timecode \in Nat /\ s.lastTs \in Nat
         /\ s.points \in SUBSET [time : Nat, pos : Int]
<1>1. /\ s.scale \in Scales /\ s.w \in Nat /\ s.h \in Nat
      /\ s.payload \in Nat /\ s.clusters \in Nat /\ s.timecode \in Nat /\ s.lastTs \in Nat
      /\ s.points \in SUBSET [time : Nat, pos : Int]
  BY DEF Segments
<1>2. s.scale \in Nat \ {0}
  BY <1>1, MuxerAssumption
<1> QED
  BY <1>1, <1>2

LEMMA NewSegmentTyped ==
  ASSUME settings \in Settings, NEW w \in Nat, NEW h \in Nat, NEW s, s = NewSegment(w, h)
  PROVE  /\ s \in Segments
         /\ s.w = w /\ s.h = h /\ s.clusters = 0 /\ s.lastTs = 0 /\ s.points = {}
         /\ ~s.headerOut
<1>1. settings.timeStampScale \in Scales
  BY DEF Settings
<1>2. settings.outputCues \in BOOLEAN /\ (~settings.liveMode) \in BOOLEAN
  BY DEF Settings
<1>3. {} \in SUBSET [time : Nat, pos : Int]
  OBVIOUS
<1> QED
  BY <1>1, <1>2, <1>3 DEF NewSegment, Segments

LEMMA NewWriterTyped ==
  ASSUME settings \in Settings, NEW opened \in BOOLEAN, NEW w, w = NewWriter(opened)
  PROVE  /\ w \in Writers
         /\ w.data = <<>> /\ w.memory = settings.writeToMemory /\ w.opened = opened
<1>1. settings.writeToMemory \in BOOLEAN
  BY DEF Settings
<1>2. <<>> \in Seq(ElementsOf)
  BY EmptySeq
<1> QED
  BY <1>1, <1>2 DEF NewWriter, Writers

LEMMA ForcedTyped ==
  ASSUME NEW s \in Segments, NEW t, t = Forced(s)
  PROVE  /\ t \in Segments
         /\ t.w = s.w /\ t.h = s.h /\ t.scale = s.scale /\ t.cues = s.cues
         /\ t.headerOut = s.headerOut /\ t.payload = s.payload
         /\ t.clusters = s.clusters /\ t.timecode = s.timecode /\ t.lastTs = s.lastTs
         /\ t.points = s.points
<1>1. (s.force \/ settings.forceNewClusters) \in BOOLEAN
  OBVIOUS
<1>2. t = [s EXCEPT !.force = s.force \/ settings.forceNewClusters]
  BY DEF Forced
<1>3. PICK f \in BOOLEAN : t = [s EXCEPT !.force = f]
  BY <1>1, <1>2
<1> QED
  BY <1>3 DEF Segments

SegmentAfter(s, p, t) ==
  /\ t.w = s.w /\ t.h = s.h /\ t.scale = s.scale /\ t.lastTs = p.ts
  /\ NeedsNewCluster(s, p) => t.timecode = p.ts \div s.scale
  /\ ~NeedsNewCluster(s, p) => t.timecode = s.timecode

PointsAfter(s, w, p) ==
  IF NeedsNewCluster(s, p) /\ s.cues
  THEN s.points \cup {[time |-> p.ts \div s.scale, pos |-> MaxOffset(s, w)]}
  ELSE s.points

LEMMA SegmentWithTyped ==
  ASSUME NEW s \in Segments, NEW w \in Writers, NEW p \in Packets,
         NEW t, t = SegmentWith(s, w, p)
  PROVE  /\ t \in Segments /\ SegmentAfter(s, p, t)
         /\ t.headerOut /\ t.payload = Payload(s, w)
         /\ t.points = PointsAfter(s, w, p)
<1> DEFINE new == NeedsNewCluster(s, p)
           k == IF new THEN s.clusters + 1 ELSE s.clusters
           c == IF new THEN p.ts \div s.scale ELSE s.timecode
           q == IF new /\ s.cues
                THEN s.points \cup {[time |-> p.ts \div s.scale, pos |-> MaxOffset(s, w)]}
                ELSE s.points
<1>1. /\ s.scale \in Nat \ {0} /\ p.ts \in Nat /\ s.clusters \in Nat /\ s.timecode \in Nat
      /\ s.payload \in Nat /\ s.points \in SUBSET [time : Nat, pos : Int]
      /\ w.data \in Seq(ElementsOf)
  BY PacketParts, SegmentParts DEF Writers
<1>2. p.ts \div s.scale \in Nat
  BY <1>1, Quotients
<1>3. Len(w.data) \in Nat
  BY <1>1, LenProperties
<1>4. Payload(s, w) \in Nat /\ MaxOffset(s, w) \in Int
  BY <1>1, <1>3 DEF Payload, MaxOffset
<1>5. k \in Nat /\ c \in Nat
  BY <1>1, <1>2
<1>6. q \in SUBSET [time : Nat, pos : Int]
  BY <1>1, <1>2, <1>4
<1>7. t = [s EXCEPT !.headerOut = TRUE, !.payload = Payload(s, w), !.clusters = k,
                    !.timecode = c, !.lastTs = p.ts, !.force = FALSE, !.points = q]
  BY DEF SegmentWith
<1> HIDE DEF k, c, q, new
<1>8. t \in Segments
  BY <1>1, <1>4, <1>5, <1>6, <1>7, ZenonT(30) DEF Segments
<1>9. /\ t.w = s.w /\ t.h = s.h /\ t.scale = s.scale /\ t.headerOut
      /\ t.payload = Payload(s, w) /\ t.lastTs = p.ts /\ t.timecode = c /\ t.points = q
  BY <1>7 DEF Segments
<1>10. SegmentAfter(s, p, t)
  BY <1>9 DEF c, new, SegmentAfter
<1> QED
  BY <1>8, <1>9, <1>10 DEF q, new, PointsAfter

(* What a packet adds, one element after another. *)
HeaderOf(s) == Header(s.w, s.h, s.scale)
ClusterOf(s, p) == Cluster(p.ts \div s.scale)
StartOf(s, p) == IF NeedsNewCluster(s, p) THEN p.ts \div s.scale ELSE s.timecode
BlockOf(s, p, n) == Block(n, (p.ts \div s.scale) - StartOf(s, p))

WithHeader(s, d) == IF s.headerOut THEN d ELSE Append(d, HeaderOf(s))
WithCluster(s, p, d) ==
  IF NeedsNewCluster(s, p)
  THEN Append(WithHeader(s, d), ClusterOf(s, p))
  ELSE WithHeader(s, d)

LEMMA ElementParts ==
  ASSUME NEW s \in Segments, NEW p \in Packets, NEW n \in Nat, started' \in Nat
  PROVE  HeaderOf(s) \in ElementsOf /\ ClusterOf(s, p) \in ElementsOf
         /\ BlockOf(s, p, n) \in ElementsOf
         /\ StartOf(s, p) \in Nat /\ p.ts \div s.scale \in Nat
<1>1. /\ s.scale \in Scales /\ s.scale \in Nat \ {0} /\ p.ts \in Nat /\ s.timecode \in Nat
      /\ s.w \in Nat /\ s.h \in Nat
  BY PacketParts, SegmentParts
<1>2. p.ts \div s.scale \in Nat
  BY <1>1, Quotients
<1>3. HeaderOf(s) \in ElementsOf
  BY <1>1 DEF HeaderOf, Header, ElementsOf
<1>4. ClusterOf(s, p) \in ElementsOf
  BY <1>2 DEF ClusterOf, Cluster, ElementsOf
<1>5. StartOf(s, p) \in Nat
  BY <1>1, <1>2 DEF StartOf
<1>6. BlockOf(s, p, n) \in ElementsOf
  BY <1>2, <1>5 DEF BlockOf, Block, ElementsOf
<1> QED
  BY <1>2, <1>3, <1>4, <1>5, <1>6

LEMMA FourParts ==
  ASSUME NEW S, NEW d \in Seq(S), NEW a \in Seq(S), NEW c \in Seq(S), NEW b \in S
  PROVE  /\ (a \o c) \o <<b>> \in Seq(S)
         /\ d \o ((a \o c) \o <<b>>) = Append((d \o a) \o c, b)
<1>1. a \o c \in Seq(S) /\ d \o a \in Seq(S) /\ <<b>> \in Seq(S)
  BY ConcatProperties
<1>2. (d \o a) \o c \in Seq(S) /\ (a \o c) \o <<b>> \in Seq(S)
  BY <1>1, ConcatProperties
<1>3. d \o ((a \o c) \o <<b>>) = (d \o (a \o c)) \o <<b>>
  BY <1>1, ConcatAssociative
<1>4. d \o (a \o c) = (d \o a) \o c
  BY ConcatAssociative
<1>5. Append((d \o a) \o c, b) = ((d \o a) \o c) \o <<b>>
  BY <1>2, AppendIsConcat
<1> QED
  BY <1>2, <1>3, <1>4, <1>5

LEMMA ElementsAdded ==
  ASSUME NEW s \in Segments, NEW p \in Packets, NEW n \in Nat, started' \in Nat,
         NEW d \in Seq(ElementsOf)
  PROVE  /\ Elements(s, p, n) \in Seq(ElementsOf)
         /\ d \o Elements(s, p, n) = Append(WithCluster(s, p, d), BlockOf(s, p, n))
<1>1. PICK hdr, cl, b : hdr = HeaderOf(s) /\ cl = ClusterOf(s, p) /\ b = BlockOf(s, p, n)
  OBVIOUS
<1>2. PICK A, C : /\ A = IF s.headerOut THEN <<>> ELSE <<hdr>>
                  /\ C = IF NeedsNewCluster(s, p) THEN <<cl>> ELSE <<>>
  OBVIOUS
<1>3. hdr \in ElementsOf /\ cl \in ElementsOf /\ b \in ElementsOf
  BY <1>1, ElementParts
<1>4. Elements(s, p, n) = (A \o C) \o <<b>>
  BY <1>1, <1>2 DEF Elements, HeaderOf, ClusterOf, BlockOf, StartOf
<1>5. A \in Seq(ElementsOf) /\ C \in Seq(ElementsOf)
  BY <1>2, <1>3, EmptySeq
<1>6. d \o A = WithHeader(s, d)
  BY <1>1, <1>2, <1>3, AppendIsConcat, ConcatEmptySeq DEF WithHeader
<1>7. d \o A \in Seq(ElementsOf)
  BY <1>5, ConcatProperties
<1>8. (d \o A) \o C = WithCluster(s, p, d)
  BY <1>1, <1>2, <1>3, <1>6, <1>7, AppendIsConcat, ConcatEmptySeq, ZenonT(30) DEF WithCluster
<1>9. /\ (A \o C) \o <<b>> \in Seq(ElementsOf)
      /\ d \o ((A \o C) \o <<b>>) = Append((d \o A) \o C, b)
  BY <1>3, <1>5, FourParts, SMTT(20)
<1> QED
  BY <1>1, <1>4, <1>8, <1>9

(* The frame is in the segment and the elements are written, or nothing is. *)
LEMMA AddFrameTyped ==
  ASSUME NEW s \in Segments, NEW w \in Writers, NEW p \in Packets, NEW n \in Nat,
         started' \in Nat, AddFrame(s, w, p, n)
  PROVE  /\ segment' \in Segments /\ writer' \in Writers
         /\ writer'.memory = w.memory /\ writer'.opened = w.opened
         /\ \/ /\ Accepts(s, w, p) /\ UNCHANGED refused
               /\ segment' = SegmentWith(s, w, p)
               /\ writer'.data = w.data \o Elements(s, p, n)
            \/ /\ ~Accepts(s, w, p)
               /\ segment' = s /\ writer' = w /\ refused' = refused \cup {n}
<1>1. CASE Accepts(s, w, p)
  <2>1. /\ segment' = SegmentWith(s, w, p) /\ UNCHANGED refused
        /\ writer' = [w EXCEPT !.data = @ \o Elements(s, p, n)]
    BY <1>1 DEF AddFrame
  <2>2. w.data \in Seq(ElementsOf)
    BY DEF Writers
  <2>3. Elements(s, p, n) \in Seq(ElementsOf)
    BY EmptySeq, ElementsAdded
  <2>4. w.data \o Elements(s, p, n) \in Seq(ElementsOf)
    BY <2>2, <2>3, ConcatProperties
  <2>5. PICK d \in Seq(ElementsOf) : d = w.data \o Elements(s, p, n)
    BY <2>4
  <2>6. writer' = [w EXCEPT !.data = d]
    BY <2>1, <2>5
  <2>7. /\ writer' \in Writers /\ writer'.memory = w.memory /\ writer'.opened = w.opened
        /\ writer'.data = d
    BY <2>6 DEF Writers
  <2>8. segment' \in Segments
    BY <2>1, SegmentWithTyped
  <2> QED
    BY <1>1, <2>1, <2>5, <2>7, <2>8
<1>2. CASE ~Accepts(s, w, p)
  BY <1>2 DEF AddFrame
<1> QED
  BY <1>1, <1>2

LEMMA FinalizedTyped ==
  ASSUME segment \in Segments, writer \in Writers
  PROVE  Finalized \in Seq(ElementsOf)
<1>1. writer.data \in Seq(ElementsOf)
  BY DEF Writers
<1>2. Cues(segment.points) \in ElementsOf
  BY SegmentParts DEF Cues, ElementsOf
<1> QED
  BY <1>1, <1>2, AppendProperties DEF Finalized

LEMMA LetGoTyped ==
  ASSUME files \in Seq(Seq(ElementsOf)), wasted \in BOOLEAN, NEW data \in Seq(ElementsOf),
         LetGo(data)
  PROVE  /\ files' \in Seq(Seq(ElementsOf)) /\ wasted' \in BOOLEAN /\ readTo' = 0
         /\ UNCHANGED <<fetched, changedOpen>>
<1>1. PICK P : P = Seq(ElementsOf)
  OBVIOUS
<1>2. files' \in Seq(P)
  BY <1>1, AppendProperties DEF LetGo
<1> QED
  BY <1>1, <1>2 DEF LetGo

(* The segment and its writer are there together. *)
Paired == (isHeaderWritten <=> segment # None) /\ (isHeaderWritten <=> writer # None)

LEMMA CloseTyped ==
  ASSUME TypeOK, object = "alive", Close
  PROVE  /\ files' \in Seq(Seq(ElementsOf)) /\ wasted' \in BOOLEAN /\ readTo' = 0
         /\ UNCHANGED <<fetched, changedOpen>>
<1>1. PICK data : data = IF isHeaderWritten THEN Finalized ELSE <<>>
  OBVIOUS
<1>2. isHeaderWritten => segment \in Segments /\ writer \in Writers
  BY DEF TypeOK
<1>3. data \in Seq(ElementsOf)
  BY <1>1, <1>2, FinalizedTyped, EmptySeq
<1>4. LetGo(data)
  BY <1>1 DEF Close
<1> QED
  BY <1>3, <1>4, LetGoTyped DEF TypeOK

(* As many bytes are read as there are. *)
ReadInv == readTo <= IF writer # None THEN Len(writer.data) ELSE 0

TypeInv == TypeOK /\ ReadInv

LEMMA DataTyped ==
  ASSUME TypeOK, writer # None
  PROVE  /\ writer \in Writers /\ writer.data \in Seq(ElementsOf) /\ Len(writer.data) \in Nat
<1>1. writer \in Writers
  BY DEF TypeOK
<1>2. writer.data \in Seq(ElementsOf)
  BY <1>1 DEF Writers
<1> QED
  BY <1>1, <1>2, LenProperties

LEMMA HeaderTyped ==
  ASSUME TypeInv, WriteFileHeader
  PROVE  TypeInv'
<1>1. PICK opened \in BOOLEAN : writer' = NewWriter(opened)
  BY DEF WriteFileHeader
<1>2. /\ object = "alive" /\ segment' = NewSegment(width, height) /\ isHeaderWritten' = TRUE
      /\ started' = started + 1
      /\ UNCHANGED <<width, height, settings, object, given, refused, changes>>
  BY DEF WriteFileHeader, properties
<1>3. PICK data : data = IF writer # None THEN writer.data ELSE <<>>
  OBVIOUS
<1>4. LetGo(data)
  BY <1>3 DEF WriteFileHeader
<1>5. data \in Seq(ElementsOf)
  BY <1>3, DataTyped, EmptySeq DEF TypeInv
<1>6. /\ files' \in Seq(Seq(ElementsOf)) /\ wasted' \in BOOLEAN /\ readTo' = 0
      /\ UNCHANGED <<fetched, changedOpen>>
  BY <1>4, <1>5, LetGoTyped DEF TypeInv, TypeOK
<1>7. segment' \in Segments
  BY <1>2, NewSegmentTyped DEF TypeInv, TypeOK
<1>8. writer' \in Writers /\ writer'.data = <<>>
  BY <1>1, NewWriterTyped DEF TypeInv, TypeOK
<1>9. segment' # None /\ writer' # None
  BY <1>7, <1>8, SegmentIsThere
<1>10. TypeOK'
  BY <1>2, <1>6, <1>7, <1>8, <1>9 DEF TypeInv, TypeOK
<1>11. ReadInv'
  BY <1>6, <1>8, <1>9, EmptySeq DEF ReadInv
<1> QED
  BY <1>10, <1>11 DEF TypeInv

LEMMA TrailerTyped ==
  ASSUME TypeInv, WriteFileTrailer \/ Delete
  PROVE  TypeInv'
<1>1. /\ object = "alive" /\ segment' = None /\ writer' = None /\ Close
      /\ object' = "deleted" \/ (object' = object /\ isHeaderWritten' = FALSE)
      /\ isHeaderWritten' \in BOOLEAN
      /\ UNCHANGED <<width, height, settings, started, given, refused, changes>>
  BY DEF WriteFileTrailer, Delete, properties, TypeInv, TypeOK
<1>2. /\ files' \in Seq(Seq(ElementsOf)) /\ wasted' \in BOOLEAN /\ readTo' = 0
      /\ UNCHANGED <<fetched, changedOpen>>
  BY <1>1, CloseTyped DEF TypeInv
<1>3. TypeOK'
  BY <1>1, <1>2 DEF TypeInv, TypeOK
<1>4. ReadInv'
  BY <1>1, <1>2 DEF ReadInv
<1> QED
  BY <1>3, <1>4 DEF TypeInv

Entries == [packet : Packets, segment : Nat, memory : BOOLEAN]

LEMMA GivenGrows ==
  ASSUME TypeOK, NEW p \in Packets, given' = Append(given, Given(p)), started' \in Nat
  PROVE  /\ given' \in Seq(Entries) /\ given \in Seq(Entries)
         /\ Len(given) \in Nat /\ Len(given') = Len(given) + 1
         /\ DOMAIN given = 1..Len(given) /\ DOMAIN given' = 1..(Len(given) + 1)
         /\ \A n \in DOMAIN given : given'[n] = given[n]
         /\ given'[Len(given) + 1] = Given(p)
<1>1. given \in Seq(Entries)
  BY DEF TypeOK, Entries
<1>2. (writer' # None /\ writer'.memory) \in BOOLEAN
  OBVIOUS
<1>3. (IF writer' # None /\ writer'.opened THEN started' ELSE 0) \in Nat
  OBVIOUS
<1>4. PICK m \in BOOLEAN, k \in Nat : Given(p) = [packet |-> p, segment |-> k, memory |-> m]
  BY <1>2, <1>3 DEF Given
<1>5. Given(p) \in Entries
  BY <1>4 DEF Entries
<1>6. PICK e \in Entries : e = Given(p)
  BY <1>5
<1>7. given' = Append(given, e)
  BY <1>6
<1> QED
  BY <1>1, <1>6, <1>7, AppendProperties, LenProperties

LEMMA BlockTyped ==
  ASSUME TypeInv, NEW p \in Packets, WriteWebmBlock(p)
  PROVE  TypeInv'
<1>1. /\ object = "alive" /\ given' = Append(given, Given(p)) /\ UNCHANGED changes
      /\ TypeOK /\ ReadInv
  BY DEF WriteWebmBlock, TypeInv
<1>2. Len(given) + 1 \in Nat /\ DOMAIN given = 1..Len(given) /\ Len(given) \in Nat
  BY <1>1, LenProperties DEF TypeOK
<1>3. PICK n \in Nat : n = Len(given) + 1
  BY <1>2
<1>4. CASE WriteBlockInNewSegment(p)
  <2>1. /\ Close /\ started' = started + 1 /\ width' = p.w /\ height' = p.h
        /\ isHeaderWritten' = TRUE /\ UNCHANGED <<settings, object>>
    BY <1>4 DEF WriteBlockInNewSegment
  <2>2. PICK s, t, w : s = NewSegment(p.w, p.h) /\ t = Forced(s) /\ w = NewWriter(TRUE)
    OBVIOUS
  <2>3. AddFrame(t, w, p, n)
    BY <1>3, <1>4, <2>2 DEF WriteBlockInNewSegment
  <2>4. s \in Segments /\ t \in Segments /\ w \in Writers
    <3>1. settings \in Settings /\ p.w \in Nat /\ p.h \in Nat
      BY <1>1, PacketParts DEF TypeOK
    <3>2. s \in Segments
      BY <2>2, <3>1, NewSegmentTyped
    <3>3. t \in Segments
      BY <2>2, <3>2, ForcedTyped
    <3>4. w \in Writers
      BY <2>2, <3>1, NewWriterTyped
    <3> QED
      BY <3>2, <3>3, <3>4
  <2>5. started' \in Nat
    BY <1>1, <2>1 DEF TypeOK
  <2>6. /\ segment' \in Segments /\ writer' \in Writers
        /\ refused' = refused \/ refused' = refused \cup {n}
    BY <2>3, <2>4, <2>5, AddFrameTyped
  <2>7. segment' # None /\ writer' # None
    BY <2>6, SegmentIsThere
  <2>8. /\ files' \in Seq(Seq(ElementsOf)) /\ wasted' \in BOOLEAN /\ readTo' = 0
        /\ UNCHANGED <<fetched, changedOpen>>
    BY <1>1, <2>1, CloseTyped
  <2>9. given' \in Seq(Entries) /\ refused' \subseteq DOMAIN given'
    BY <1>1, <1>2, <1>3, <2>5, <2>6, GivenGrows DEF TypeOK
  <2>10. width' \in Nat /\ height' \in Nat
    BY <2>1, PacketParts
  <2>11. TypeOK'
    <3>1. /\ settings' \in Settings /\ fetched' \in Seq(ElementsOf) /\ readTo' \in Nat
          /\ changes' \in Nat
      BY <1>1, <2>1, <2>8 DEF TypeOK
    <3>2. object' \in {"alive", "deleted", "crashed"}
      BY <1>1, <2>1
    <3>3. changedOpen' \in BOOLEAN /\ isHeaderWritten' = TRUE
      BY <1>1, <2>1, <2>8 DEF TypeOK
    <3> QED
      BY <2>5, <2>6, <2>7, <2>8, <2>9, <2>10, <3>1, <3>2, <3>3 DEF TypeOK, Entries
  <2>12. writer'.data \in Seq(ElementsOf)
    BY <2>6 DEF Writers
  <2>13. ReadInv'
    BY <2>7, <2>8, <2>12, LenProperties DEF ReadInv
  <2> QED
    BY <2>11, <2>13 DEF TypeInv
<1>5. CASE WriteBlockInSegment(p)
  <2>1. /\ UNCHANGED <<width, height, settings, isHeaderWritten, object, files, fetched, readTo>>
        /\ UNCHANGED <<wasted, changedOpen, started>> /\ segment # None
    BY <1>5 DEF WriteBlockInSegment, properties, reader
  <2>2. PICK t, w : t = Forced(segment) /\ w = writer
    OBVIOUS
  <2>3. AddFrame(t, w, p, n)
    BY <1>3, <1>5, <2>2 DEF WriteBlockInSegment
  <2>4. segment \in Segments /\ writer \in Writers /\ writer # None
    BY <1>1, <2>1 DEF TypeOK
  <2>5. t \in Segments /\ w \in Writers
    BY <2>2, <2>4, ForcedTyped
  <2>6. started' \in Nat
    BY <1>1, <2>1 DEF TypeOK
  <2>7. /\ segment' \in Segments /\ writer' \in Writers
        /\ refused' = refused \/ refused' = refused \cup {n}
        /\ writer' = w \/ writer'.data = w.data \o Elements(t, p, n)
    BY <2>3, <2>5, <2>6, AddFrameTyped
  <2>8. segment' # None /\ writer' # None
    BY <2>7, SegmentIsThere
  <2>9. given' \in Seq(Entries) /\ refused' \subseteq DOMAIN given'
    BY <1>1, <1>2, <1>3, <2>6, <2>7, GivenGrows DEF TypeOK
  <2>10. TypeOK'
    BY <1>1, <2>1, <2>4, <2>6, <2>7, <2>8, <2>9 DEF TypeOK, Entries
  <2>11. w.data \in Seq(ElementsOf) /\ Elements(t, p, n) \in Seq(ElementsOf)
    BY <2>5, <2>6, EmptySeq, ElementsAdded DEF Writers
  <2>12. Len(w.data) \in Nat /\ Len(w.data \o Elements(t, p, n)) >= Len(w.data)
    BY <2>11, LenProperties, ConcatProperties
  <2>13. readTo <= Len(w.data) /\ readTo \in Nat
    BY <1>1, <2>2, <2>4 DEF ReadInv, TypeOK
  <2>14. readTo <= Len(writer'.data)
    <3>1. CASE writer' = w
      BY <2>13, <3>1
    <3>2. CASE writer'.data = w.data \o Elements(t, p, n)
      <4>1. Len(w.data \o Elements(t, p, n)) \in Nat
        BY <2>11, LenProperties, ConcatProperties
      <4> QED
        BY <2>12, <2>13, <3>2, <4>1
    <3> QED
      BY <2>7, <3>1, <3>2
  <2>15. ReadInv'
    BY <2>1, <2>8, <2>14 DEF ReadInv
  <2> QED
    BY <2>10, <2>15 DEF TypeInv
<1>6. CASE WriteBlockCrashes(p)
  <2>1. /\ UNCHANGED <<width, height, settings, isHeaderWritten, segment, writer, files>>
        /\ UNCHANGED <<fetched, readTo, wasted, changedOpen, started, refused>>
        /\ object' = "crashed"
    BY <1>6 DEF WriteBlockCrashes, properties, internals, reader
  <2>2. started' \in Nat
    BY <1>1, <2>1 DEF TypeOK
  <2>3. given' \in Seq(Entries) /\ refused' \subseteq DOMAIN given'
    BY <1>1, <1>2, <2>1, <2>2, GivenGrows DEF TypeOK
  <2>4. TypeOK'
    BY <1>1, <2>1, <2>3 DEF TypeOK, Entries
  <2>5. ReadInv'
    BY <1>1, <2>1 DEF ReadInv
  <2> QED
    BY <2>4, <2>5 DEF TypeInv
<1> QED
  BY <1>4, <1>5, <1>6 DEF WriteWebmBlock

LEMMA FetchTyped ==
  ASSUME TypeInv, Fetch
  PROVE  TypeInv'
<1>1. /\ UNCHANGED <<width, height, settings, isHeaderWritten, segment, writer, files>>
      /\ UNCHANGED <<given, refused, changes, wasted, changedOpen, started>>
      /\ object = "alive" /\ TypeOK /\ ReadInv
  BY DEF Fetch, properties, internals, TypeInv
<1>2. \/ UNCHANGED <<fetched, readTo>> /\ object' \in {"alive", "crashed"}
      \/ /\ writer # None /\ readTo' = Len(writer.data) /\ UNCHANGED object
         /\ fetched' = fetched \o SubSeq(writer.data, readTo + 1, Len(writer.data))
  BY DEF Fetch, reader
<1>3. CASE UNCHANGED <<fetched, readTo>> /\ object' \in {"alive", "crashed"}
  BY <1>1, <1>3 DEF TypeInv, TypeOK, ReadInv
<1>4. CASE /\ writer # None /\ readTo' = Len(writer.data) /\ UNCHANGED object
           /\ fetched' = fetched \o SubSeq(writer.data, readTo + 1, Len(writer.data))
  <2>1. writer.data \in Seq(ElementsOf) /\ Len(writer.data) \in Nat /\ readTo \in Nat
    BY <1>1, <1>4, DataTyped DEF TypeOK
  <2>2. SubSeq(writer.data, readTo + 1, Len(writer.data)) \in Seq(ElementsOf)
    BY <2>1, SubSeqProperties
  <2>3. fetched' \in Seq(ElementsOf)
    BY <1>1, <1>4, <2>2, ConcatProperties DEF TypeOK
  <2>4. TypeOK' /\ ReadInv'
    BY <1>1, <1>4, <2>1, <2>3 DEF TypeOK, ReadInv
  <2> QED
    BY <2>4 DEF TypeInv
<1> QED
  BY <1>2, <1>3, <1>4

LEMMA FlushTyped ==
  ASSUME TypeInv, Flush
  PROVE  TypeInv'
<1>1. /\ UNCHANGED <<width, height, settings, isHeaderWritten, segment, files, object>>
      /\ UNCHANGED <<fetched, given, refused, changes, changedOpen, started>>
      /\ readTo' = 0 /\ wasted' \in BOOLEAN /\ writer' = [writer EXCEPT !.data = <<>>]
      /\ writer # None /\ TypeOK
  BY DEF Flush, properties, TypeInv
<1>2. writer \in Writers /\ <<>> \in Seq(ElementsOf)
  BY <1>1, DataTyped, EmptySeq
<1>3. writer' \in Writers /\ writer'.data = <<>>
  BY <1>1, <1>2 DEF Writers
<1>4. writer' # None
  BY <1>3, SegmentIsThere
<1>5. TypeOK'
  BY <1>1, <1>3, <1>4 DEF TypeOK
<1>6. ReadInv'
  BY <1>1, <1>3, <1>4, EmptySeq DEF ReadInv
<1> QED
  BY <1>5, <1>6 DEF TypeInv

LEMMA SetterTyped ==
  ASSUME TypeInv, Setter
  PROVE  TypeInv'
<1>1. \/ \E w \in Widths : Set(SetWidth(w))
      \/ \E h \in Heights : Set(SetHeight(h))
      \/ \E name \in {"timeStampScale"}, scale \in Scales : Set(SetOther(name, scale))
      \/ \E name \in {"writeToMemory", "liveMode", "outputCues", "forceNewClusters"},
            on \in BOOLEAN : Set(SetOther(name, on))
  BY DEF Setter
<1>2. /\ UNCHANGED <<isHeaderWritten, segment, writer, started, object, files>>
      /\ UNCHANGED <<fetched, readTo, given, refused, wasted>>
      /\ changes' = changes + 1 /\ changedOpen' \in BOOLEAN
  BY <1>1 DEF Set, internals, reader, TypeInv, TypeOK
<1>3. width' \in Nat /\ height' \in Nat /\ settings' \in Settings
  <2>1. Widths \subseteq Nat /\ Heights \subseteq Nat
    BY MuxerAssumption
  <2>2. width \in Nat /\ height \in Nat /\ settings \in Settings
    BY DEF TypeInv, TypeOK
  <2>3. CASE \E w \in Widths : Set(SetWidth(w))
    BY <2>1, <2>2, <2>3 DEF Set, SetWidth
  <2>4. CASE \E h \in Heights : Set(SetHeight(h))
    BY <2>1, <2>2, <2>4 DEF Set, SetHeight
  <2>5. CASE \E name \in {"timeStampScale"}, scale \in Scales : Set(SetOther(name, scale))
    <3>1. PICK scale \in Scales : settings' = [settings EXCEPT !["timeStampScale"] = scale]
      BY <2>5 DEF Set, SetOther
    <3>2. settings' \in Settings
      BY <2>2, <3>1 DEF Settings
    <3> QED
      BY <2>2, <2>5, <3>2 DEF Set, SetOther
  <2>6. CASE \E name \in {"writeToMemory", "liveMode", "outputCues", "forceNewClusters"},
                on \in BOOLEAN : Set(SetOther(name, on))
    <3>1. PICK name \in {"writeToMemory", "liveMode", "outputCues", "forceNewClusters"},
               on \in BOOLEAN : settings' = [settings EXCEPT ![name] = on]
      BY <2>6 DEF Set, SetOther
    <3>2. ASSUME name = "writeToMemory" PROVE settings' \in Settings
      <4>1. settings' = [settings EXCEPT !.writeToMemory = on]
        BY <3>1, <3>2
      <4> QED
        BY <2>2, <4>1 DEF Settings
    <3>3. ASSUME name = "liveMode" PROVE settings' \in Settings
      <4>1. settings' = [settings EXCEPT !.liveMode = on]
        BY <3>1, <3>3
      <4> QED
        BY <2>2, <4>1 DEF Settings
    <3>4. ASSUME name = "outputCues" PROVE settings' \in Settings
      <4>1. settings' = [settings EXCEPT !.outputCues = on]
        BY <3>1, <3>4
      <4> QED
        BY <2>2, <4>1 DEF Settings
    <3>5. ASSUME name = "forceNewClusters" PROVE settings' \in Settings
      <4>1. settings' = [settings EXCEPT !.forceNewClusters = on]
        BY <3>1, <3>5
      <4> QED
        BY <2>2, <4>1 DEF Settings
    <3>6. settings' \in Settings
      BY <3>1, <3>2, <3>3, <3>4, <3>5
    <3> QED
      BY <2>2, <2>6, <3>6 DEF Set, SetOther
  <2> QED
    BY <1>1, <2>3, <2>4, <2>5, <2>6
<1>4. TypeOK'
  BY <1>2, <1>3 DEF TypeInv, TypeOK
<1>5. ReadInv'
  BY <1>2 DEF TypeInv, ReadInv
<1> QED
  BY <1>4, <1>5 DEF TypeInv

LEMMA InitTyped == MuxerInit => TypeInv
<1> SUFFICES ASSUME MuxerInit PROVE TypeInv
  OBVIOUS
<1>1. settings \in Settings
  BY DEF MuxerInit, Settings
<1>2. <<>> \in Seq(ElementsOf) /\ <<>> \in Seq(Seq(ElementsOf)) /\ <<>> \in Seq(Entries)
  BY EmptySeq
<1>3. TypeOK
  BY <1>1, <1>2 DEF MuxerInit, TypeOK, Entries
<1>4. ReadInv
  BY DEF MuxerInit, ReadInv
<1> QED
  BY <1>3, <1>4 DEF TypeInv

LEMMA StepTyped == TypeInv /\ [MuxerNext]_muxerVars => TypeInv'
<1> SUFFICES ASSUME TypeInv, [MuxerNext]_muxerVars PROVE TypeInv'
  OBVIOUS
<1>1. CASE UNCHANGED muxerVars
  <2>1. /\ UNCHANGED <<width, height, settings, isHeaderWritten, segment, writer, started>>
        /\ UNCHANGED <<object, files, fetched, readTo, given, refused, changes>>
        /\ UNCHANGED <<wasted, changedOpen>>
    BY <1>1 DEF muxerVars, properties, internals, reader
  <2>2. TypeOK'
    BY <2>1 DEF TypeInv, TypeOK
  <2>3. ReadInv'
    BY <2>1 DEF TypeInv, ReadInv
  <2> QED
    BY <2>2, <2>3 DEF TypeInv
<1>2. CASE \E p \in Packets : WriteWebmBlock(p)
  BY <1>2, BlockTyped
<1>3. CASE OtherCall
  BY <1>3, HeaderTyped, TrailerTyped, FetchTyped, FlushTyped, SetterTyped DEF OtherCall
<1> QED
  BY <1>1, <1>2, <1>3 DEF MuxerNext

LEMMA AlwaysTyped == MuxerSpec => []TypeInv
BY InitTyped, StepTyped, PTL DEF MuxerSpec

(* Every variable of the muxer has its type, whatever is called, and while it
   lives it has a segment and a writer exactly when IsHeaderWritten says so
   (vtkWEBMMuxer.cxx: WriteFileHeader, WriteFileTrailer). *)
THEOREM MuxerTypeCorrect == MuxerSpec => []TypeOK
<1>1. TypeInv => TypeOK
  BY DEF TypeInv
<1> QED
  BY <1>1, AlwaysTyped, PTL

(* The muxer dereferences a null segment or writer only when IsHeaderWritten is
   false: not between the two segments of a change of size, for any packets and
   calls (vtkWEBMMuxer::WriteWebmBlock, GetDynamicBuffer). *)
THEOREM MuxerCrashesExplained == MuxerSpec => []CrashesOnlyWithoutHeader
<1>1. MuxerInit => CrashesOnlyWithoutHeader
  BY DEF MuxerInit, CrashesOnlyWithoutHeader
<1>2. ASSUME TypeInv, CrashesOnlyWithoutHeader, [MuxerNext]_muxerVars
      PROVE  CrashesOnlyWithoutHeader'
  <2>1. TypeOK
    BY <1>2 DEF TypeInv
  <2>2. CASE object' = object /\ isHeaderWritten' = isHeaderWritten
    BY <1>2, <2>2 DEF CrashesOnlyWithoutHeader
  <2>3. CASE \E p \in Packets : WriteWebmBlock(p)
    BY <2>1, <2>3 DEF WriteWebmBlock, WriteBlockInNewSegment, WriteBlockInSegment,
       WriteBlockCrashes, TypeOK, CrashesOnlyWithoutHeader, internals
  <2>4. CASE WriteFileHeader \/ WriteFileTrailer \/ Delete
    BY <2>4 DEF WriteFileHeader, WriteFileTrailer, Delete, CrashesOnlyWithoutHeader
  <2>5. CASE Fetch
    BY <2>1, <2>5 DEF Fetch, TypeOK, CrashesOnlyWithoutHeader, internals
  <2>6. CASE Flush \/ Setter
    <3>1. object' = object /\ isHeaderWritten' = isHeaderWritten
      BY <2>6 DEF Flush, Setter, Set, internals
    <3> QED
      BY <2>2, <3>1
  <2>7. CASE UNCHANGED muxerVars
    BY <2>2, <2>7 DEF muxerVars, internals
  <2> QED
    BY <1>2, <2>3, <2>4, <2>5, <2>6, <2>7 DEF MuxerNext, OtherCall
<1> QED
  BY <1>1, <1>2, AlwaysTyped, PTL DEF MuxerSpec
-----------------------------------------------------------------------------
(* The application of Recording is one that the muxer may have. *)

LastTyped ==
  /\ last \in [w : Nat, h : Nat, ts : Nat, key : BOOLEAN, context : Nat]
  /\ last.context > 0 => last \in Packets

LEMMA LastGiven ==
  ASSUME LastTyped, Record
  PROVE  /\ last' \in Packets /\ last'.context > 0 /\ WriteWebmBlock(last')
         /\ \/ /\ last.context > 0 /\ last'.context = last.context
               /\ last'.ts > last.ts
               /\ last'.w = last.w /\ last'.h = last.h
            \/ last'.context = last.context + 1 /\ last'.key
<1> DEFINE All == [w : Nat, h : Nat, ts : Nat, key : BOOLEAN, context : Nat]
<1>1. last \in All /\ last.ts \in Nat /\ last.context \in Nat
  BY DEF LastTyped
<1>2. last'.ts <= MaxPTS /\ WriteWebmBlock(last') /\ MaxPTS \in Nat
  BY MuxerAssumption DEF Record
<1>3. CASE last.context > 0 /\ \E key \in BOOLEAN : NextOfContext(key)
  <2>1. PICK key \in BOOLEAN, gap \in 0..MaxGap :
               last' = [last EXCEPT !.ts = @ + 1 + gap, !.key = key]
    BY <1>3 DEF NextOfContext
  <2>2. last \in Packets
    BY <1>3 DEF LastTyped
  <2>3. gap \in Nat
    <3>1. gap \in Int /\ gap >= 0
      BY <2>1
    <3> QED
      BY <3>1
  <2>4. PICK t \in Nat : t = last.ts + 1 + gap /\ t > last.ts
    BY <1>1, <2>3
  <2>5. last' = [last EXCEPT !.ts = t, !.key = key]
    BY <2>1, <2>4
  <2>6. last'.ts = t
    BY <1>1, <2>5
  <2>7. t \in 0..MaxPTS
    BY <1>2, <2>4, <2>6
  <2>8. last' \in Packets
    BY <2>2, <2>5, <2>7 DEF Packets
  <2>9. last'.context = last.context /\ last'.w = last.w /\ last'.h = last.h
    BY <1>1, <2>5
  <2> QED
    BY <1>2, <1>3, <2>4, <2>6, <2>8, <2>9
<1>4. CASE \E w \in Widths, h \in Heights : FirstOfContext(w, h)
  <2>1. PICK w \in Widths, h \in Heights, from \in {0, last.ts + 1}, gap \in 0..MaxGap :
          last' = [w |-> w, h |-> h, ts |-> from + gap, key |-> TRUE,
                   context |-> last.context + 1]
    BY <1>4 DEF FirstOfContext
  <2> DEFINE ts == from + gap
  <2>2. ts \in Nat /\ ts = last'.ts
    <3>1. gap \in Int /\ gap >= 0 /\ from \in Nat
      BY <1>1, <2>1
    <3>2. ts \in Nat
      BY <3>1
    <3> QED
      BY <2>1, <3>2
  <2>3. ts \in 0..MaxPTS
    BY <1>2, <2>2
  <2>4. last.context + 1 \in Nat /\ last.context + 1 > 0
    BY <1>1
  <2>5. last' \in Packets
    BY <2>1, <2>3, <2>4 DEF Packets
  <2>6. last'.context = last.context + 1 /\ last'.key
    BY <2>1
  <2> QED
    BY <1>2, <2>4, <2>5, <2>6
<1> QED
  BY <1>3, <1>4 DEF Record

LEMMA InitLast == Init => LastTyped
BY DEF Init, LastTyped

LEMMA StepLast == LastTyped /\ [Next]_vars => LastTyped' /\ [MuxerNext]_muxerVars
<1> SUFFICES ASSUME LastTyped, [Next]_vars PROVE LastTyped' /\ [MuxerNext]_muxerVars
  OBVIOUS
<1>1. CASE Record
  <2>1. last' \in Packets /\ WriteWebmBlock(last')
    BY <1>1, LastGiven
  <2>2. last' \in [w : Nat, h : Nat, ts : Nat, key : BOOLEAN, context : Nat]
    <3>1. Widths \subseteq Nat /\ Heights \subseteq Nat /\ MaxPTS \in Nat
      BY MuxerAssumption
    <3>2. \A x \in 0..MaxPTS : x \in Nat
      BY <3>1
    <3> QED
      BY <2>1, <3>1, <3>2 DEF Packets
  <2> QED
    BY <2>1, <2>2 DEF LastTyped, MuxerNext
<1>2. CASE OtherCall /\ UNCHANGED last
  BY <1>2 DEF LastTyped, MuxerNext
<1>3. CASE UNCHANGED vars
  BY <1>3 DEF vars, LastTyped
<1> QED
  BY <1>1, <1>2, <1>3 DEF Next

(* Whatever is proved of the muxer holds when the packets of an encoder are
   recorded: the application of Recording calls it as any may
   (vtkWEBMMuxer::WriteWebmBlock in the callback of a vtkVideoEncoder). *)
THEOREM RecordingIsMuxer == Spec => MuxerSpec
<1>1. Init => MuxerInit
  BY DEF Init
<1> QED
  BY <1>1, InitLast, StepLast, PTL DEF Spec, MuxerSpec
-----------------------------------------------------------------------------
(* Cues.  In a file each element is where the cues count on it being: the first
   header is its first element, and nothing is ever removed. *)

PointsAt(s, point) ==
  LET start == 1 + point.pos + 1
  IN /\ start \in DOMAIN s
     /\ s[start].kind = "cluster"
     /\ s[start].timecode = point.time

NoCues(s) == \A i \in DOMAIN s : s[i].kind # "cues"

CuedRight(s) ==
  \A i \in DOMAIN s : s[i].kind = "cues" => \A point \in s[i].points : PointsAt(s, point)

FileInv(s, d) ==
  /\ NoCues(d)
  /\ s.headerOut => s.payload = 1 /\ Len(d) > 0
  /\ ~s.headerOut => d = <<>> /\ s.points = {}
  /\ \A point \in s.points : PointsAt(d, point)

CueInv ==
  /\ \A s \in Range(files) : CuedRight(s)
  /\ segment # None /\ ~writer.memory => FileInv(segment, writer.data)

LEMMA AppendParts ==
  ASSUME NEW S, NEW d \in Seq(S), NEW e \in S, NEW f, f = Append(d, e)
  PROVE  /\ f \in Seq(S) /\ Len(f) = Len(d) + 1 /\ Len(d) \in Nat
         /\ DOMAIN d = 1..Len(d) /\ DOMAIN f = 1..(Len(d) + 1)
         /\ \A i \in 1..Len(d) : f[i] = d[i] /\ i \in 1..(Len(d) + 1)
         /\ f[Len(d) + 1] = e
         /\ \A i \in 1..(Len(d) + 1) : i \in 1..Len(d) \/ i = Len(d) + 1
BY AppendProperties, LenProperties

LEMMA RangeAppend ==
  ASSUME NEW S, NEW d \in Seq(S), NEW e \in S
  PROVE  Range(Append(d, e)) = Range(d) \cup {e}
<1>1. PICK f : f = Append(d, e)
  OBVIOUS
<1>2. /\ Len(d) \in Nat /\ DOMAIN d = 1..Len(d) /\ DOMAIN f = 1..(Len(d) + 1)
      /\ \A i \in 1..Len(d) : f[i] = d[i] /\ i \in 1..(Len(d) + 1)
      /\ f[Len(d) + 1] = e
      /\ \A i \in 1..(Len(d) + 1) : i \in 1..Len(d) \/ i = Len(d) + 1
  BY <1>1, AppendParts
<1>3. Len(d) + 1 \in DOMAIN f
  BY <1>2
<1> QED
  BY <1>1, <1>2, <1>3 DEF Range

LEMMA PointsAtGrows ==
  ASSUME NEW d \in Seq(ElementsOf), NEW e \in ElementsOf,
         NEW point \in [time : Nat, pos : Int], PointsAt(d, point)
  PROVE  PointsAt(Append(d, e), point)
<1>1. PICK f : f = Append(d, e)
  OBVIOUS
<1>2. PICK start \in Int : start = 1 + point.pos + 1
  OBVIOUS
<1>3. start \in DOMAIN d /\ d[start].kind = "cluster" /\ d[start].timecode = point.time
  BY <1>2 DEF PointsAt
<1>4. start \in DOMAIN f /\ f[start] = d[start]
  BY <1>1, <1>3, AppendParts
<1> QED
  BY <1>1, <1>2, <1>3, <1>4 DEF PointsAt

LEMMA NoCuesGrows ==
  ASSUME NEW d \in Seq(ElementsOf), NEW e \in ElementsOf, NoCues(d), e.kind # "cues"
  PROVE  NoCues(Append(d, e))
<1>1. PICK f : f = Append(d, e)
  OBVIOUS
<1>2. /\ DOMAIN d = 1..Len(d) /\ DOMAIN f = 1..(Len(d) + 1)
      /\ \A i \in 1..Len(d) : f[i] = d[i]
      /\ f[Len(d) + 1] = e
      /\ \A i \in 1..(Len(d) + 1) : i \in 1..Len(d) \/ i = Len(d) + 1
  BY <1>1, AppendParts
<1> QED
  BY <1>1, <1>2 DEF NoCues

LEMMA AddCued ==
  ASSUME NEW s \in Segments, NEW w \in Writers, NEW p \in Packets, NEW n \in Nat,
         started' \in Nat, FileInv(s, w.data)
  PROVE  FileInv(SegmentWith(s, w, p), w.data \o Elements(s, p, n))
<1>1. PICK hdr, cl, b, t, d :
        /\ hdr = HeaderOf(s) /\ cl = ClusterOf(s, p) /\ b = BlockOf(s, p, n)
        /\ t = SegmentWith(s, w, p) /\ d = w.data
  OBVIOUS
<1>2. d \in Seq(ElementsOf) /\ FileInv(s, d) /\ Len(d) \in Nat
  BY <1>1, LenProperties DEF Writers
<1>3. /\ s.headerOut => WithHeader(s, d) = d
      /\ ~s.headerOut => WithHeader(s, d) = Append(d, hdr)
      /\ NeedsNewCluster(s, p) => WithCluster(s, p, d) = Append(WithHeader(s, d), cl)
      /\ ~NeedsNewCluster(s, p) => WithCluster(s, p, d) = WithHeader(s, d)
  BY <1>1 DEF WithHeader, WithCluster
<1>4. PICK d1 : d1 = WithHeader(s, d)
  OBVIOUS
<1>5. PICK d2 : d2 = WithCluster(s, p, d)
  OBVIOUS
<1>6. PICK d3 : d3 = Append(d2, b)
  OBVIOUS
<1>7. hdr \in ElementsOf /\ cl \in ElementsOf /\ b \in ElementsOf
  BY <1>1, ElementParts
<1>8. d \o Elements(s, p, n) = d3
  BY <1>1, <1>2, <1>5, <1>6, ElementsAdded
<1>9. /\ hdr.kind = "header" /\ cl.kind = "cluster" /\ b.kind = "block"
      /\ cl.timecode = p.ts \div s.scale
  BY <1>1 DEF HeaderOf, ClusterOf, BlockOf, Header, Cluster, Block
<1>10. /\ t.headerOut /\ t.payload = Payload(s, w)
       /\ t.points = PointsAfter(s, w, p)
  BY <1>1, SegmentWithTyped
<1>11. s.points \in SUBSET [time : Nat, pos : Int] /\ s.payload \in Nat
  BY SegmentParts
<1>12. /\ d1 \in Seq(ElementsOf) /\ NoCues(d1) /\ Payload(s, w) = 1
       /\ Len(d1) \in Nat /\ Len(d1) = MaxOffset(s, w) + 1 /\ MaxOffset(s, w) \in Int
       /\ \A point \in s.points : PointsAt(d1, point)
  <2>1. CASE s.headerOut
    BY <1>1, <1>2, <1>3, <1>4, <2>1 DEF FileInv, Payload, MaxOffset
  <2>2. CASE ~s.headerOut
    <3>1. d = <<>> /\ s.points = {} /\ Len(d) = 0 /\ NoCues(d)
      BY <1>2, <2>2, EmptySeq DEF FileInv
    <3>2. Payload(s, w) = 1 /\ MaxOffset(s, w) = 0
      BY <1>1, <2>2, <3>1 DEF Payload, MaxOffset
    <3>3. d1 = Append(d, hdr)
      BY <1>3, <1>4, <2>2
    <3>4. d1 \in Seq(ElementsOf) /\ Len(d1) = 1
      BY <1>2, <1>7, <3>1, <3>3, AppendParts
    <3>5. NoCues(d1)
      BY <1>2, <1>7, <1>9, <3>1, <3>3, NoCuesGrows
    <3> QED
      BY <3>1, <3>2, <3>4, <3>5
  <2> QED
    BY <2>1, <2>2
<1>13. /\ d2 \in Seq(ElementsOf) /\ NoCues(d2) /\ Len(d2) \in Nat
       /\ \A point \in t.points : PointsAt(d2, point)
  <2>1. CASE ~NeedsNewCluster(s, p)
    <3>1. t.points = s.points
      BY <1>10, <2>1 DEF PointsAfter
    <3> QED
      BY <1>3, <1>4, <1>5, <1>12, <2>1, <3>1
  <2>2. CASE NeedsNewCluster(s, p)
    <3>1. d2 = Append(d1, cl)
      BY <1>3, <1>4, <1>5, <2>2
    <3>2. /\ d2 \in Seq(ElementsOf) /\ Len(d2) = Len(d1) + 1 /\ d2[Len(d1) + 1] = cl
          /\ DOMAIN d2 = 1..(Len(d1) + 1)
      BY <1>7, <1>12, <3>1, AppendParts
    <3>3. NoCues(d2)
      BY <1>7, <1>9, <1>12, <3>1, NoCuesGrows
    <3>4. \A point \in s.points : PointsAt(d2, point)
      BY <1>7, <1>11, <1>12, <3>1, PointsAtGrows
    <3>5. PICK q : q = [time |-> p.ts \div s.scale, pos |-> MaxOffset(s, w)]
      OBVIOUS
    <3>6. PointsAt(d2, q)
      <4>1. q.time = p.ts \div s.scale /\ q.pos = MaxOffset(s, w)
        BY <3>5
      <4>2. PICK start \in Int : start = 1 + q.pos + 1
        BY <1>12, <4>1
      <4>3. start = Len(d1) + 1 /\ start \in DOMAIN d2
        BY <1>12, <3>2, <4>1, <4>2
      <4>4. d2[start].kind = "cluster" /\ d2[start].timecode = q.time
        BY <1>9, <3>2, <4>1, <4>3
      <4> QED
        BY <4>2, <4>3, <4>4 DEF PointsAt
    <3>7. t.points \subseteq s.points \cup {q}
      BY <1>10, <3>5 DEF PointsAfter
    <3> QED
      BY <1>12, <3>2, <3>3, <3>4, <3>6, <3>7
  <2> QED
    BY <2>1, <2>2
<1>14. t.points \in SUBSET [time : Nat, pos : Int]
  <2>1. t \in Segments
    BY <1>1, SegmentWithTyped
  <2> QED
    BY <2>1, SegmentParts
<1>15. NoCues(d3) /\ \A point \in t.points : PointsAt(d3, point)
  <2>1. b.kind # "cues"
    BY <1>9
  <2>2. NoCues(d3)
    BY <1>6, <1>7, <1>13, <2>1, NoCuesGrows
  <2>3. \A point \in t.points : PointsAt(d3, point)
    BY <1>6, <1>7, <1>13, <1>14, PointsAtGrows
  <2> QED
    BY <2>2, <2>3
<1>16. Len(d3) > 0
  BY <1>6, <1>7, <1>13, AppendParts
<1>17. FileInv(t, d3)
  BY <1>10, <1>12, <1>15, <1>16 DEF FileInv
<1> QED
  BY <1>1, <1>8, <1>17

LEMMA FinalizedCued ==
  ASSUME segment \in Segments, writer \in Writers, FileInv(segment, writer.data)
  PROVE  CuedRight(Finalized)
<1>1. PICK d, e, f : d = writer.data /\ e = Cues(segment.points) /\ f = Append(d, e)
  OBVIOUS
<1>2. d \in Seq(ElementsOf) /\ NoCues(d)
  BY <1>1 DEF FileInv, Writers
<1>3. segment.points \in SUBSET [time : Nat, pos : Int]
  BY SegmentParts
<1>4. e \in ElementsOf /\ e.kind = "cues" /\ e.points = segment.points
  BY <1>1, <1>3 DEF Cues, ElementsOf
<1>5. CuedRight(d)
  BY <1>2 DEF NoCues, CuedRight
<1>6. CuedRight(f)
  <2>1. \A point \in e.points : PointsAt(f, point)
    BY <1>1, <1>2, <1>3, <1>4, PointsAtGrows DEF FileInv
  <2>2. /\ DOMAIN d = 1..Len(d) /\ DOMAIN f = 1..(Len(d) + 1)
        /\ \A i \in 1..Len(d) : f[i] = d[i]
        /\ f[Len(d) + 1] = e
        /\ \A i \in 1..(Len(d) + 1) : i \in 1..Len(d) \/ i = Len(d) + 1
    BY <1>1, <1>2, <1>4, AppendParts
  <2>3. \A i \in DOMAIN f : f[i].kind = "cues" => f[i] = e
    BY <1>2, <2>2 DEF NoCues
  <2> QED
    BY <2>1, <2>3 DEF CuedRight
<1> QED
  BY <1>1, <1>5, <1>6 DEF Finalized

LEMMA LetGoCued ==
  ASSUME TypeOK, \A s \in Range(files) : CuedRight(s),
         NEW data \in Seq(ElementsOf), LetGo(data),
         writer # None /\ ~writer.memory => CuedRight(data)
  PROVE  (\A s \in Range(files) : CuedRight(s))'
<1>1. CASE files' = files
  BY <1>1
<1>2. CASE writer # None /\ ~writer.memory /\ files' = Append(files, data)
  <2>1. PICK P : P = Seq(ElementsOf)
    OBVIOUS
  <2>2. files \in Seq(P) /\ data \in P
    BY <2>1 DEF TypeOK
  <2>3. Range(files') = Range(files) \cup {data}
    BY <1>2, <2>2, RangeAppend
  <2> QED
    BY <1>2, <2>3
<1> QED
  BY <1>1, <1>2 DEF LetGo

LEMMA CloseCued ==
  ASSUME TypeOK, CueInv, object = "alive", Close
  PROVE  (\A s \in Range(files) : CuedRight(s))'
<1>1. PICK data : data = IF isHeaderWritten THEN Finalized ELSE <<>>
  OBVIOUS
<1>2. isHeaderWritten => segment # None /\ segment \in Segments /\ writer \in Writers
  BY DEF TypeOK
<1>3. data \in Seq(ElementsOf)
  BY <1>1, <1>2, FinalizedTyped, EmptySeq
<1>4. LetGo(data)
  BY <1>1 DEF Close
<1>5. writer # None /\ ~writer.memory => CuedRight(data)
  <2> HAVE writer # None /\ ~writer.memory
  <2>1. isHeaderWritten
    BY DEF TypeOK
  <2>2. FileInv(segment, writer.data)
    BY <1>2, <2>1 DEF CueInv
  <2> QED
    BY <1>1, <1>2, <2>1, <2>2, FinalizedCued
<1> QED
  BY <1>3, <1>4, <1>5, LetGoCued DEF CueInv

LEMMA EmptyFile ==
  ASSUME NEW s, ~s.headerOut, s.points = {}
  PROVE  FileInv(s, <<>>)
<1>1. DOMAIN <<>> = {}
  BY EmptySeq
<1> QED
  BY <1>1 DEF FileInv, NoCues

LEMMA StepCued == TypeInv /\ CueInv /\ [MuxerNext]_muxerVars => CueInv'
<1> SUFFICES ASSUME TypeOK, CueInv, [MuxerNext]_muxerVars PROVE CueInv'
  BY DEF TypeInv
<1> USE DEF TypeInv
<1>1. CASE UNCHANGED <<files, segment, writer>>
  BY <1>1 DEF CueInv
<1>2. ASSUME NEW p \in Packets, WriteWebmBlock(p) PROVE CueInv'
  <2>0. PICK n \in Nat : n = Len(given) + 1
    BY LenProperties DEF TypeOK
  <2>1. CASE WriteBlockInNewSegment(p)
    <3>1. object = "alive" /\ Close /\ started' = started + 1 /\ settings.writeToMemory
      BY <1>2, <2>1 DEF WriteWebmBlock, WriteBlockInNewSegment
    <3>2. PICK s, t, w : s = NewSegment(p.w, p.h) /\ t = Forced(s) /\ w = NewWriter(TRUE)
      OBVIOUS
    <3>3. AddFrame(t, w, p, n)
      BY <2>0, <2>1, <3>2 DEF WriteBlockInNewSegment
    <3>4. w.memory
      BY <3>1, <3>2 DEF NewWriter
    <3>5. settings \in Settings /\ p.w \in Nat /\ p.h \in Nat /\ started' \in Nat
      BY <3>1, PacketParts DEF TypeOK
    <3>6. s \in Segments
      BY <3>2, <3>5, NewSegmentTyped
    <3>7. t \in Segments
      BY <3>2, <3>6, ForcedTyped
    <3>8. w \in Writers
      BY <3>2, <3>5, NewWriterTyped
    <3>9. writer'.memory
      BY <3>3, <3>4, <3>5, <3>7, <3>8, AddFrameTyped
    <3> QED
      BY <3>1, <3>9, CloseCued DEF CueInv
  <2>2. CASE WriteBlockInSegment(p)
    <3>1. UNCHANGED <<files, started>> /\ segment # None
      BY <2>2 DEF WriteBlockInSegment
    <3>2. PICK t, w : t = Forced(segment) /\ w = writer
      OBVIOUS
    <3>3. AddFrame(t, w, p, n)
      BY <2>0, <2>2, <3>2 DEF WriteBlockInSegment
    <3>4. object = "alive" /\ segment \in Segments /\ w \in Writers /\ started' \in Nat
      BY <1>2, <3>1, <3>2 DEF WriteWebmBlock, TypeOK
    <3>5. t \in Segments /\ t.points = segment.points /\ t.headerOut = segment.headerOut
          /\ t.payload = segment.payload
      BY <3>2, <3>4, ForcedTyped
    <3>6. ~w.memory => FileInv(t, w.data)
      BY <3>1, <3>2, <3>5 DEF CueInv, FileInv
    <3>7. /\ writer'.memory = w.memory
          /\ \/ /\ segment' = SegmentWith(t, w, p)
                /\ writer'.data = w.data \o Elements(t, p, n)
             \/ segment' = t /\ writer' = w
      BY <3>3, <3>4, <3>5, AddFrameTyped
    <3>8. ~w.memory => FileInv(segment', writer'.data)
      BY <3>4, <3>5, <3>6, <3>7, AddCued
    <3> QED
      BY <3>1, <3>7, <3>8 DEF CueInv
  <2>3. CASE WriteBlockCrashes(p)
    BY <1>1, <2>3 DEF WriteBlockCrashes, internals
  <2> QED
    BY <1>2, <2>1, <2>2, <2>3 DEF WriteWebmBlock
<1>3. CASE WriteFileHeader
  <2>1. PICK data : data = IF writer # None THEN writer.data ELSE <<>>
    OBVIOUS
  <2>2. LetGo(data) /\ object = "alive"
    BY <1>3, <2>1 DEF WriteFileHeader
  <2>3. data \in Seq(ElementsOf)
    BY <2>1, DataTyped, EmptySeq
  <2>4. writer # None /\ ~writer.memory => CuedRight(data)
    BY <2>1, <2>2 DEF TypeOK, CueInv, FileInv, NoCues, CuedRight
  <2>5. (\A s \in Range(files) : CuedRight(s))'
    BY <2>2, <2>3, <2>4, LetGoCued DEF CueInv
  <2>6. PICK opened \in BOOLEAN : writer' = NewWriter(opened)
    BY <1>3 DEF WriteFileHeader
  <2>7. writer'.data = <<>>
    BY <2>6 DEF NewWriter
  <2>8. ~segment'.headerOut /\ segment'.points = {}
    BY <1>3 DEF WriteFileHeader, NewSegment
  <2>9. FileInv(segment', writer'.data)
    BY <2>7, <2>8, EmptyFile
  <2> QED
    BY <2>5, <2>9 DEF CueInv
<1>4. CASE WriteFileTrailer \/ Delete
  <2>1. object = "alive" /\ Close /\ segment' = None
    BY <1>4 DEF WriteFileTrailer, Delete
  <2> QED
    BY <2>1, CloseCued DEF CueInv
<1>5. CASE Flush
  <2>1. writer.memory /\ UNCHANGED <<files, segment>> /\ writer # None
        /\ writer' = [writer EXCEPT !.data = <<>>]
    BY <1>5 DEF Flush
  <2>2. writer \in Writers
    BY <2>1 DEF TypeOK
  <2>3. writer'.memory
    BY <2>1, <2>2 DEF Writers
  <2> QED
    BY <2>1, <2>3 DEF CueInv
<1>6. CASE Fetch \/ Setter
  BY <1>1, <1>6 DEF Fetch, Setter, Set, internals
<1>7. CASE UNCHANGED muxerVars
  BY <1>1, <1>7 DEF muxerVars, internals
<1> QED
  BY <1>2, <1>3, <1>4, <1>5, <1>6, <1>7 DEF MuxerNext, OtherCall

(* Each cue of a file points at the cluster that starts at its time, for any
   packets and calls, Flush among them (libwebm: Segment::AddCuePoint and
   MaxOffset; vtkWEBMMuxer::Flush). *)
THEOREM CuesRight == MuxerSpec => []CuesPointAtClusters
<1>1. MuxerInit => CueInv
  BY EmptySeq DEF MuxerInit, CueInv, Range
<1>2. CueInv => CuesPointAtClusters
  BY DEF CueInv, CuedRight, PointsAt, CuesPointAtClusters
<1> QED
  BY <1>1, <1>2, AlwaysTyped, StepCued, PTL DEF MuxerSpec
-----------------------------------------------------------------------------
(* Streams of elements that can be played. *)

IsLast(s, kind, i, j) ==
  /\ j \in 1..i
  /\ s[j].kind = kind
  /\ \A k \in (j + 1)..i : s[k].kind # kind

(* Block i has a header and a cluster before it that go with it as one of T
   says, and follows the blocks of its segment as R says. *)
PlaysAt(T, R, s, i) ==
  \E h, c \in 1..i :
    /\ IsLast(s, "header", i, h)
    /\ IsLast(s, "cluster", i, c)
    /\ h < c
    /\ <<s[h], s[c], s[i]>> \in T
    /\ \A j \in Blocks(s) \cap (h..i) : <<s[j], s[i]>> \in R

Playable(T, R, s) == \A i \in Blocks(s) : PlaysAt(T, R, s, i)

Numbered(s) == \A i, j \in Blocks(s) : i < j => s[i].packet < s[j].packet

LEMMA LastSame ==
  ASSUME NEW s, NEW t, NEW i \in Nat, \A k \in 1..i : s[k] = t[k],
         NEW kind, NEW j, IsLast(s, kind, i, j)
  PROVE  IsLast(t, kind, i, j)
<1>1. j \in 1..i /\ s[j].kind = kind /\ \A k \in (j + 1)..i : s[k].kind # kind
  BY DEF IsLast
<1>2. \A k \in (j + 1)..i : k \in 1..i
  BY <1>1
<1> QED
  BY <1>1, <1>2 DEF IsLast

LEMMA LastUnique ==
  ASSUME NEW s, NEW kind, NEW i \in Nat, NEW j, IsLast(s, kind, i, j)
  PROVE  Last(s, kind, i) = j
<1> DEFINE P(x) == s[x].kind = kind /\ \A k \in (x + 1)..i : s[k].kind # kind
<1>1. j \in 1..i /\ P(j)
  BY DEF IsLast
<1>2. ASSUME NEW x \in 1..i, P(x) PROVE x = j
  <2>1. ~(x < j)
    <3> SUFFICES ASSUME x < j PROVE FALSE
      OBVIOUS
    <3>1. j \in (x + 1)..i
      BY <1>1
    <3> QED
      BY <1>1, <1>2, <3>1
  <2>2. ~(j < x)
    <3> SUFFICES ASSUME j < x PROVE FALSE
      OBVIOUS
    <3>1. x \in (j + 1)..i
      BY <1>1
    <3> QED
      BY <1>1, <1>2, <3>1
  <2> QED
    BY <1>1, <2>1, <2>2
<1>3. Last(s, kind, i) = CHOOSE x \in 1..i : P(x)
  BY DEF Last
<1> HIDE DEF P
<1> QED
  BY <1>1, <1>2, <1>3

LEMMA BlocksAre ==
  ASSUME NEW s \in Seq(ElementsOf)
  PROVE  /\ Len(s) \in Nat
         /\ \A i : i \in Blocks(s) <=> i \in 1..Len(s) /\ s[i].kind = "block"
         /\ \A i \in 1..Len(s) : s[i] \in ElementsOf
<1>1. DOMAIN s = 1..Len(s) /\ Len(s) \in Nat
  BY LenProperties
<1>2. \A i \in 1..Len(s) : s[i] \in ElementsOf
  BY ElementOfSeq
<1> QED
  BY <1>1, <1>2 DEF Blocks

LEMMA PlaysSame ==
  ASSUME NEW s \in Seq(ElementsOf), NEW t \in Seq(ElementsOf), NEW i \in 1..Len(s),
         i <= Len(t), \A k \in 1..i : s[k] = t[k],
         NEW T, NEW R, PlaysAt(T, R, s, i)
  PROVE  PlaysAt(T, R, t, i)
<1>1. PICK h \in 1..i, c \in 1..i :
        /\ IsLast(s, "header", i, h)
        /\ IsLast(s, "cluster", i, c)
        /\ h < c
        /\ <<s[h], s[c], s[i]>> \in T
        /\ \A j \in Blocks(s) \cap (h..i) : <<s[j], s[i]>> \in R
  BY DEF PlaysAt
<1>2. i \in Nat /\ i \in 1..i /\ Len(s) \in Nat /\ Len(t) \in Nat
  BY BlocksAre
<1>3. IsLast(t, "header", i, h) /\ IsLast(t, "cluster", i, c)
  BY <1>1, <1>2, LastSame
<1>4. s[h] = t[h] /\ s[c] = t[c] /\ s[i] = t[i]
  BY <1>1, <1>2
<1>5. ASSUME NEW j \in Blocks(t) \cap (h..i) PROVE <<t[j], t[i]>> \in R
  <2>1. j \in 1..i /\ j \in 1..Len(s) /\ j \in h..i
    BY <1>1, <1>2
  <2>2. t[j].kind = "block" /\ s[j] = t[j]
    BY <2>1, BlocksAre
  <2>3. j \in Blocks(s)
    BY <2>1, <2>2, BlocksAre
  <2> QED
    BY <1>1, <1>4, <2>1, <2>2, <2>3
<1> QED
  BY <1>1, <1>3, <1>4, <1>5 DEF PlaysAt

LEMMA StreamPrefix ==
  ASSUME NEW s \in Seq(ElementsOf), NEW t \in Seq(ElementsOf), Len(t) <= Len(s),
         \A k \in 1..Len(t) : s[k] = t[k]
  PROVE  /\ \A T, R : Playable(T, R, s) => Playable(T, R, t)
         /\ Numbered(s) => Numbered(t)
         /\ PacketsOf(t) \subseteq PacketsOf(s)
<1>1. Len(s) \in Nat /\ Len(t) \in Nat
  BY BlocksAre
<1>2. \A i \in Blocks(t) : i \in Blocks(s) /\ s[i] = t[i] /\ i \in 1..Len(s) /\ i <= Len(t) /\ i \in Nat
  BY <1>1, BlocksAre
<1>3. ASSUME NEW T, NEW R, Playable(T, R, s), NEW i \in Blocks(t)
      PROVE  PlaysAt(T, R, t, i)
  <2>1. PlaysAt(T, R, s, i) /\ i \in 1..Len(s) /\ i <= Len(t) /\ i \in Nat
    BY <1>2, <1>3 DEF Playable
  <2>2. \A k \in 1..i : k \in 1..Len(t)
    BY <1>1, <2>1
  <2>3. \A k \in 1..i : s[k] = t[k]
    BY <2>2
  <2> QED
    BY <2>1, <2>3, PlaysSame
<1>4. Numbered(s) => Numbered(t)
  BY <1>2 DEF Numbered
<1>5. PacketsOf(t) \subseteq PacketsOf(s)
  BY <1>2 DEF PacketsOf
<1> QED
  BY <1>3, <1>4, <1>5 DEF Playable

LEMMA PlayableMore ==
  ASSUME NEW s, NEW T, NEW R, NEW T2, NEW R2, T \subseteq T2, R \subseteq R2,
         Playable(T, R, s)
  PROVE  Playable(T2, R2, s)
BY DEF Playable, PlaysAt

Appended(d, e, f) ==
  /\ f \in Seq(ElementsOf) /\ Len(f) = Len(d) + 1 /\ Len(d) \in Nat
  /\ \A i \in Blocks(d) : i \in Blocks(f) /\ f[i] = d[i] /\ i \in 1..Len(d)
  /\ \A i \in Blocks(f) : i \in Blocks(d) \/ (i = Len(d) + 1 /\ e.kind = "block")
  /\ \A i \in 1..Len(d) : f[i] = d[i]
  /\ f[Len(d) + 1] = e
  /\ e.kind = "block" => Len(d) + 1 \in Blocks(f)

LEMMA AppendBlocks ==
  ASSUME NEW d \in Seq(ElementsOf), NEW e \in ElementsOf, NEW f, f = Append(d, e)
  PROVE  Appended(d, e, f)
<1>1. /\ f \in Seq(ElementsOf) /\ Len(f) = Len(d) + 1 /\ Len(d) \in Nat
      /\ \A i \in 1..Len(d) : f[i] = d[i] /\ i \in 1..(Len(d) + 1)
      /\ f[Len(d) + 1] = e
      /\ \A i \in 1..(Len(d) + 1) : i \in 1..Len(d) \/ i = Len(d) + 1
  BY AppendParts
<1>2. \A i : i \in Blocks(d) <=> i \in 1..Len(d) /\ d[i].kind = "block"
  BY BlocksAre
<1>3. \A i : i \in Blocks(f) <=> i \in 1..(Len(d) + 1) /\ f[i].kind = "block"
  BY <1>1, BlocksAre
<1>4. Len(d) + 1 \in 1..(Len(d) + 1)
  BY <1>1
<1>5. \A i \in Blocks(d) : i \in Blocks(f) /\ f[i] = d[i] /\ i \in 1..Len(d)
  BY <1>1, <1>2, <1>3
<1>6. \A i \in Blocks(f) : i \in Blocks(d) \/ (i = Len(d) + 1 /\ e.kind = "block")
  BY <1>1, <1>2, <1>3
<1>7. e.kind = "block" => Len(d) + 1 \in Blocks(f)
  BY <1>1, <1>3, <1>4
<1> QED
  BY <1>1, <1>5, <1>6, <1>7 DEF Appended

LEMMA AppendPlays ==
  ASSUME NEW d \in Seq(ElementsOf), NEW e \in ElementsOf, NEW f, f = Append(d, e),
         NEW T, NEW R, Playable(T, R, d), NEW i \in Blocks(d)
  PROVE  PlaysAt(T, R, f, i)
<1>1. /\ f \in Seq(ElementsOf) /\ Len(f) = Len(d) + 1 /\ Len(d) \in Nat
      /\ i \in 1..Len(d)
      /\ \A k \in 1..Len(d) : f[k] = d[k]
  BY AppendBlocks DEF Appended
<1>2. i <= Len(f) /\ i \in Nat
  BY <1>1
<1>3. \A k \in 1..i : d[k] = f[k]
  <2>1. \A k \in 1..i : k \in 1..Len(d)
    BY <1>1
  <2> QED
    BY <1>1, <2>1
<1>4. PlaysAt(T, R, d, i)
  BY DEF Playable
<1> QED
  BY <1>1, <1>2, <1>3, <1>4, PlaysSame

LEMMA AppendOther ==
  ASSUME NEW d \in Seq(ElementsOf), NEW e \in ElementsOf, NEW f, f = Append(d, e),
         e.kind # "block"
  PROVE  /\ \A T, R : Playable(T, R, d) => Playable(T, R, f)
         /\ Numbered(d) => Numbered(f)
         /\ PacketsOf(f) = PacketsOf(d)
<1>0. Appended(d, e, f)
  BY AppendBlocks
<1>1. /\ \A i \in Blocks(d) : i \in Blocks(f) /\ f[i] = d[i]
      /\ \A i \in Blocks(f) : i \in Blocks(d)
  BY <1>0 DEF Appended
<1>2. ASSUME NEW T, NEW R, Playable(T, R, d) PROVE Playable(T, R, f)
  BY <1>1, <1>2, AppendPlays DEF Playable
<1>3. Numbered(d) => Numbered(f)
  BY <1>1 DEF Numbered
<1>4. PacketsOf(f) = PacketsOf(d)
  BY <1>1 DEF PacketsOf
<1> QED
  BY <1>2, <1>3, <1>4

LEMMA LastAppend ==
  ASSUME NEW d \in Seq(ElementsOf), NEW e \in ElementsOf, NEW f, f = Append(d, e),
         NEW kind
  PROVE  /\ e.kind = kind => IsLast(f, kind, Len(d) + 1, Len(d) + 1)
         /\ e.kind # kind => \A j : IsLast(d, kind, Len(d), j) => IsLast(f, kind, Len(d) + 1, j)
<1>1. /\ Len(d) \in Nat
      /\ \A i \in 1..Len(d) : f[i] = d[i]
      /\ f[Len(d) + 1] = e
  BY AppendBlocks DEF Appended
<1>2. ASSUME e.kind = kind PROVE IsLast(f, kind, Len(d) + 1, Len(d) + 1)
  BY <1>1, <1>2 DEF IsLast
<1>3. ASSUME e.kind # kind, NEW j, IsLast(d, kind, Len(d), j)
      PROVE  IsLast(f, kind, Len(d) + 1, j)
  <2>1. j \in 1..Len(d) /\ d[j].kind = kind /\ \A k \in (j + 1)..Len(d) : d[k].kind # kind
    BY <1>3 DEF IsLast
  <2>2. j \in 1..(Len(d) + 1) /\ f[j].kind = kind
    BY <1>1, <2>1
  <2>3. ASSUME NEW k \in (j + 1)..(Len(d) + 1) PROVE f[k].kind # kind
    <3>1. CASE k = Len(d) + 1
      BY <1>1, <1>3, <3>1
    <3>2. CASE k # Len(d) + 1
      <4>1. k \in (j + 1)..Len(d) /\ k \in 1..Len(d)
        BY <1>1, <2>1, <3>2
      <4> QED
        BY <1>1, <2>1, <4>1
    <3> QED
      BY <3>1, <3>2
  <2> QED
    BY <2>2, <2>3 DEF IsLast
<1> QED
  BY <1>2, <1>3

LEMMA AppendBlock ==
  ASSUME NEW d \in Seq(ElementsOf), NEW e \in ElementsOf, NEW f, f = Append(d, e),
         e.kind = "block",
         NEW T, NEW R, Playable(T, R, d),
         NEW h, NEW c, IsLast(d, "header", Len(d), h), IsLast(d, "cluster", Len(d), c),
         h < c, <<d[h], d[c], e>> \in T, <<e, e>> \in R,
         \A j \in Blocks(d) \cap (h..Len(d)) : <<d[j], e>> \in R
  PROVE  Playable(T, R, f)
<1>0. Appended(d, e, f)
  BY AppendBlocks
<1>1. /\ Len(d) \in Nat
      /\ \A i \in Blocks(f) : i \in Blocks(d) \/ i = Len(d) + 1
      /\ \A i \in Blocks(d) : i \in Blocks(f) /\ f[i] = d[i] /\ i \in 1..Len(d)
      /\ \A i \in 1..Len(d) : f[i] = d[i]
      /\ f[Len(d) + 1] = e
  BY <1>0 DEF Appended
<1>2. IsLast(f, "header", Len(d) + 1, h) /\ IsLast(f, "cluster", Len(d) + 1, c)
  BY LastAppend
<1>3. h \in 1..Len(d) /\ c \in 1..Len(d)
  BY DEF IsLast
<1>4. PICK i : i = Len(d) + 1
  OBVIOUS
<1>5. h \in 1..i /\ c \in 1..i /\ f[h] = d[h] /\ f[c] = d[c] /\ f[i] = e
  BY <1>1, <1>3, <1>4
<1>6. ASSUME NEW j \in Blocks(f) \cap (h..i) PROVE <<f[j], f[i]>> \in R
  <2>1. CASE j = i
    BY <1>5, <2>1
  <2>2. CASE j \in Blocks(d)
    <3>1. j \in 1..Len(d) /\ f[j] = d[j] /\ j \in h..i
      BY <1>1, <2>2
    <3>2. j \in h..Len(d)
      BY <1>1, <1>3, <3>1
    <3> QED
      BY <1>5, <2>2, <3>1, <3>2
  <2> QED
    BY <1>1, <1>4, <2>1, <2>2
<1>7. PlaysAt(T, R, f, i)
  BY <1>2, <1>4, <1>5, <1>6 DEF PlaysAt
<1> QED
  BY <1>1, <1>4, <1>7, AppendPlays DEF Playable

LEMMA EmptyPlays ==
  /\ \A T, R : Playable(T, R, <<>>)
  /\ Numbered(<<>>)
  /\ PacketsOf(<<>>) = {}
<1>1. Blocks(<<>>) = {}
  BY EmptySeq DEF Blocks
<1> QED
  BY <1>1 DEF Playable, Numbered, PacketsOf
-----------------------------------------------------------------------------
(* What goes together in a stream, g being the packets given. *)

Any == ElementsOf \X ElementsOf

Timed(g) ==
  {t \in ElementsOf \X ElementsOf \X ElementsOf :
     /\ t[3].packet \in DOMAIN g
     /\ t[1].segment = g[t[3].packet].segment
     /\ t[3].timecode \in 0..MaxBlockTimecode
     /\ t[2].timecode + t[3].timecode = g[t[3].packet].packet.ts \div t[1].scale}

NotEarlier(g) ==
  {t \in Any :
     /\ t[1].packet \in DOMAIN g /\ t[2].packet \in DOMAIN g
     /\ g[t[1].packet].packet.ts <= g[t[2].packet].packet.ts}

Fitting(g) ==
  {t \in ElementsOf \X ElementsOf \X ElementsOf :
     /\ t[3].packet \in DOMAIN g
     /\ t[1].w = g[t[3].packet].packet.w
     /\ t[1].h = g[t[3].packet].packet.h}

Good(g, s) == Playable(Timed(g), NotEarlier(g), s) /\ Numbered(s)

(* The next element of stream s belongs to segment e, the n-th started. *)
EndsAt(g, s, e, n, h, c) ==
  /\ IsLast(s, "header", Len(s), h)
  /\ IsLast(s, "cluster", Len(s), c)
  /\ h < c
  /\ s[h].w = e.w /\ s[h].h = e.h /\ s[h].scale = e.scale /\ s[h].segment = n
  /\ s[c].timecode = e.timecode
  /\ \A j \in Blocks(s) \cap (h..Len(s)) :
       s[j].packet \in DOMAIN g /\ g[s[j].packet].packet.ts <= e.lastTs

Ends(g, s, e, n) == \E h, c \in 1..Len(s) : EndsAt(g, s, e, n, h, c)

Extends(g, g2) ==
  /\ g \in Seq(Entries) /\ g2 \in Seq(Entries)
  /\ \A n \in DOMAIN g : n \in DOMAIN g2 /\ g2[n] = g[n]

LEMMA EntryParts ==
  ASSUME NEW g \in Seq(Entries), NEW n \in DOMAIN g
  PROVE  g[n].packet \in Packets /\ g[n].packet.ts \in Nat /\ g[n].segment \in Nat
<1>1. g[n] \in Entries
  BY ElementOfSeq, LenProperties
<1>2. g[n].packet \in Packets /\ g[n].segment \in Nat
  BY <1>1 DEF Entries
<1> QED
  BY <1>2, PacketParts

LEMMA MoreGood ==
  ASSUME NEW g, NEW g2, Extends(g, g2), NEW s
  PROVE  /\ Timed(g) \subseteq Timed(g2) /\ NotEarlier(g) \subseteq NotEarlier(g2)
         /\ Fitting(g) \subseteq Fitting(g2)
         /\ Good(g, s) => Good(g2, s)
         /\ Playable(Fitting(g), Any, s) => Playable(Fitting(g2), Any, s)
<1>1. \A n \in DOMAIN g : n \in DOMAIN g2 /\ g2[n] = g[n]
  BY DEF Extends
<1>2. Timed(g) \subseteq Timed(g2)
  BY <1>1 DEF Timed
<1>3. NotEarlier(g) \subseteq NotEarlier(g2)
  BY <1>1 DEF NotEarlier
<1>4. Fitting(g) \subseteq Fitting(g2)
  BY <1>1 DEF Fitting
<1>5. Good(g, s) => Good(g2, s)
  BY <1>2, <1>3, PlayableMore DEF Good
<1>6. Playable(Fitting(g), Any, s) => Playable(Fitting(g2), Any, s)
  BY <1>4, PlayableMore
<1> QED
  BY <1>2, <1>3, <1>4, <1>5, <1>6

LEMMA GoodPackets ==
  ASSUME NEW g, NEW s, Good(g, s)
  PROVE  \A i \in Blocks(s) : s[i].packet \in DOMAIN g
BY DEF Good, Playable, PlaysAt, Timed

LEMMA EndsMore ==
  ASSUME NEW g, NEW g2, Extends(g, g2), NEW s, NEW e, NEW n, Ends(g, s, e, n)
  PROVE  Ends(g2, s, e, n)
BY DEF Extends, Ends, EndsAt

(* A cluster for a block, and a header before if there is none. *)
LEMMA ReadyForBlock ==
  ASSUME NEW g \in Seq(Entries), NEW s \in Segments, NEW p \in Packets, NEW w \in Writers,
         started' \in Nat, NEW d \in Seq(ElementsOf), NEW d2, d2 = WithCluster(s, p, d),
         s.headerOut => Ends(g, d, s, started'), ~s.headerOut => s.clusters = 0,
         p.ts >= s.lastTs, NEW t, t = SegmentWith(s, w, p)
  PROVE  /\ d2 \in Seq(ElementsOf)
         /\ Ends(g, d2, t, started')
         /\ \A T, R : Playable(T, R, d) => Playable(T, R, d2)
         /\ Numbered(d) => Numbered(d2)
         /\ PacketsOf(d2) = PacketsOf(d)
<1>1. PICK hdr, cl, d1 :
        hdr = HeaderOf(s) /\ cl = ClusterOf(s, p) /\ d1 = WithHeader(s, d)
  OBVIOUS
<1>2. hdr \in ElementsOf /\ cl \in ElementsOf
  <2>1. 0 \in Nat
    OBVIOUS
  <2> QED
    BY <1>1, <2>1, ElementParts
<1>3. /\ hdr.kind = "header" /\ hdr.w = s.w /\ hdr.h = s.h /\ hdr.scale = s.scale
      /\ hdr.segment = started'
      /\ cl.kind = "cluster" /\ cl.timecode = p.ts \div s.scale
  BY <1>1 DEF HeaderOf, ClusterOf, Header, Cluster
<1>4. /\ t.w = s.w /\ t.h = s.h /\ t.scale = s.scale /\ t.lastTs = p.ts
      /\ NeedsNewCluster(s, p) => t.timecode = p.ts \div s.scale
      /\ ~NeedsNewCluster(s, p) => t.timecode = s.timecode
  <2>1. SegmentAfter(s, p, t)
    BY SegmentWithTyped
  <2> QED
    BY <2>1 DEF SegmentAfter
<1>5. /\ s.headerOut => d1 = d
      /\ ~s.headerOut => d1 = Append(d, hdr)
      /\ NeedsNewCluster(s, p) => d2 = Append(d1, cl)
      /\ ~NeedsNewCluster(s, p) => d2 = d1
  BY <1>1 DEF WithHeader, WithCluster
<1>6. p.ts \in Nat /\ s.lastTs \in Nat
  BY PacketParts, SegmentParts
<1>7. /\ d1 \in Seq(ElementsOf)
      /\ \A T, R : Playable(T, R, d) => Playable(T, R, d1)
      /\ Numbered(d) => Numbered(d1)
      /\ PacketsOf(d1) = PacketsOf(d)
  <2>1. CASE s.headerOut
    BY <1>5, <2>1
  <2>2. CASE ~s.headerOut
    <3>1. d1 = Append(d, hdr) /\ hdr.kind # "block"
      BY <1>3, <1>5, <2>2
    <3>2. d1 \in Seq(ElementsOf)
      BY <1>2, <3>1, AppendBlocks DEF Appended
    <3> QED
      BY <1>2, <3>1, <3>2, AppendOther
  <2> QED
    BY <2>1, <2>2
<1>8. /\ d2 \in Seq(ElementsOf)
      /\ \A T, R : Playable(T, R, d1) => Playable(T, R, d2)
      /\ Numbered(d1) => Numbered(d2)
      /\ PacketsOf(d2) = PacketsOf(d1)
  <2>1. CASE ~NeedsNewCluster(s, p)
    BY <1>5, <1>7, <2>1
  <2>2. CASE NeedsNewCluster(s, p)
    <3>1. d2 = Append(d1, cl) /\ cl.kind # "block"
      BY <1>3, <1>5, <2>2
    <3>2. d2 \in Seq(ElementsOf)
      BY <1>2, <1>7, <3>1, AppendBlocks DEF Appended
    <3> QED
      BY <1>2, <1>7, <3>1, <3>2, AppendOther
  <2> QED
    BY <2>1, <2>2
<1>9. PICK h \in 1..Len(d1) :
        /\ IsLast(d1, "header", Len(d1), h)
        /\ d1[h].w = t.w /\ d1[h].h = t.h /\ d1[h].scale = t.scale /\ d1[h].segment = started'
        /\ \A j \in Blocks(d1) \cap (h..Len(d1)) :
             d1[j].packet \in DOMAIN g /\ g[d1[j].packet].packet.ts <= p.ts
        /\ ~NeedsNewCluster(s, p) => \E c \in 1..Len(d1) :
             IsLast(d1, "cluster", Len(d1), c) /\ h < c /\ d1[c].timecode = t.timecode
  <2>1. CASE s.headerOut
    <3>1. PICK h \in 1..Len(d), c \in 1..Len(d) : EndsAt(g, d, s, started', h, c)
      BY <2>1 DEF Ends
    <3>2. d1 = d
      BY <1>5, <2>1
    <3>3. ASSUME NEW j \in Blocks(d) \cap (h..Len(d))
          PROVE  d[j].packet \in DOMAIN g /\ g[d[j].packet].packet.ts <= p.ts
      <4>1. d[j].packet \in DOMAIN g /\ g[d[j].packet].packet.ts <= s.lastTs
        BY <3>1 DEF EndsAt
      <4>2. g[d[j].packet].packet.ts \in Nat
        BY <4>1, EntryParts
      <4> QED
        BY <1>6, <4>1, <4>2
    <3>4. /\ IsLast(d, "header", Len(d), h) /\ IsLast(d, "cluster", Len(d), c) /\ h < c
          /\ d[h].w = t.w /\ d[h].h = t.h /\ d[h].scale = t.scale /\ d[h].segment = started'
          /\ d[c].timecode = s.timecode
      BY <1>4, <3>1 DEF EndsAt
    <3>5. ~NeedsNewCluster(s, p) => t.timecode = s.timecode
      BY <1>4
    <3> QED
      BY <3>2, <3>3, <3>4, <3>5
  <2>2. CASE ~s.headerOut
    <3>1. d1 = Append(d, hdr)
      BY <1>5, <2>2
    <3>2. Appended(d, hdr, d1)
      BY <1>2, <3>1, AppendBlocks
    <3>3. PICK h : h = Len(d1) /\ h = Len(d) + 1 /\ d1[h] = hdr /\ h \in 1..Len(d1)
      BY <3>2 DEF Appended
    <3>4. IsLast(d1, "header", Len(d1), h)
      BY <1>2, <1>3, <3>1, <3>3, LastAppend
    <3>5. ASSUME NEW j \in Blocks(d1) \cap (h..Len(d1)) PROVE FALSE
      <4>1. j = h
        BY <3>2, <3>3 DEF Appended
      <4>2. j \in Blocks(d)
        BY <1>3, <3>2, <3>3 DEF Appended
      <4>3. j \in 1..Len(d)
        BY <3>2, <4>2 DEF Appended
      <4> QED
        BY <3>2, <3>3, <4>1, <4>3 DEF Appended
    <3>6. NeedsNewCluster(s, p)
      BY <2>2 DEF NeedsNewCluster
    <3>7. d1[h].w = t.w /\ d1[h].h = t.h /\ d1[h].scale = t.scale /\ d1[h].segment = started'
      BY <1>3, <1>4, <3>3
    <3> QED
      BY <3>3, <3>4, <3>5, <3>6, <3>7
  <2> QED
    BY <2>1, <2>2
<1>10. Ends(g, d2, t, started')
  <2>1. CASE ~NeedsNewCluster(s, p)
    BY <1>4, <1>5, <1>9, <2>1 DEF Ends, EndsAt
  <2>2. CASE NeedsNewCluster(s, p)
    <3>1. d2 = Append(d1, cl)
      BY <1>5, <2>2
    <3>2. Appended(d1, cl, d2)
      BY <1>2, <1>7, <3>1, AppendBlocks
    <3>3. PICK c : c = Len(d2) /\ c = Len(d1) + 1 /\ d2[c] = cl /\ c \in 1..Len(d2)
      BY <3>2 DEF Appended
    <3>4. IsLast(d2, "cluster", Len(d2), c) /\ IsLast(d2, "header", Len(d2), h)
      <4>1. cl.kind # "header" /\ cl.kind = "cluster"
        BY <1>3
      <4>2. IsLast(d2, "cluster", c, c)
        BY <1>2, <1>7, <3>1, <3>3, <4>1, LastAppend
      <4>3. IsLast(d2, "header", c, h)
        BY <1>2, <1>7, <1>9, <3>1, <3>3, <4>1, LastAppend
      <4> QED
        BY <3>3, <4>2, <4>3
    <3>5. h < c /\ h \in 1..Len(d2) /\ d2[h] = d1[h]
      BY <1>9, <3>2, <3>3 DEF Appended
    <3>6. ASSUME NEW j \in Blocks(d2) \cap (h..Len(d2))
          PROVE  d2[j].packet \in DOMAIN g /\ g[d2[j].packet].packet.ts <= t.lastTs
      <4>1. j \in Blocks(d1)
        BY <1>3, <3>2 DEF Appended
      <4>2. j \in 1..Len(d1) /\ d2[j] = d1[j]
        BY <3>2, <4>1 DEF Appended
      <4>3. j \in h..Len(d1)
        BY <3>2, <4>2 DEF Appended
      <4> QED
        BY <1>4, <1>9, <4>1, <4>2, <4>3
    <3>7. /\ d2[h].w = t.w /\ d2[h].h = t.h /\ d2[h].scale = t.scale
          /\ d2[h].segment = started'
      BY <1>9, <3>5
    <3>8. d2[c].timecode = t.timecode
      BY <1>3, <1>4, <2>2, <3>3
    <3>9. EndsAt(g, d2, t, started', h, c)
      BY <3>4, <3>5, <3>6, <3>7, <3>8 DEF EndsAt
    <3> QED
      BY <3>3, <3>5, <3>9 DEF Ends
  <2> QED
    BY <2>1, <2>2
<1> QED
  BY <1>7, <1>8, <1>10

(* The block itself, of the packet that is given now. *)
OneMore(g, g2, d, f, t, x) ==
  /\ f \in Seq(ElementsOf)
  /\ Good(g, d) => Good(g2, f)
  /\ Ends(g2, f, t, x.segment)
  /\ t.w = x.packet.w /\ t.h = x.packet.h /\ Playable(Fitting(g), Any, d)
       => Playable(Fitting(g2), Any, f)
  /\ PacketsOf(f) = PacketsOf(d) \cup {Len(g) + 1}

LEMMA OneMoreBlock ==
  ASSUME NEW g \in Seq(Entries), NEW x \in Entries, NEW g2, g2 = Append(g, x),
         NEW d \in Seq(ElementsOf), NEW t \in Segments, NEW m, m = x.segment,
         Ends(g, d, t, m),
         NEW b \in ElementsOf, b.kind = "block", b.packet = Len(g) + 1,
         b.timecode \in 0..MaxBlockTimecode, t.lastTs = x.packet.ts,
         t.timecode + b.timecode = x.packet.ts \div t.scale,
         NEW f, f = Append(d, b)
  PROVE  OneMore(g, g2, d, f, t, x)
<1>1. PICK n : n = Len(g) + 1
  OBVIOUS
<1>2. /\ Extends(g, g2) /\ g2[n] = x /\ n \in DOMAIN g2 /\ n \in Nat /\ n \notin DOMAIN g
      /\ \A k \in DOMAIN g : k \in Nat /\ k < n
  <2>1. /\ g2 \in Seq(Entries) /\ Len(g) \in Nat /\ DOMAIN g = 1..Len(g)
        /\ DOMAIN g2 = 1..(Len(g) + 1) /\ g2[Len(g) + 1] = x
        /\ \A i \in 1..Len(g) : g2[i] = g[i] /\ i \in 1..(Len(g) + 1)
    BY AppendParts
  <2>2. Extends(g, g2)
    BY <2>1 DEF Extends
  <2> QED
    BY <1>1, <2>1, <2>2
<1>3. Appended(d, b, f)
  BY AppendBlocks
<1>4. f \in Seq(ElementsOf) /\ f[Len(d) + 1] = b /\ Len(d) + 1 \in Blocks(f) /\ Len(f) = Len(d) + 1
  BY <1>3 DEF Appended
<1>5. PICK h \in 1..Len(d), c \in 1..Len(d) : EndsAt(g, d, t, m, h, c)
  BY DEF Ends
<1>6. /\ IsLast(d, "header", Len(d), h) /\ IsLast(d, "cluster", Len(d), c) /\ h < c
      /\ d[h].w = t.w /\ d[h].h = t.h /\ d[h].scale = t.scale /\ d[h].segment = m
      /\ d[c].timecode = t.timecode
  BY <1>5 DEF EndsAt
<1>7. d[h] \in ElementsOf /\ d[c] \in ElementsOf
  BY <1>5, BlocksAre
<1>8. x.packet \in Packets /\ x.packet.ts \in Nat
  <2>1. x.packet \in Packets
    BY DEF Entries
  <2> QED
    BY <2>1, PacketParts
<1>9. b.packet = n /\ g2[b.packet] = x
  BY <1>1, <1>2
<1>10. Good(g, d) => Good(g2, f)
  <2> HAVE Good(g, d)
  <2>1. Good(g2, d)
    BY <1>2, MoreGood
  <2>2. <<d[h], d[c], b>> \in Timed(g2)
    BY <1>2, <1>6, <1>7, <1>9 DEF Timed
  <2>3. <<b, b>> \in NotEarlier(g2)
    BY <1>2, <1>8, <1>9 DEF NotEarlier, Any
  <2>4. \A j \in Blocks(d) \cap (h..Len(d)) : <<d[j], b>> \in NotEarlier(g2)
    <3> TAKE j \in Blocks(d) \cap (h..Len(d))
    <3>1. d[j].packet \in DOMAIN g /\ g[d[j].packet].packet.ts <= x.packet.ts
      BY <1>5 DEF EndsAt
    <3>2. d[j].packet \in DOMAIN g2 /\ g2[d[j].packet] = g[d[j].packet]
      BY <1>2, <3>1 DEF Extends
    <3>3. d[j] \in ElementsOf
      BY BlocksAre
    <3> QED
      BY <1>2, <1>9, <3>1, <3>2, <3>3 DEF NotEarlier, Any
  <2>5. Playable(Timed(g2), NotEarlier(g2), d)
    BY <2>1 DEF Good
  <2>6. Playable(Timed(g2), NotEarlier(g2), f)
    BY <1>6, <2>2, <2>3, <2>4, <2>5, AppendBlock
  <2>7. \A i \in Blocks(d) : d[i].packet < n
    BY <1>2, GoodPackets
  <2>8. Numbered(f)
    <3> SUFFICES ASSUME NEW i \in Blocks(f), NEW j \in Blocks(f), i < j
                 PROVE  f[i].packet < f[j].packet
      BY DEF Numbered
    <3>1. Len(d) \in Nat /\ \A k \in Blocks(d) : f[k] = d[k] /\ k \in 1..Len(d)
      BY <1>3 DEF Appended
    <3>2. i \in Blocks(d)
      <4>1. i \in Blocks(d) \/ i = Len(d) + 1
        BY <1>3 DEF Appended
      <4>2. j \in Blocks(d) \/ j = Len(d) + 1
        BY <1>3 DEF Appended
      <4> QED
        BY <3>1, <4>1, <4>2
    <3>3. CASE j \in Blocks(d)
      BY <2>1, <3>1, <3>2, <3>3 DEF Good, Numbered
    <3>4. CASE j = Len(d) + 1
      BY <1>4, <1>9, <2>7, <3>1, <3>2, <3>4
    <3> QED
      BY <1>3, <3>3, <3>4 DEF Appended
  <2> QED
    BY <2>6, <2>8 DEF Good
<1>11. Ends(g2, f, t, m)
  <2>1. IsLast(f, "header", Len(f), h) /\ IsLast(f, "cluster", Len(f), c)
    <3>1. b.kind # "header" /\ b.kind # "cluster"
      OBVIOUS
    <3>2. IsLast(f, "header", Len(d) + 1, h)
      BY <1>6, <3>1, LastAppend
    <3>3. IsLast(f, "cluster", Len(d) + 1, c)
      BY <1>6, <3>1, LastAppend
    <3> QED
      BY <1>4, <3>2, <3>3
  <2>2. h \in 1..Len(f) /\ c \in 1..Len(f) /\ f[h] = d[h] /\ f[c] = d[c]
    BY <1>3, <1>5 DEF Appended
  <2>3. ASSUME NEW j \in Blocks(f) \cap (h..Len(f))
        PROVE  f[j].packet \in DOMAIN g2 /\ g2[f[j].packet].packet.ts <= t.lastTs
    <3>1. CASE j = Len(d) + 1
      BY <1>2, <1>4, <1>8, <1>9, <3>1
    <3>2. CASE j \in Blocks(d)
      <4>1. j \in 1..Len(d) /\ f[j] = d[j] /\ j \in h..Len(f) /\ Len(d) \in Nat /\ h \in Nat
        BY <1>3, <1>5, <3>2 DEF Appended
      <4>2. j \in h..Len(d)
        BY <4>1
      <4>3. d[j].packet \in DOMAIN g /\ g[d[j].packet].packet.ts <= t.lastTs
        BY <1>5, <3>2, <4>2 DEF EndsAt
      <4> QED
        BY <1>2, <4>1, <4>3 DEF Extends
    <3> QED
      BY <1>3, <3>1, <3>2 DEF Appended
  <2>4. EndsAt(g2, f, t, m, h, c)
    BY <1>6, <2>1, <2>2, <2>3 DEF EndsAt
  <2> QED
    BY <2>2, <2>4 DEF Ends
<1>12. ASSUME t.w = x.packet.w, t.h = x.packet.h, Playable(Fitting(g), Any, d)
       PROVE  Playable(Fitting(g2), Any, f)
  <2>1. Playable(Fitting(g2), Any, d)
    BY <1>2, <1>12, MoreGood
  <2>2. <<d[h], d[c], b>> \in Fitting(g2)
    BY <1>2, <1>6, <1>7, <1>9, <1>12 DEF Fitting
  <2>3. <<b, b>> \in Any
    BY DEF Any
  <2>4. \A j \in Blocks(d) \cap (h..Len(d)) : <<d[j], b>> \in Any
    BY BlocksAre DEF Any
  <2> QED
    BY <1>6, <2>1, <2>2, <2>3, <2>4, AppendBlock
<1>13. PacketsOf(f) = PacketsOf(d) \cup {n}
  <2>1. \A i \in Blocks(f) : i \in Blocks(d) \/ i = Len(d) + 1
    BY <1>3 DEF Appended
  <2>2. \A i \in Blocks(d) : i \in Blocks(f) /\ f[i] = d[i]
    BY <1>3 DEF Appended
  <2>3. PICK k : k = Len(d) + 1
    OBVIOUS
  <2>4. k \in Blocks(f) /\ f[k].packet = n
    BY <1>4, <1>9, <2>3
  <2>5. \A i \in Blocks(f) : i \in Blocks(d) \/ i = k
    BY <2>1, <2>3
  <2> QED
    BY <2>2, <2>4, <2>5 DEF PacketsOf
<1>14. Ends(g2, f, t, x.segment)
  BY <1>11
<1>15. PacketsOf(f) = PacketsOf(d) \cup {Len(g) + 1}
  BY <1>1, <1>13
<1>16. t.w = x.packet.w /\ t.h = x.packet.h /\ Playable(Fitting(g), Any, d)
         => Playable(Fitting(g2), Any, f)
  BY <1>12
<1>17. f \in Seq(ElementsOf)
  BY <1>4
<1> HIDE DEF OneMore
<1> QED
  BY <1>10, <1>14, <1>15, <1>16, <1>17 DEF OneMore

Near(s, p) == ~((p.ts \div s.scale) - s.timecode > MaxBlockTimecode)

LEMMA OldClusterIsNear ==
  ASSUME NEW s \in Segments, NEW p \in Packets, ~NeedsNewCluster(s, p)
  PROVE  Near(s, p)
<1> DEFINE delta == (p.ts \div s.scale) - s.timecode
           Far == delta > MaxBlockTimecode
           Long == delta * s.scale >= MaxClusterDuration
<1>1. NeedsNewCluster(s, p) <=> s.force \/ s.clusters = 0 \/ Far \/ p.key \/ Long
  BY DEF NeedsNewCluster
<1>2. Far => NeedsNewCluster(s, p)
  <2> HIDE DEF Far, Long
  <2> QED
    BY <1>1
<1> QED
  BY <1>2 DEF Near

(* What AddFrame does to the stream d that the segment is a part of. *)
Adds(g, g2, s, p, d, f, t, n, m) ==
  /\ t \in Segments /\ t.headerOut /\ t.timecode <= t.lastTs \div t.scale
  /\ f \in Seq(ElementsOf)
  /\ Good(g, d) => Good(g2, f)
  /\ Ends(g2, f, t, m)
  /\ s.w = p.w /\ s.h = p.h /\ Playable(Fitting(g), Any, d)
       => Playable(Fitting(g2), Any, f)
  /\ PacketsOf(f) = PacketsOf(d) \cup {n}

LEMMA AddPlays ==
  ASSUME NEW g \in Seq(Entries), NEW x \in Entries, NEW g2, g2 = Append(g, x),
         NEW s \in Segments, NEW w \in Writers, NEW p \in Packets, p = x.packet,
         started' \in Nat, x.segment = started', NEW n, n = Len(g) + 1,
         NEW d \in Seq(ElementsOf),
         s.headerOut => Ends(g, d, s, started'), ~s.headerOut => s.clusters = 0,
         s.headerOut => s.timecode <= s.lastTs \div s.scale,
         p.ts >= s.lastTs, NEW t, t = SegmentWith(s, w, p),
         NEW f, f = d \o Elements(s, p, n)
  PROVE  Adds(g, g2, s, p, d, f, t, n, started')
<1>1. n \in Nat
  BY LenProperties
<1>2. PICK b, d2 : b = BlockOf(s, p, n) /\ d2 = WithCluster(s, p, d)
  OBVIOUS
<1>3. b \in ElementsOf /\ StartOf(s, p) \in Nat /\ p.ts \div s.scale \in Nat
  BY <1>1, <1>2, ElementParts
<1>4. b.kind = "block" /\ b.packet = n /\ b.timecode = (p.ts \div s.scale) - StartOf(s, p)
  BY <1>2 DEF BlockOf, Block
<1>5. f = Append(d2, b)
  BY <1>1, <1>2, ElementsAdded
<1>6. /\ d2 \in Seq(ElementsOf)
      /\ Ends(g, d2, t, started')
      /\ \A T, R : Playable(T, R, d) => Playable(T, R, d2)
      /\ Numbered(d) => Numbered(d2)
      /\ PacketsOf(d2) = PacketsOf(d)
  BY <1>2, ReadyForBlock
<1>7. t \in Segments /\ SegmentAfter(s, p, t) /\ t.headerOut
  BY SegmentWithTyped
<1>8. t.w = s.w /\ t.h = s.h /\ t.scale = s.scale /\ t.lastTs = p.ts
  BY <1>7 DEF SegmentAfter
<1>9. t.timecode = StartOf(s, p)
  BY <1>7 DEF SegmentAfter, StartOf
<1>10. t.timecode + b.timecode = p.ts \div t.scale
  BY <1>3, <1>4, <1>8, <1>9
<1>11. b.timecode \in 0..MaxBlockTimecode /\ StartOf(s, p) <= p.ts \div s.scale
  <2>1. MaxBlockTimecode \in Nat
    BY MuxerAssumption
  <2>2. CASE NeedsNewCluster(s, p)
    <3>1. StartOf(s, p) = p.ts \div s.scale
      BY <2>2 DEF StartOf
    <3> QED
      BY <1>3, <1>4, <2>1, <3>1
  <2>3. CASE ~NeedsNewCluster(s, p)
    <3>1. StartOf(s, p) = s.timecode
      BY <2>3 DEF StartOf
    <3>2. s.headerOut
      BY <2>3 DEF NeedsNewCluster
    <3>3. Near(s, p)
      BY <2>3, OldClusterIsNear
    <3>4. s.scale \in Nat \ {0} /\ s.lastTs \in Nat /\ p.ts \in Nat /\ s.timecode \in Nat
      BY PacketParts, SegmentParts
    <3>5. s.lastTs \div s.scale <= p.ts \div s.scale /\ s.lastTs \div s.scale \in Nat
      BY <3>4, Quotients
    <3>6. s.timecode <= s.lastTs \div s.scale
      BY <3>2
    <3>7. s.timecode <= p.ts \div s.scale
      BY <1>3, <3>4, <3>5, <3>6
    <3> QED
      BY <1>3, <1>4, <2>1, <3>1, <3>3, <3>4, <3>7 DEF Near
  <2> QED
    BY <2>2, <2>3
<1>12. t.timecode <= t.lastTs \div t.scale
  BY <1>8, <1>9, <1>11
<1>13. t.lastTs = x.packet.ts /\ t.timecode + b.timecode = x.packet.ts \div t.scale
  BY <1>8, <1>10
<1>14. Ends(g, d2, t, x.segment)
  BY <1>6
<1>15. PICK m : m = x.segment
  OBVIOUS
<1>16. b.packet = Len(g) + 1
  BY <1>4
<1>17. OneMore(g, g2, d2, f, t, x)
  BY <1>3, <1>4, <1>5, <1>6, <1>7, <1>11, <1>13, <1>14, <1>15, <1>16, OneMoreBlock
<1>18. Good(g, d) => Good(g, d2)
  BY <1>6 DEF Good
<1>19. Playable(Fitting(g), Any, d) => Playable(Fitting(g), Any, d2)
  BY <1>6
<1>20. s.w = p.w /\ s.h = p.h => t.w = x.packet.w /\ t.h = x.packet.h
  BY <1>8
<1> QED
  BY <1>6, <1>7, <1>12, <1>17, <1>18, <1>19, <1>20 DEF OneMore, Adds
-----------------------------------------------------------------------------
(* The stream in memory: what was read of it and what waits to be read. *)

WaitingIn(w, r) ==
  IF w # None /\ w.memory THEN SubSeq(w.data, r + 1, Len(w.data)) ELSE <<>>
StreamOf(w, r, f) == f \o WaitingIn(w, r)
FileOf(w) == IF w # None /\ ~w.memory THEN w.data ELSE <<>>

MemoryStream == StreamOf(writer, readTo, fetched)
OpenData == FileOf(writer)

LEMMA Rest ==
  ASSUME NEW S, NEW d \in Seq(S), NEW r \in Nat, r <= Len(d), NEW s, s = SubSeq(d, r + 1, Len(d))
  PROVE  /\ s \in Seq(S) /\ Len(s) = Len(d) - r /\ Len(d) \in Nat
         /\ \A i \in 1..(Len(d) - r) : s[i] = d[r + i]
<1>1. Len(d) \in Nat /\ \A i \in (r + 1)..Len(d) : i \in 1..Len(d)
  BY LenProperties
<1>2. \A i \in (r + 1)..Len(d) : d[i] \in S
  BY <1>1, ElementOfSeq
<1>3. PICK m, n : m \in Int /\ n \in Int /\ m = r + 1 /\ n = Len(d)
  BY <1>1
<1>4. /\ s \in Seq(S) /\ Len(s) = IF m <= n THEN n - m + 1 ELSE 0
      /\ \A i \in 1..(n - m + 1) : s[i] = d[m + i - 1]
  BY <1>2, <1>3, SubSeqProperties
<1>5. n - m + 1 = Len(d) - r /\ \A i \in 1..(Len(d) - r) : m + i - 1 = r + i
  BY <1>1, <1>3
<1>6. Len(s) = Len(d) - r
  BY <1>1, <1>3, <1>4, <1>5
<1> QED
  BY <1>1, <1>4, <1>5, <1>6

LEMMA RestGrows ==
  ASSUME NEW S, NEW d \in Seq(S), NEW e \in Seq(S), NEW r \in Nat, r <= Len(d)
  PROVE  SubSeq(d \o e, r + 1, Len(d \o e)) = SubSeq(d, r + 1, Len(d)) \o e
<1>1. PICK a, b, c, u :
        /\ a = d \o e /\ b = SubSeq(a, r + 1, Len(a))
        /\ c = SubSeq(d, r + 1, Len(d)) /\ u = c \o e
  OBVIOUS
<1>2. /\ a \in Seq(S) /\ Len(a) = Len(d) + Len(e) /\ Len(d) \in Nat /\ Len(e) \in Nat
      /\ \A i \in 1..(Len(d) + Len(e)) : a[i] = IF i <= Len(d) THEN d[i] ELSE e[i - Len(d)]
  BY <1>1, ConcatProperties, LenProperties
<1>3. r <= Len(a) /\ a \in Seq(S)
  BY <1>2
<1>4. /\ b \in Seq(S) /\ Len(b) = Len(a) - r
      /\ \A i \in 1..(Len(a) - r) : b[i] = a[r + i]
  <2>1. b = SubSeq(a, r + 1, Len(a))
    BY <1>1
  <2> QED
    BY <1>3, <2>1, Rest
<1>5. /\ c \in Seq(S) /\ Len(c) = Len(d) - r
      /\ \A i \in 1..(Len(d) - r) : c[i] = d[r + i]
  BY <1>1, Rest
<1>6. /\ u \in Seq(S) /\ Len(u) = Len(c) + Len(e)
      /\ \A i \in 1..(Len(c) + Len(e)) : u[i] = IF i <= Len(c) THEN c[i] ELSE e[i - Len(c)]
  BY <1>1, <1>5, ConcatProperties, SMTT(20)
<1>7. Len(b) = Len(u) /\ Len(b) = Len(d) + Len(e) - r
  BY <1>2, <1>4, <1>5, <1>6
<1>8. ASSUME NEW i \in 1..Len(b) PROVE b[i] = u[i]
  <2>1. i \in 1..(Len(d) + Len(e) - r)
    BY <1>7
  <2>2. b[i] = a[r + i]
    BY <1>2, <1>4, <2>1
  <2>3. a[r + i] = IF r + i <= Len(d) THEN d[r + i] ELSE e[r + i - Len(d)]
    <3>1. r + i \in 1..(Len(d) + Len(e))
      BY <1>2, <2>1
    <3> QED
      BY <1>2, <3>1
  <2>4. u[i] = IF i <= Len(d) - r THEN c[i] ELSE e[i - (Len(d) - r)]
    BY <1>2, <1>5, <1>6, <2>1
  <2>5. CASE i <= Len(d) - r
    <3>1. c[i] = d[r + i]
      BY <1>2, <1>5, <2>1, <2>5
    <3> QED
      BY <1>2, <2>1, <2>2, <2>3, <2>4, <2>5, <3>1
  <2>6. CASE ~(i <= Len(d) - r)
    <3>1. i - (Len(d) - r) = r + i - Len(d) /\ ~(r + i <= Len(d))
      BY <1>2, <2>1, <2>6
    <3> QED
      BY <2>2, <2>3, <2>4, <2>6, <3>1
  <2> QED
    BY <2>5, <2>6
<1>9. b = u
  BY <1>4, <1>6, <1>7, <1>8, SeqEqual
<1> QED
  BY <1>1, <1>9

LEMMA DataOf ==
  ASSUME NEW w \in Writers
  PROVE  w.data \in Seq(ElementsOf) /\ Len(w.data) \in Nat
<1>1. w.data \in Seq(ElementsOf)
  BY DEF Writers
<1> QED
  BY <1>1, LenProperties

LEMMA StreamTyped ==
  ASSUME NEW w \in Writers \cup {None}, NEW r \in Nat,
         w # None => r <= Len(w.data), NEW f \in Seq(ElementsOf)
  PROVE  /\ WaitingIn(w, r) \in Seq(ElementsOf) /\ FileOf(w) \in Seq(ElementsOf)
         /\ StreamOf(w, r, f) \in Seq(ElementsOf)
         /\ Len(f) <= Len(StreamOf(w, r, f))
         /\ \A k \in 1..Len(f) : StreamOf(w, r, f)[k] = f[k]
<1>1. WaitingIn(w, r) \in Seq(ElementsOf)
  <2>1. CASE w # None /\ w.memory
    <3>1. w.data \in Seq(ElementsOf) /\ r <= Len(w.data)
      BY <2>1, DataOf
    <3>2. SubSeq(w.data, r + 1, Len(w.data)) \in Seq(ElementsOf)
      BY <3>1, Rest
    <3> QED
      BY <2>1, <3>2 DEF WaitingIn
  <2>2. CASE ~(w # None /\ w.memory)
    BY <2>2, EmptySeq DEF WaitingIn
  <2> QED
    BY <2>1, <2>2
<1>2. FileOf(w) \in Seq(ElementsOf)
  BY DataOf, EmptySeq DEF FileOf
<1>3. PICK x, s : x = WaitingIn(w, r) /\ s = StreamOf(w, r, f) /\ s = f \o x
  BY DEF StreamOf
<1>4. /\ s \in Seq(ElementsOf) /\ Len(s) = Len(f) + Len(x) /\ Len(f) \in Nat /\ Len(x) \in Nat
      /\ \A i \in 1..(Len(f) + Len(x)) : s[i] = IF i <= Len(f) THEN f[i] ELSE x[i - Len(f)]
  BY <1>1, <1>3, ConcatProperties, LenProperties
<1>5. Len(f) <= Len(s) /\ \A k \in 1..Len(f) : k \in 1..(Len(f) + Len(x)) /\ k <= Len(f)
  BY <1>4
<1>6. \A k \in 1..Len(f) : s[k] = f[k]
  BY <1>4, <1>5
<1> QED
  BY <1>1, <1>2, <1>3, <1>4, <1>5, <1>6

LEMMA StreamRead ==
  ASSUME NEW w, NEW r, NEW f \in Seq(ElementsOf),
         w # None /\ w.memory => w \in Writers /\ r = Len(w.data)
  PROVE  StreamOf(w, r, f) = f
<1>1. WaitingIn(w, r) = <<>>
  <2>1. CASE w # None /\ w.memory
    <3>1. r \in Nat /\ r = Len(w.data)
      BY <2>1, DataOf
    <3>2. PICK m \in Int, n \in Int : m = r + 1 /\ n = Len(w.data)
      BY <3>1
    <3>3. n < m
      BY <3>1, <3>2
    <3>4. SubSeq(w.data, m, n) = <<>>
      BY <3>3, SubSeqEmpty
    <3> QED
      BY <2>1, <3>2, <3>4 DEF WaitingIn
  <2>2. CASE ~(w # None /\ w.memory)
    BY <2>2 DEF WaitingIn
  <2> QED
    BY <2>1, <2>2
<1> QED
  BY <1>1, ConcatEmptySeq DEF StreamOf

GrowsInMemory(w, w2, r, f, e) ==
  StreamOf(w2, r, f) = StreamOf(w, r, f) \o e /\ FileOf(w2) = FileOf(w)

GrowsInFile(w, w2, r, f, e) ==
  StreamOf(w2, r, f) = StreamOf(w, r, f) /\ FileOf(w2) = FileOf(w) \o e

LEMMA MemoryGrows ==
  ASSUME NEW w \in Writers, NEW w2 \in Writers, NEW r \in Nat, r <= Len(w.data),
         NEW f \in Seq(ElementsOf), NEW e \in Seq(ElementsOf),
         w.memory, w2.memory, w2.data = w.data \o e
  PROVE  GrowsInMemory(w, w2, r, f, e)
<1>1. w # None /\ w2 # None
  BY SegmentIsThere
<1>2. w.data \in Seq(ElementsOf)
  BY DataOf
<1>3. PICK a : a = SubSeq(w.data, r + 1, Len(w.data))
  OBVIOUS
<1>4. WaitingIn(w, r) = a
  BY <1>1, <1>3 DEF WaitingIn
<1>5. WaitingIn(w2, r) = a \o e
  <2>1. SubSeq(w.data \o e, r + 1, Len(w.data \o e)) = a \o e
    BY <1>2, <1>3, RestGrows
  <2> QED
    BY <1>1, <2>1 DEF WaitingIn
<1>6. a \in Seq(ElementsOf)
  BY <1>2, <1>3, Rest
<1>7. f \o (a \o e) = (f \o a) \o e
  BY <1>6, ConcatAssociative, SMTT(20)
<1>8. FileOf(w2) = FileOf(w)
  BY DEF FileOf
<1> QED
  BY <1>4, <1>5, <1>7, <1>8 DEF GrowsInMemory, StreamOf

LEMMA FileGrows ==
  ASSUME NEW w \in Writers, NEW w2 \in Writers, NEW r, NEW f, NEW e,
         ~w.memory, ~w2.memory, w2.data = w.data \o e
  PROVE  GrowsInFile(w, w2, r, f, e)
<1>1. w # None /\ w2 # None
  BY SegmentIsThere
<1>2. StreamOf(w2, r, f) = StreamOf(w, r, f)
  BY DEF StreamOf, WaitingIn
<1>3. FileOf(w2) = FileOf(w) \o e
  BY <1>1 DEF FileOf
<1> QED
  BY <1>2, <1>3 DEF GrowsInFile
-----------------------------------------------------------------------------
(* What holds of the streams of the muxer as long as everything was read. *)

Taken(g, x) == {n \in DOMAIN g : g[n].segment # 0} \ x

StreamsGood(g, x, fs, o, m) ==
  /\ \A s \in Range(fs) : Good(g, s)
  /\ Good(g, o) /\ Good(g, m)
  /\ (UNION {PacketsOf(s) : s \in Range(fs)}) \cup PacketsOf(o) \cup PacketsOf(m) = Taken(g, x)

Current == IF writer.memory THEN MemoryStream ELSE writer.data

StreamInv ==
  ~wasted =>
    /\ StreamsGood(given, refused, files, OpenData, MemoryStream)
    /\ writer # None /\ writer.memory => PacketsOf(writer.data) \subseteq PacketsOf(MemoryStream)

SegmentInv ==
  segment # None =>
    /\ started > 0
    /\ ~segment.headerOut => segment.clusters = 0
    /\ segment.headerOut /\ ~wasted =>
         /\ segment.timecode <= segment.lastTs \div segment.scale
         /\ Ends(given, Current, segment, started)

FitInv ==
  ~changedOpen =>
    /\ segment # None /\ writer.memory =>
         segment.w = width /\ segment.h = height /\ settings.writeToMemory
    /\ ~wasted => Playable(Fitting(given), Any, MemoryStream)

PlayInv == StreamInv /\ SegmentInv /\ FitInv

LEMMA EmptyGood ==
  ASSUME NEW g
  PROVE  Good(g, <<>>)
BY EmptyPlays DEF Good

LEMMA ConcatPackets ==
  ASSUME NEW d \in Seq(ElementsOf), NEW e \in Seq(ElementsOf)
  PROVE  PacketsOf(d \o e) = PacketsOf(d) \cup PacketsOf(e)
<1>1. PICK f : f = d \o e
  OBVIOUS
<1>2. /\ f \in Seq(ElementsOf) /\ Len(f) = Len(d) + Len(e) /\ Len(d) \in Nat /\ Len(e) \in Nat
      /\ \A i \in 1..(Len(d) + Len(e)) : f[i] = IF i <= Len(d) THEN d[i] ELSE e[i - Len(d)]
  BY <1>1, ConcatProperties, LenProperties
<1>3. \A i \in Blocks(d) : i \in Blocks(f) /\ f[i] = d[i]
  <2> TAKE i \in Blocks(d)
  <2>1. i \in 1..Len(d) /\ d[i].kind = "block"
    BY BlocksAre
  <2>2. i \in 1..Len(f) /\ f[i] = d[i]
    BY <1>2, <2>1
  <2> QED
    BY <1>2, <2>1, <2>2, BlocksAre
<1>4. \A i \in Blocks(e) : Len(d) + i \in Blocks(f) /\ f[Len(d) + i] = e[i]
  <2> TAKE i \in Blocks(e)
  <2>1. i \in 1..Len(e) /\ e[i].kind = "block"
    BY BlocksAre
  <2>2. PICK k \in Int : k = Len(d) + i
    BY <1>2, <2>1
  <2>3. k \in 1..Len(f) /\ k \in 1..(Len(d) + Len(e)) /\ ~(k <= Len(d)) /\ k - Len(d) = i
    BY <1>2, <2>1, <2>2
  <2>4. f[k] = e[i]
    BY <1>2, <2>3
  <2>5. k \in Blocks(f)
    BY <1>2, <2>1, <2>3, <2>4, BlocksAre
  <2> QED
    BY <2>2, <2>4, <2>5
<1>5. \A i \in Blocks(f) : \/ i \in Blocks(d) /\ f[i] = d[i]
                           \/ i - Len(d) \in Blocks(e) /\ f[i] = e[i - Len(d)]
  <2> TAKE i \in Blocks(f)
  <2>1. i \in 1..Len(f) /\ f[i].kind = "block"
    BY <1>2, BlocksAre
  <2>2. CASE i <= Len(d)
    <3>1. i \in 1..Len(d) /\ f[i] = d[i]
      BY <1>2, <2>1, <2>2
    <3> QED
      BY <2>1, <3>1, BlocksAre
  <2>3. CASE ~(i <= Len(d))
    <3>1. i - Len(d) \in 1..Len(e) /\ f[i] = e[i - Len(d)]
      BY <1>2, <2>1, <2>3
    <3> QED
      BY <2>1, <3>1, BlocksAre
  <2> QED
    BY <2>2, <2>3
<1>6. PacketsOf(f) \subseteq PacketsOf(d) \cup PacketsOf(e)
  BY <1>5 DEF PacketsOf
<1>7. PacketsOf(d) \subseteq PacketsOf(f)
  BY <1>3 DEF PacketsOf
<1>8. PacketsOf(e) \subseteq PacketsOf(f)
  BY <1>4 DEF PacketsOf
<1> QED
  BY <1>1, <1>6, <1>7, <1>8

OneMoreEntry(g, g2, n, x) ==
  /\ Extends(g, g2) /\ g2[n] = x /\ n \notin DOMAIN g /\ n \in DOMAIN g2
  /\ \A i \in DOMAIN g2 : i \in DOMAIN g \/ i = n

LEMMA OneMoreGiven ==
  ASSUME NEW g \in Seq(Entries), NEW x \in Entries, NEW g2, g2 = Append(g, x),
         NEW n, n = Len(g) + 1
  PROVE  OneMoreEntry(g, g2, n, x)
<1>1. /\ g2 \in Seq(Entries) /\ Len(g) \in Nat /\ DOMAIN g = 1..Len(g)
      /\ DOMAIN g2 = 1..(Len(g) + 1) /\ g2[n] = x
      /\ \A i \in 1..Len(g) : g2[i] = g[i] /\ i \in 1..(Len(g) + 1)
      /\ \A i \in 1..(Len(g) + 1) : i \in 1..Len(g) \/ i = n
  BY AppendParts
<1>2. n \notin DOMAIN g /\ n \in DOMAIN g2
  BY <1>1
<1>3. \A i \in DOMAIN g : i \in DOMAIN g2 /\ g2[i] = g[i]
  BY <1>1
<1>4. \A i \in DOMAIN g2 : i \in DOMAIN g \/ i = n
  BY <1>1
<1>5. Extends(g, g2)
  BY <1>1, <1>3 DEF Extends
<1> QED
  BY <1>1, <1>2, <1>4, <1>5 DEF OneMoreEntry

TakesOne(g, g2, r, n) == Taken(g2, r) = Taken(g, r) \cup {n}
TakesNone(g, g2, r, r2) == Taken(g2, r2) = Taken(g, r)

LEMMA OneMoreTaken ==
  ASSUME NEW g \in Seq(Entries), NEW x \in Entries, NEW g2, g2 = Append(g, x),
         NEW r, r \subseteq DOMAIN g, NEW n, n = Len(g) + 1, x.segment # 0
  PROVE  TakesOne(g, g2, r, n)
<1>1. OneMoreEntry(g, g2, n, x)
  BY OneMoreGiven
<1> QED
  BY <1>1 DEF TakesOne, Taken, Extends, OneMoreEntry

LEMMA NoMoreTaken ==
  ASSUME NEW g \in Seq(Entries), NEW x \in Entries, NEW g2, g2 = Append(g, x),
         NEW r, r \subseteq DOMAIN g, NEW n, n = Len(g) + 1,
         NEW r2, r2 = r \cup {n} \/ (r2 = r /\ x.segment = 0)
  PROVE  TakesNone(g, g2, r, r2)
<1>1. OneMoreEntry(g, g2, n, x)
  BY OneMoreGiven
<1>2. CASE r2 = r \cup {n}
  BY <1>1, <1>2 DEF TakesNone, Taken, Extends, OneMoreEntry
<1>3. CASE r2 = r /\ x.segment = 0
  BY <1>1, <1>3 DEF TakesNone, Taken, Extends, OneMoreEntry
<1> QED
  BY <1>2, <1>3

(* A writer that is let go leaves the streams as good as they were. *)
LEMMA LetGoPlays ==
  ASSUME TypeInv, StreamInv, NEW data \in Seq(ElementsOf), LetGo(data), ~wasted',
         writer # None /\ ~writer.memory =>
           /\ PacketsOf(data) = PacketsOf(writer.data)
           /\ Good(given, writer.data) => Good(given, data)
  PROVE  /\ ~wasted /\ MemoryStream = fetched
         /\ StreamsGood(given, refused, files', <<>>, fetched)
<1>1. ~wasted /\ ~Unread
  BY DEF LetGo
<1>2. StreamsGood(given, refused, files, OpenData, MemoryStream)
  BY <1>1 DEF StreamInv
<1>3. MemoryStream = fetched
  <2>1. fetched \in Seq(ElementsOf) /\ readTo \in Nat
    BY DEF TypeInv, TypeOK
  <2>2. ASSUME writer # None, writer.memory
        PROVE  writer \in Writers /\ readTo = Len(writer.data)
    <3>1. writer \in Writers /\ Len(writer.data) \in Nat
      BY <2>2, DataTyped DEF TypeInv
    <3>2. readTo <= Len(writer.data)
      BY <2>2 DEF TypeInv, ReadInv
    <3>3. ~(readTo < Len(writer.data))
      BY <1>1, <2>2 DEF Unread
    <3> QED
      BY <2>1, <3>1, <3>2, <3>3
  <2> QED
    BY <2>1, <2>2, StreamRead DEF MemoryStream
<1>4. CASE ~(writer # None /\ ~writer.memory)
  <2>1. OpenData = <<>> /\ files' = files
    BY <1>4 DEF OpenData, FileOf, LetGo
  <2> QED
    BY <1>1, <1>2, <1>3, <2>1
<1>5. CASE writer # None /\ ~writer.memory
  <2>1. OpenData = writer.data /\ files' = Append(files, data)
    BY <1>5 DEF OpenData, FileOf, LetGo
  <2>2. Range(files') = Range(files) \cup {data}
    <3>1. PICK P : P = Seq(ElementsOf)
      OBVIOUS
    <3>2. files \in Seq(P) /\ data \in P
      BY <3>1 DEF TypeInv, TypeOK
    <3> QED
      BY <2>1, <3>2, RangeAppend
  <2>3. Good(given, data) /\ PacketsOf(data) = PacketsOf(OpenData)
    BY <1>2, <1>5, <2>1 DEF StreamsGood
  <2>4. \A s \in Range(files') : Good(given, s)
    BY <1>2, <2>2, <2>3 DEF StreamsGood
  <2>5. UNION {PacketsOf(s) : s \in Range(files')}
          = (UNION {PacketsOf(s) : s \in Range(files)}) \cup PacketsOf(OpenData)
    <3>1. \A z : z \in UNION {PacketsOf(s) : s \in Range(files')}
                   <=> \E s \in Range(files') : z \in PacketsOf(s)
      OBVIOUS
    <3>2. \A z : z \in UNION {PacketsOf(s) : s \in Range(files)}
                   <=> \E s \in Range(files) : z \in PacketsOf(s)
      OBVIOUS
    <3>3. \A z : (\E s \in Range(files') : z \in PacketsOf(s))
                   <=> (\E s \in Range(files) : z \in PacketsOf(s)) \/ z \in PacketsOf(data)
      BY <2>2
    <3>4. PICK A, B, C : /\ A = UNION {PacketsOf(s) : s \in Range(files')}
                         /\ B = UNION {PacketsOf(s) : s \in Range(files)}
                         /\ C = PacketsOf(data)
      OBVIOUS
    <3>5. \A z : z \in A <=> z \in B \/ z \in C
      BY <3>1, <3>2, <3>3, <3>4
    <3>6. A = B \cup C
      BY <3>5
    <3> QED
      BY <2>3, <3>4, <3>6
  <2>6. PacketsOf(<<>>) = {} /\ Good(given, <<>>)
    BY EmptyPlays, EmptyGood
  <2>7. StreamsGood(given, refused, files', <<>>, fetched)
    BY <1>2, <1>3, <2>4, <2>5, <2>6 DEF StreamsGood
  <2> QED
    BY <1>1, <1>3, <2>7
<1> QED
  BY <1>4, <1>5

LEMMA ClosePlays ==
  ASSUME TypeInv, StreamInv, object = "alive", Close, ~wasted'
  PROVE  /\ ~wasted /\ MemoryStream = fetched
         /\ StreamsGood(given, refused, files', <<>>, fetched)
<1>1. PICK data : data = IF isHeaderWritten THEN Finalized ELSE <<>>
  OBVIOUS
<1>2. isHeaderWritten => segment \in Segments /\ writer \in Writers
  BY DEF TypeInv, TypeOK
<1>3. data \in Seq(ElementsOf)
  BY <1>1, <1>2, FinalizedTyped, EmptySeq
<1>4. LetGo(data)
  BY <1>1 DEF Close
<1>5. ASSUME writer # None, ~writer.memory
      PROVE  /\ PacketsOf(data) = PacketsOf(writer.data)
             /\ Good(given, writer.data) => Good(given, data)
  <2>1. isHeaderWritten
    BY <1>5 DEF TypeInv, TypeOK
  <2>2. segment \in Segments /\ writer \in Writers /\ data = Finalized
    BY <1>1, <1>2, <2>1
  <2>3. CASE data = writer.data
    BY <2>3
  <2>4. CASE data = Append(writer.data, Cues(segment.points))
    <3>1. PICK d, e : d = writer.data /\ e = Cues(segment.points)
      OBVIOUS
    <3>2. d \in Seq(ElementsOf)
      BY <2>2, <3>1, DataOf
    <3>3. e \in ElementsOf /\ e.kind # "block"
      BY <2>2, <3>1, SegmentParts DEF Cues, ElementsOf
    <3>4. data = Append(d, e)
      BY <2>4, <3>1
    <3> QED
      BY <3>1, <3>2, <3>3, <3>4, AppendOther DEF Good
  <2> QED
    BY <2>2, <2>3, <2>4 DEF Finalized
<1> QED
  BY <1>3, <1>4, <1>5, LetGoPlays

(* A segment that is opened or closed leaves nothing in the streams. *)
LEMMA NothingOpenPlays ==
  ASSUME TypeInv, TypeInv', PlayInv,
         ~wasted' => /\ ~wasted /\ MemoryStream = fetched
                     /\ StreamsGood(given, refused, files', <<>>, fetched),
         UNCHANGED <<given, refused, fetched, changedOpen>>, readTo' = 0,
         writer' # None => writer'.data = <<>>,
         segment' # None => /\ started' > 0 /\ ~segment'.headerOut /\ segment'.clusters = 0
                            /\ segment'.w = width' /\ segment'.h = height'
                            /\ writer'.memory => settings'.writeToMemory
  PROVE  PlayInv'
<1>1. fetched \in Seq(ElementsOf) /\ (writer' # None => writer' \in Writers)
  BY DEF TypeInv, TypeOK
<1>2. StreamOf(writer', readTo', fetched') = fetched /\ FileOf(writer') = <<>>
  <2>1. writer' # None => readTo' = Len(writer'.data)
    BY EmptySeq
  <2>2. StreamOf(writer', readTo', fetched') = fetched
    BY <1>1, <2>1, StreamRead
  <2>3. FileOf(writer') = <<>>
    BY DEF FileOf
  <2> QED
    BY <2>2, <2>3
<1>3. MemoryStream' = fetched /\ OpenData' = <<>>
  BY <1>2 DEF MemoryStream, OpenData
<1>4. StreamInv'
  <2>1. PacketsOf(<<>>) = {}
    BY EmptyPlays
  <2>2. writer' # None => PacketsOf(writer'.data) = {}
    BY <2>1
  <2>3. ~wasted' => StreamsGood(given', refused', files', OpenData', MemoryStream')
    BY <1>3
  <2> QED
    BY <2>2, <2>3 DEF StreamInv
<1>5. SegmentInv'
  BY DEF SegmentInv
<1>6. FitInv'
  BY <1>3 DEF PlayInv, FitInv
<1> QED
  BY <1>4, <1>5, <1>6 DEF PlayInv

LEMMA HeaderPlays ==
  ASSUME TypeInv, TypeInv', PlayInv, WriteFileHeader
  PROVE  PlayInv'
<1>1. PICK opened \in BOOLEAN : writer' = NewWriter(opened)
  BY DEF WriteFileHeader
<1>2. /\ segment' = NewSegment(width, height) /\ started' = started + 1
      /\ UNCHANGED <<width, height, settings, given, refused>>
  BY DEF WriteFileHeader, properties
<1>3. PICK data : data = IF writer # None THEN writer.data ELSE <<>>
  OBVIOUS
<1>4. LetGo(data)
  BY <1>3 DEF WriteFileHeader
<1>5. data \in Seq(ElementsOf)
  BY <1>3, DataTyped, EmptySeq DEF TypeInv
<1>6. ~wasted' => /\ ~wasted /\ MemoryStream = fetched
                  /\ StreamsGood(given, refused, files', <<>>, fetched)
  BY <1>3, <1>4, <1>5, LetGoPlays DEF PlayInv
<1>7. UNCHANGED <<fetched, changedOpen>> /\ readTo' = 0
  BY <1>4 DEF LetGo
<1>8. /\ settings \in Settings /\ width \in Nat /\ height \in Nat
      /\ started' > 0
  BY <1>2 DEF TypeInv, TypeOK
<1>9. ~segment'.headerOut /\ segment'.clusters = 0 /\ segment'.w = width /\ segment'.h = height
  BY <1>2, <1>8, NewSegmentTyped
<1>10. writer'.data = <<>> /\ writer'.memory = settings.writeToMemory
  BY <1>1, <1>8, NewWriterTyped
<1>11. writer'.memory => settings.writeToMemory
  BY <1>10
<1>12. segment'.w = width' /\ segment'.h = height' /\ (writer'.memory => settings'.writeToMemory)
  BY <1>2, <1>9, <1>11
<1>13. UNCHANGED <<given, refused, fetched, changedOpen>>
  BY <1>2, <1>7
<1> QED
  BY <1>6, <1>7, <1>8, <1>9, <1>10, <1>12, <1>13, NothingOpenPlays

LEMMA TrailerPlays ==
  ASSUME TypeInv, TypeInv', PlayInv, WriteFileTrailer \/ Delete
  PROVE  PlayInv'
<1>1. /\ object = "alive" /\ segment' = None /\ writer' = None /\ Close
      /\ UNCHANGED <<given, refused>>
  BY DEF WriteFileTrailer, Delete
<1>2. UNCHANGED <<fetched, changedOpen>> /\ readTo' = 0
  BY <1>1 DEF Close, LetGo
<1>3. ~wasted' => /\ ~wasted /\ MemoryStream = fetched
                  /\ StreamsGood(given, refused, files', <<>>, fetched)
  BY <1>1, ClosePlays DEF PlayInv
<1> QED
  BY <1>1, <1>2, <1>3, NothingOpenPlays

(* Calls that leave the streams as they are. *)
LEMMA SameStreamsPlay ==
  ASSUME PlayInv, UNCHANGED <<given, refused, files, segment, started>>,
         ~wasted' => /\ ~wasted /\ MemoryStream' = MemoryStream /\ OpenData' = OpenData,
         writer' # None => writer # None,
         segment # None => writer # None /\ writer' # None,
         writer' # None =>
           /\ writer'.memory <=> writer.memory
           /\ ~writer.memory => writer'.data = writer.data
           /\ PacketsOf(writer'.data) \subseteq PacketsOf(writer.data),
         ~changedOpen' /\ segment # None =>
           width' = width /\ height' = height /\ (settings.writeToMemory => settings'.writeToMemory),
         ~changedOpen' => ~changedOpen
  PROVE  PlayInv'
<1>1. StreamInv'
  <2> SUFFICES ASSUME ~wasted'
               PROVE  /\ StreamsGood(given', refused', files', OpenData', MemoryStream')
                      /\ writer' # None /\ writer'.memory =>
                           PacketsOf(writer'.data) \subseteq PacketsOf(MemoryStream')
    BY DEF StreamInv
  <2>1. /\ StreamsGood(given, refused, files, OpenData, MemoryStream)
        /\ writer # None /\ writer.memory => PacketsOf(writer.data) \subseteq PacketsOf(MemoryStream)
        /\ MemoryStream' = MemoryStream /\ OpenData' = OpenData
    BY DEF PlayInv, StreamInv
  <2> QED
    BY <2>1
<1>2. SegmentInv'
  <2> SUFFICES ASSUME segment # None PROVE SegmentInv'
    BY DEF SegmentInv
  <2>1. /\ started > 0
        /\ ~segment.headerOut => segment.clusters = 0
        /\ segment.headerOut /\ ~wasted =>
             /\ segment.timecode <= segment.lastTs \div segment.scale
             /\ Ends(given, Current, segment, started)
    BY DEF PlayInv, SegmentInv
  <2>2. ~wasted' => ~wasted /\ Current' = Current
    BY DEF Current
  <2> QED
    BY <2>1, <2>2 DEF SegmentInv
<1>3. FitInv'
  <2>1. ~changedOpen' /\ ~wasted' => Playable(Fitting(given'), Any, MemoryStream')
    BY DEF PlayInv, FitInv
  <2>2. ASSUME ~changedOpen', segment' # None, writer'.memory
        PROVE  segment'.w = width' /\ segment'.h = height' /\ settings'.writeToMemory
    <3>1. segment.w = width /\ segment.h = height /\ settings.writeToMemory
      BY <2>2 DEF PlayInv, FitInv
    <3> QED
      BY <2>2, <3>1
  <2> QED
    BY <2>1, <2>2 DEF FitInv
<1> QED
  BY <1>1, <1>2, <1>3 DEF PlayInv

SameStreams == MemoryStream' = MemoryStream /\ OpenData' = OpenData

LEMMA FetchKeeps ==
  ASSUME TypeInv, Fetch
  PROVE  SameStreams
<1>1. UNCHANGED writer
  BY DEF Fetch, internals
<1>2. \/ UNCHANGED <<fetched, readTo>>
      \/ /\ writer # None /\ writer.memory /\ readTo' = Len(writer.data)
         /\ fetched' = fetched \o SubSeq(writer.data, readTo + 1, Len(writer.data))
  BY DEF Fetch, reader
<1> SUFFICES MemoryStream' = MemoryStream /\ OpenData' = OpenData
  BY DEF SameStreams
<1>3. MemoryStream' = MemoryStream /\ OpenData' = OpenData
  <2>1. CASE UNCHANGED <<fetched, readTo>>
    BY <1>1, <2>1 DEF MemoryStream, OpenData
  <2>2. CASE /\ writer # None /\ writer.memory /\ readTo' = Len(writer.data)
             /\ fetched' = fetched \o SubSeq(writer.data, readTo + 1, Len(writer.data))
    <3>1. MemoryStream = fetched'
      BY <2>2 DEF MemoryStream, StreamOf, WaitingIn
    <3>2. writer \in Writers /\ readTo \in Nat /\ readTo <= Len(writer.data)
      BY <2>2 DEF TypeInv, TypeOK, ReadInv
    <3>3. fetched' \in Seq(ElementsOf)
      <4>1. StreamOf(writer, readTo, fetched) \in Seq(ElementsOf)
        BY <3>2, StreamTyped DEF TypeInv, TypeOK
      <4> QED
        BY <3>1, <4>1 DEF MemoryStream
    <3>4. StreamOf(writer, readTo', fetched') = fetched'
      BY <2>2, <3>2, <3>3, StreamRead
    <3> QED
      BY <1>1, <3>1, <3>4 DEF MemoryStream, OpenData
  <2> QED
    BY <1>2, <2>1, <2>2
<1> QED
  BY <1>3

LEMMA FetchPlays ==
  ASSUME TypeInv, PlayInv, Fetch
  PROVE  PlayInv'
<1>1. /\ UNCHANGED <<width, height, settings, segment, writer, started, files>>
      /\ UNCHANGED <<given, refused, wasted, changedOpen>> /\ object = "alive"
  BY DEF Fetch, properties, internals
<1>2. MemoryStream' = MemoryStream /\ OpenData' = OpenData
  BY FetchKeeps DEF SameStreams
<1>3. segment # None => writer # None
  BY <1>1 DEF TypeInv, TypeOK
<1> QED
  BY <1>1, <1>2, <1>3, SameStreamsPlay

LEMMA FlushKeeps ==
  ASSUME TypeInv, Flush
  PROVE  /\ ~wasted' => SameStreams
         /\ writer' # None /\ writer'.memory /\ writer'.data = <<>>
<1>1. /\ UNCHANGED <<width, height, settings, segment, files, started>>
      /\ UNCHANGED <<fetched, given, refused, changedOpen>>
      /\ readTo' = 0 /\ writer' = [writer EXCEPT !.data = <<>>]
      /\ writer # None /\ writer.memory /\ (~wasted' => ~wasted /\ ~Unread)
  BY DEF Flush, properties
<1>2. writer \in Writers /\ Len(writer.data) \in Nat /\ fetched \in Seq(ElementsOf) /\ readTo \in Nat
  BY <1>1, DataTyped DEF TypeInv, TypeOK
<1>3. writer'.data = <<>> /\ writer'.memory
  BY <1>1, <1>2 DEF Writers
<1>4. writer' # None /\ writer' \in Writers
  <2>1. <<>> \in Seq(ElementsOf)
    BY EmptySeq
  <2>2. writer' \in Writers
    BY <1>1, <1>2, <2>1 DEF Writers
  <2> QED
    BY <2>2, SegmentIsThere
<1>5. ~wasted' => MemoryStream' = MemoryStream
  <2> HAVE ~wasted'
  <2>1. readTo = Len(writer.data)
    <3>1. readTo <= Len(writer.data)
      BY <1>1 DEF TypeInv, ReadInv
    <3>2. ~(readTo < Len(writer.data))
      BY <1>1 DEF Unread
    <3> QED
      BY <1>2, <3>1, <3>2
  <2>2. StreamOf(writer, readTo, fetched) = fetched
    BY <1>2, <2>1, StreamRead
  <2>3. readTo' = Len(writer'.data)
    BY <1>1, <1>3, EmptySeq
  <2>4. StreamOf(writer', readTo', fetched) = fetched
    BY <1>2, <1>4, <2>3, StreamRead
  <2> QED
    BY <1>1, <2>2, <2>4 DEF MemoryStream
<1>6. OpenData' = OpenData
  BY <1>1, <1>3 DEF OpenData, FileOf
<1> QED
  BY <1>3, <1>4, <1>5, <1>6 DEF SameStreams

LEMMA FlushPlays ==
  ASSUME TypeInv, TypeInv', PlayInv, Flush
  PROVE  PlayInv'
<1>1. /\ UNCHANGED <<width, height, settings, segment, files, started>>
      /\ UNCHANGED <<given, refused, changedOpen>>
      /\ writer # None /\ writer.memory /\ (~wasted' => ~wasted)
  BY DEF Flush, properties
<1>2. /\ ~wasted' => MemoryStream' = MemoryStream /\ OpenData' = OpenData
      /\ writer' # None /\ writer'.memory /\ writer'.data = <<>>
  BY FlushKeeps DEF SameStreams
<1>3. PacketsOf(writer'.data) \subseteq PacketsOf(writer.data)
  BY <1>2, EmptyPlays
<1>4. writer'.memory <=> writer.memory
  BY <1>1, <1>2
<1> QED
  BY <1>1, <1>2, <1>3, <1>4, SameStreamsPlay

LEMMA SetterPlays ==
  ASSUME TypeInv, PlayInv, Setter
  PROVE  PlayInv'
<1>1. /\ UNCHANGED <<segment, writer, started, files, fetched, readTo, given, refused, wasted>>
      /\ changedOpen' = (changedOpen \/ (isHeaderWritten /\ ~SameTarget)) /\ object = "alive"
  BY DEF Setter, Set, internals, reader
<1>2. segment # None => writer # None /\ isHeaderWritten
  BY <1>1 DEF TypeInv, TypeOK
<1>3. MemoryStream' = MemoryStream /\ OpenData' = OpenData
  BY <1>1 DEF MemoryStream, OpenData
<1>4. ~changedOpen' /\ segment # None =>
         width' = width /\ height' = height /\ (settings.writeToMemory => settings'.writeToMemory)
  BY <1>1, <1>2 DEF SameTarget
<1>5. ~changedOpen' => ~changedOpen
  BY <1>1
<1> QED
  BY <1>1, <1>2, <1>3, <1>4, <1>5, SameStreamsPlay

LEMMA KeptStreams ==
  ASSUME NEW g, NEW g2, Extends(g, g2), NEW r, NEW r2, Taken(g2, r2) = Taken(g, r),
         NEW fs, NEW o, NEW m, StreamsGood(g, r, fs, o, m)
  PROVE  StreamsGood(g2, r2, fs, o, m)
BY MoreGood DEF StreamsGood

LEMMA AddedStreams ==
  ASSUME NEW g, NEW g2, Extends(g, g2), NEW r, NEW n, Taken(g2, r) = Taken(g, r) \cup {n},
         NEW fs, NEW o, NEW m, StreamsGood(g, r, fs, o, m), NEW o2, NEW m2,
         \/ o2 = o /\ Good(g2, m2) /\ PacketsOf(m2) = PacketsOf(m) \cup {n}
         \/ m2 = m /\ Good(g2, o2) /\ PacketsOf(o2) = PacketsOf(o) \cup {n}
  PROVE  StreamsGood(g2, r, fs, o2, m2)
<1>1. \A s : Good(g, s) => Good(g2, s)
  BY MoreGood
<1>2. PICK A : A = UNION {PacketsOf(s) : s \in Range(fs)}
  OBVIOUS
<1>3. /\ \A s \in Range(fs) : Good(g, s)
      /\ Good(g, o) /\ Good(g, m)
      /\ A \cup PacketsOf(o) \cup PacketsOf(m) = Taken(g, r)
  BY <1>2 DEF StreamsGood
<1>4. /\ \A s \in Range(fs) : Good(g2, s)
      /\ Good(g2, o2) /\ Good(g2, m2)
  BY <1>1, <1>3
<1>5. A \cup PacketsOf(o2) \cup PacketsOf(m2) = Taken(g2, r)
  BY <1>3
<1> QED
  BY <1>2, <1>4, <1>5 DEF StreamsGood

(* The packet given, when there is a segment that takes it. *)
LEMMA GivenTyped ==
  ASSUME TypeOK, NEW p \in Packets, started' \in Nat, NEW x, x = Given(p)
  PROVE  /\ x \in Entries /\ x.packet = p
         /\ writer' # None /\ writer'.opened => x.segment = started'
         /\ ~(writer' # None /\ writer'.opened) => x.segment = 0
<1>1. (writer' # None /\ writer'.memory) \in BOOLEAN
  OBVIOUS
<1>2. (IF writer' # None /\ writer'.opened THEN started' ELSE 0) \in Nat
  OBVIOUS
<1>3. PICK m \in BOOLEAN, k \in Nat :
        /\ k = IF writer' # None /\ writer'.opened THEN started' ELSE 0
        /\ x = [packet |-> p, segment |-> k, memory |-> m]
  BY <1>1, <1>2 DEF Given
<1> QED
  BY <1>3 DEF Entries

(* A buffer that takes the place of a writer whose stream was read. *)
FreshStreams(e) == MemoryStream' = fetched \o e /\ OpenData' = <<>>

LEMMA StreamsStart ==
  ASSUME fetched \in Seq(ElementsOf), NEW w \in Writers, w.memory, w.data = <<>>,
         writer' \in Writers, writer'.memory, NEW e \in Seq(ElementsOf),
         writer'.data = w.data \o e, UNCHANGED fetched, readTo' = 0
  PROVE  FreshStreams(e)
<1>1. PICK r \in Nat : r = 0 /\ r <= Len(w.data) /\ r = Len(w.data)
  BY EmptySeq
<1>2. PICK w2, F : w2 = writer' /\ F = fetched
  OBVIOUS
<1>3. w2 \in Writers /\ w2.data = w.data \o e /\ w2.memory /\ F \in Seq(ElementsOf)
  BY <1>2
<1>4. GrowsInMemory(w, w2, r, F, e)
  BY <1>1, <1>3, MemoryGrows
<1>5. StreamOf(w, r, F) = F
  BY <1>1, <1>3, StreamRead
<1>6. FileOf(w2) = <<>>
  BY <1>3 DEF FileOf
<1>7. MemoryStream' = StreamOf(w2, r, F) /\ OpenData' = FileOf(w2)
  BY <1>1, <1>2 DEF MemoryStream, OpenData
<1> QED
  BY <1>2, <1>4, <1>5, <1>6, <1>7 DEF GrowsInMemory, FreshStreams

LEMMA NewSegmentPlays ==
  ASSUME TypeInv, TypeInv', PlayInv, NEW p \in Packets, WriteWebmBlock(p),
         WriteBlockInNewSegment(p)
  PROVE  PlayInv'
<1>1. /\ Close /\ started' = started + 1 /\ width' = p.w /\ height' = p.h
      /\ UNCHANGED settings /\ settings.writeToMemory
      /\ object = "alive" /\ given' = Append(given, Given(p))
  BY DEF WriteWebmBlock, WriteBlockInNewSegment
<1>2. PICK s, t, w, n, x :
        /\ s = NewSegment(p.w, p.h) /\ t = Forced(s) /\ w = NewWriter(TRUE)
        /\ n = Len(given) + 1 /\ x = Given(p)
  OBVIOUS
<1>3. AddFrame(t, w, p, n)
  BY <1>2 DEF WriteBlockInNewSegment
<1>4. /\ settings \in Settings /\ p.w \in Nat /\ p.h \in Nat /\ p.ts \in Nat
      /\ started' \in Nat /\ started' > 0 /\ given \in Seq(Entries) /\ fetched \in Seq(ElementsOf)
      /\ refused \subseteq DOMAIN given
  BY <1>1, PacketParts DEF TypeInv, TypeOK, Entries
<1>5. s \in Segments /\ s.w = p.w /\ s.h = p.h /\ s.clusters = 0 /\ s.lastTs = 0 /\ ~s.headerOut
  BY <1>2, <1>4, NewSegmentTyped
<1>6. t \in Segments /\ t.w = p.w /\ t.h = p.h /\ t.clusters = 0 /\ t.lastTs = 0 /\ ~t.headerOut
  BY <1>2, <1>5, ForcedTyped
<1>7. w \in Writers /\ w.data = <<>> /\ w.memory = settings.writeToMemory /\ w.opened = TRUE
  BY <1>2, <1>4, NewWriterTyped
<1>8. w.memory /\ w.opened
  BY <1>1, <1>7
<1>9. n \in Nat
  BY <1>2, <1>4, LenProperties
<1>10. Accepts(t, w, p)
  BY <1>4, <1>6, <1>8 DEF Accepts
<1>11. /\ segment' = SegmentWith(t, w, p) /\ UNCHANGED refused
       /\ writer'.data = w.data \o Elements(t, p, n)
       /\ writer' \in Writers /\ writer'.memory = w.memory /\ writer'.opened = w.opened
  BY <1>3, <1>4, <1>6, <1>7, <1>9, <1>10, AddFrameTyped
<1>12. PICK e : e = Elements(t, p, n)
  OBVIOUS
<1>13. e \in Seq(ElementsOf)
  BY <1>4, <1>6, <1>9, <1>12, EmptySeq, ElementsAdded
<1>14. UNCHANGED <<fetched, changedOpen>> /\ readTo' = 0
  BY <1>1 DEF Close, LetGo
<1>15. writer' # None
  BY <1>11, SegmentIsThere
<1>16. MemoryStream' = fetched \o e /\ OpenData' = <<>>
  <2>1. writer'.memory /\ writer'.data = w.data \o e
    BY <1>8, <1>11, <1>12
  <2>2. FreshStreams(e)
    BY <1>4, <1>7, <1>8, <1>11, <1>13, <1>14, <2>1, StreamsStart
  <2> QED
    BY <2>2 DEF FreshStreams
<1>17. x \in Entries /\ x.packet = p /\ x.segment = started'
  <2>1. writer'.opened
    BY <1>8, <1>11
  <2> QED
    BY <1>2, <1>4, <1>15, <2>1, GivenTyped DEF TypeInv
<1>18. given' = Append(given, x)
  BY <1>1, <1>2
<1>19. PICK g, g2, f, t2 : g = given /\ g2 = given' /\ f = fetched \o e /\ t2 = segment'
  OBVIOUS
<1>20. Adds(g, g2, t, p, fetched, f, t2, n, started')
  <2>1. p.ts >= t.lastTs
    BY <1>4, <1>6
  <2>2. t2 = SegmentWith(t, w, p) /\ f = fetched \o Elements(t, p, n)
    BY <1>11, <1>12, <1>19
  <2>3. g \in Seq(Entries) /\ g2 = Append(g, x) /\ n = Len(g) + 1
    BY <1>2, <1>4, <1>18, <1>19
  <2>4. p = x.packet /\ x.segment = started' /\ x \in Entries
    BY <1>17
  <2> QED
    BY <1>4, <1>6, <1>7, <2>1, <2>2, <2>3, <2>4, AddPlays
<1>21. ~wasted' => /\ ~wasted /\ MemoryStream = fetched
                   /\ StreamsGood(given, refused, files', <<>>, fetched)
  BY <1>1, ClosePlays DEF PlayInv
<1>22. StreamInv'
  <2> SUFFICES ASSUME ~wasted'
               PROVE  /\ StreamsGood(given', refused', files', OpenData', MemoryStream')
                      /\ PacketsOf(writer'.data) \subseteq PacketsOf(MemoryStream')
    BY DEF StreamInv
  <2>1. StreamsGood(g, refused, files', <<>>, fetched)
    BY <1>19, <1>21
  <2>2. Good(g, fetched)
    BY <2>1 DEF StreamsGood
  <2>3. Good(g2, f) /\ PacketsOf(f) = PacketsOf(fetched) \cup {n}
    BY <1>20, <2>2 DEF Adds
  <2>4. Extends(g, g2) /\ Taken(g2, refused) = Taken(g, refused) \cup {n}
    <3>1. g \in Seq(Entries) /\ g2 = Append(g, x) /\ n = Len(g) + 1 /\ refused \subseteq DOMAIN g
      BY <1>2, <1>4, <1>18, <1>19
    <3>2. x.segment # 0 /\ x \in Entries
      BY <1>4, <1>17
    <3>3. PICK r : r = refused
      OBVIOUS
    <3>4. r \subseteq DOMAIN g
      BY <3>1, <3>3
    <3>5. OneMoreEntry(g, g2, n, x)
      BY <3>1, <3>2, OneMoreGiven
    <3>6. TakesOne(g, g2, r, n)
      BY <3>1, <3>2, <3>4, OneMoreTaken
    <3> QED
      BY <3>3, <3>5, <3>6 DEF OneMoreEntry, TakesOne
  <2>5. StreamsGood(g2, refused, files', <<>>, f)
    BY <2>1, <2>3, <2>4, AddedStreams
  <2>6. PacketsOf(writer'.data) \subseteq PacketsOf(f)
    <3>1. writer'.data = <<>> \o e
      BY <1>7, <1>11, <1>12
    <3>2. writer'.data = e
      BY <1>13, <3>1, ConcatEmptySeq
    <3>3. PacketsOf(f) = PacketsOf(fetched) \cup PacketsOf(e)
      BY <1>4, <1>13, <1>19, ConcatPackets
    <3> QED
      BY <3>2, <3>3
  <2> QED
    BY <1>11, <1>16, <1>19, <2>5, <2>6
<1>23. SegmentInv'
  <2>1. Current' = f
    BY <1>8, <1>11, <1>16, <1>19 DEF Current
  <2> QED
    BY <1>4, <1>19, <1>20, <2>1 DEF SegmentInv, Adds
<1>24. FitInv'
  <2>1. segment'.w = width' /\ segment'.h = height' /\ settings'.writeToMemory
    <3>1. SegmentAfter(t, p, segment')
      BY <1>6, <1>7, <1>11, SegmentWithTyped
    <3> QED
      BY <1>1, <1>6, <3>1 DEF SegmentAfter
  <2>2. ASSUME ~changedOpen', ~wasted'
        PROVE  Playable(Fitting(given'), Any, MemoryStream')
    <3>1. Playable(Fitting(given), Any, fetched)
      BY <1>14, <1>21, <2>2 DEF PlayInv, FitInv
    <3>2. Playable(Fitting(g2), Any, f)
      BY <1>6, <1>19, <1>20, <3>1 DEF Adds
    <3> QED
      BY <1>16, <1>19, <3>2
  <2> QED
    BY <2>1, <2>2 DEF FitInv
<1> QED
  BY <1>22, <1>23, <1>24 DEF PlayInv

(* A packet that goes nowhere changes no stream. *)
LEMMA CrashPlays ==
  ASSUME TypeInv, TypeInv', PlayInv, NEW p \in Packets, WriteWebmBlock(p), WriteBlockCrashes(p)
  PROVE  PlayInv'
<1>1. /\ object = "alive" /\ given' = Append(given, Given(p)) /\ segment = None
      /\ UNCHANGED <<width, height, settings, segment, writer, started, files, fetched, readTo>>
      /\ UNCHANGED <<refused, wasted, changedOpen>>
  BY DEF WriteWebmBlock, WriteBlockCrashes, properties, internals, reader
<1>2. writer = None /\ writer' = None /\ segment' = None
  BY <1>1 DEF TypeInv, TypeOK
<1>3. given \in Seq(Entries) /\ started' \in Nat /\ refused \subseteq DOMAIN given
  BY <1>1 DEF TypeInv, TypeOK, Entries
<1>4. PICK x, g, g2, n, r :
        x = Given(p) /\ g = given /\ g2 = given' /\ n = Len(given) + 1 /\ r = refused
  OBVIOUS
<1>5. x \in Entries /\ x.segment = 0
  BY <1>2, <1>3, <1>4, GivenTyped DEF TypeInv
<1>6. g \in Seq(Entries) /\ g2 = Append(g, x) /\ n = Len(g) + 1 /\ r \subseteq DOMAIN g
  BY <1>1, <1>3, <1>4
<1>7. OneMoreEntry(g, g2, n, x)
  BY <1>5, <1>6, OneMoreGiven
<1>8. TakesNone(g, g2, r, r)
  BY <1>5, <1>6, NoMoreTaken
<1>9. Extends(g, g2) /\ Taken(g2, r) = Taken(g, r)
  BY <1>7, <1>8 DEF OneMoreEntry, TakesNone
<1>10. MemoryStream' = MemoryStream /\ OpenData' = OpenData
  BY <1>1 DEF MemoryStream, OpenData
<1>11. StreamInv'
  <2> SUFFICES ASSUME ~wasted'
               PROVE  StreamsGood(given', refused', files', OpenData', MemoryStream')
    BY <1>2 DEF StreamInv
  <2>1. StreamsGood(g, r, files, OpenData, MemoryStream)
    BY <1>1, <1>4 DEF PlayInv, StreamInv
  <2>2. StreamsGood(g2, r, files, OpenData, MemoryStream)
    BY <1>9, <2>1, KeptStreams
  <2> QED
    BY <1>1, <1>4, <1>10, <2>2
<1>12. SegmentInv'
  BY <1>2 DEF SegmentInv
<1>13. FitInv'
  <2> SUFFICES ASSUME ~changedOpen', ~wasted'
               PROVE  Playable(Fitting(given'), Any, MemoryStream')
    BY <1>2 DEF FitInv
  <2>1. Playable(Fitting(g), Any, MemoryStream)
    BY <1>1, <1>4 DEF PlayInv, FitInv
  <2>2. Playable(Fitting(g2), Any, MemoryStream)
    BY <1>9, <2>1, MoreGood
  <2> QED
    BY <1>4, <1>10, <2>2
<1> QED
  BY <1>11, <1>12, <1>13 DEF PlayInv

(* The stream that the segment is a part of, and no other, takes what is added to
   its writer. *)
Grown(e) ==
  /\ Current \in Seq(ElementsOf) /\ Current' = Current \o e
  /\ writer.memory =>
       MemoryStream = Current /\ MemoryStream' = Current' /\ OpenData' = OpenData
  /\ ~writer.memory =>
       OpenData = Current /\ OpenData' = Current' /\ MemoryStream' = MemoryStream

LEMMA StreamsGrow ==
  ASSUME TypeInv, writer \in Writers, writer' \in Writers, writer'.memory = writer.memory,
         NEW e \in Seq(ElementsOf), writer'.data = writer.data \o e,
         UNCHANGED <<fetched, readTo>>
  PROVE  Grown(e)
<1>1. PICK w, w2, R, F : w = writer /\ w2 = writer' /\ R = readTo /\ F = fetched
  OBVIOUS
<1>2. w \in Writers /\ w2 \in Writers /\ w2.data = w.data \o e /\ w # None /\ w2 # None
  BY <1>1, SegmentIsThere
<1>3. R \in Nat /\ R <= Len(w.data) /\ F \in Seq(ElementsOf)
  BY <1>1, <1>2 DEF TypeInv, TypeOK, ReadInv
<1>4. CASE w.memory
  <2>1. w2.memory
    BY <1>1, <1>4
  <2>2. GrowsInMemory(w, w2, R, F, e)
    BY <1>2, <1>3, <1>4, <2>1, MemoryGrows
  <2>3. Current = MemoryStream /\ Current' = MemoryStream'
    BY <1>1, <1>4, <2>1 DEF Current
  <2>4. MemoryStream' = MemoryStream \o e /\ OpenData' = OpenData
    BY <1>1, <2>2 DEF GrowsInMemory, MemoryStream, OpenData
  <2>5. MemoryStream \in Seq(ElementsOf)
    <3>1. w \in Writers \cup {None} /\ (w # None => R <= Len(w.data))
      BY <1>2, <1>3
    <3>2. StreamOf(w, R, F) \in Seq(ElementsOf)
      BY <1>3, <3>1, StreamTyped
    <3> QED
      BY <1>1, <3>2 DEF MemoryStream
  <2> QED
    BY <1>1, <1>4, <2>3, <2>4, <2>5 DEF Grown
<1>5. CASE ~w.memory
  <2>1. ~w2.memory
    BY <1>1, <1>5
  <2>2. GrowsInFile(w, w2, R, F, e)
    BY <1>2, <1>5, <2>1, FileGrows
  <2>3. Current = w.data /\ Current' = w2.data
    BY <1>1, <1>5, <2>1 DEF Current
  <2>4. OpenData = w.data /\ OpenData' = w2.data
    BY <1>1, <1>2, <1>5, <2>1 DEF OpenData, FileOf
  <2>5. MemoryStream' = MemoryStream
    BY <1>1, <2>2 DEF GrowsInFile, MemoryStream
  <2>6. w.data \in Seq(ElementsOf)
    BY <1>2, DataOf
  <2> QED
    BY <1>1, <1>2, <1>5, <2>3, <2>4, <2>5, <2>6 DEF Grown
<1> QED
  BY <1>4, <1>5

LEMMA InSegmentPlays ==
  ASSUME TypeInv, TypeInv', PlayInv, NEW p \in Packets, WriteWebmBlock(p), WriteBlockInSegment(p)
  PROVE  PlayInv'
<1>1. /\ object = "alive" /\ given' = Append(given, Given(p)) /\ segment # None
      /\ ~(Resizes(p) /\ settings.writeToMemory)
      /\ UNCHANGED <<width, height, settings, started, files, fetched, readTo>>
      /\ UNCHANGED <<wasted, changedOpen>>
  BY DEF WriteWebmBlock, WriteBlockInSegment, properties, reader
<1>2. PICK t, w, n, x, g, g2, r :
        /\ t = Forced(segment) /\ w = writer /\ n = Len(given) + 1 /\ x = Given(p)
        /\ g = given /\ g2 = given' /\ r = refused
  OBVIOUS
<1>3. AddFrame(t, w, p, n)
  BY <1>2 DEF WriteBlockInSegment
<1>4. /\ settings \in Settings /\ p.w \in Nat /\ p.h \in Nat /\ p.ts \in Nat
      /\ started' \in Nat /\ given \in Seq(Entries) /\ fetched \in Seq(ElementsOf)
      /\ refused \subseteq DOMAIN given /\ readTo \in Nat
  BY <1>1, PacketParts DEF TypeInv, TypeOK, Entries
<1>5. segment \in Segments /\ writer \in Writers /\ writer # None
  BY <1>1 DEF TypeInv, TypeOK
<1>6. /\ t \in Segments /\ t.w = segment.w /\ t.h = segment.h /\ t.scale = segment.scale
      /\ t.headerOut = segment.headerOut /\ t.clusters = segment.clusters
      /\ t.timecode = segment.timecode /\ t.lastTs = segment.lastTs
  BY <1>2, <1>5, ForcedTyped
<1>7. w \in Writers /\ n \in Nat /\ w # None
  BY <1>2, <1>4, <1>5, LenProperties
<1>8. /\ segment' \in Segments /\ writer' \in Writers
      /\ writer'.memory = w.memory /\ writer'.opened = w.opened
  BY <1>3, <1>4, <1>6, <1>7, AddFrameTyped
<1>9. writer' # None /\ segment' # None
  BY <1>8, SegmentIsThere
<1>10. g \in Seq(Entries) /\ g2 = Append(g, x) /\ n = Len(g) + 1 /\ r \subseteq DOMAIN g
  BY <1>1, <1>2, <1>4
<1>11. x \in Entries /\ x.packet = p
  BY <1>2, <1>4, GivenTyped DEF TypeInv
<1>12. OneMoreEntry(g, g2, n, x)
  BY <1>10, <1>11, OneMoreGiven
<1>13. Extends(g, g2)
  BY <1>12 DEF OneMoreEntry
<1>14. /\ started > 0
       /\ ~t.headerOut => t.clusters = 0
       /\ t.headerOut /\ ~wasted =>
            t.timecode <= t.lastTs \div t.scale /\ Ends(g, Current, segment, started)
  BY <1>1, <1>2, <1>6 DEF PlayInv, SegmentInv
<1>15. t.headerOut /\ ~wasted => Ends(g, Current, t, started)
  BY <1>6, <1>14 DEF Ends, EndsAt
<1>16. ~wasted => StreamsGood(g, r, files, OpenData, MemoryStream)
  BY <1>2 DEF PlayInv, StreamInv
<1>17. ~changedOpen /\ ~wasted => Playable(Fitting(g), Any, MemoryStream)
  BY <1>2 DEF PlayInv, FitInv
<1>18. ~changedOpen /\ w.memory => t.w = width /\ t.h = height /\ settings.writeToMemory
  BY <1>1, <1>2, <1>6 DEF PlayInv, FitInv
<1>19. ~wasted /\ w.memory => PacketsOf(w.data) \subseteq PacketsOf(MemoryStream)
  BY <1>2, <1>7 DEF PlayInv, StreamInv
<1>20. CASE ~Accepts(t, w, p)
  <2>1. segment' = t /\ writer' = w /\ refused' = r \cup {n}
    BY <1>2, <1>3, <1>20 DEF AddFrame
  <2>2. MemoryStream' = MemoryStream /\ OpenData' = OpenData /\ Current' = Current
    BY <1>1, <1>2, <2>1 DEF MemoryStream, OpenData, Current
  <2>3. PICK r2 : r2 = r \cup {n}
    OBVIOUS
  <2>4. TakesNone(g, g2, r, r2)
    BY <1>10, <1>11, <2>3, NoMoreTaken
  <2>5. Taken(g2, r2) = Taken(g, r)
    BY <2>4 DEF TakesNone
  <2>6. StreamInv'
    <3> SUFFICES ASSUME ~wasted'
                 PROVE  /\ StreamsGood(given', refused', files', OpenData', MemoryStream')
                        /\ writer'.memory => PacketsOf(writer'.data) \subseteq PacketsOf(MemoryStream')
      BY DEF StreamInv
    <3>1. StreamsGood(g, r, files, OpenData, MemoryStream)
      BY <1>1, <1>16
    <3>2. StreamsGood(g2, r2, files, OpenData, MemoryStream)
      BY <1>13, <2>5, <3>1, KeptStreams
    <3>3. StreamsGood(given', refused', files', OpenData', MemoryStream')
      BY <1>1, <1>2, <2>1, <2>2, <2>3, <3>2
    <3> QED
      BY <1>1, <1>19, <2>1, <2>2, <3>3
  <2>7. SegmentInv'
    <3>1. t.headerOut /\ ~wasted => Ends(g2, Current, t, started)
      BY <1>13, <1>15, EndsMore
    <3> QED
      BY <1>1, <1>2, <1>14, <2>1, <2>2, <3>1 DEF SegmentInv
  <2>8. FitInv'
    <3>1. ASSUME ~changedOpen', ~wasted' PROVE Playable(Fitting(given'), Any, MemoryStream')
      <4>1. Playable(Fitting(g), Any, MemoryStream)
        BY <1>1, <1>17, <3>1
      <4>2. Playable(Fitting(g2), Any, MemoryStream)
        BY <1>13, <4>1, MoreGood
      <4> QED
        BY <1>2, <2>2, <4>2
    <3> QED
      BY <1>1, <1>18, <2>1, <3>1 DEF FitInv
  <2> QED
    BY <2>6, <2>7, <2>8 DEF PlayInv
<1>21. CASE Accepts(t, w, p)
  <2>1. /\ segment' = SegmentWith(t, w, p) /\ UNCHANGED refused
        /\ writer'.data = w.data \o Elements(t, p, n)
    BY <1>3, <1>4, <1>6, <1>7, <1>21, AddFrameTyped
  <2>2. PICK e, d, f, t2, w2 :
          /\ e = Elements(t, p, n) /\ d = Current /\ f = d \o e
          /\ t2 = segment' /\ w2 = writer'
    OBVIOUS
  <2>3. e \in Seq(ElementsOf) /\ w.data \in Seq(ElementsOf)
    BY <1>4, <1>6, <1>7, <2>2, EmptySeq, ElementsAdded, DataOf
  <2>4. w.opened /\ p.ts >= t.lastTs
    BY <1>21 DEF Accepts
  <2>5. x.segment = started'
    <3>1. writer'.opened
      BY <1>8, <2>4
    <3> QED
      BY <1>2, <1>4, <1>9, <3>1, GivenTyped DEF TypeInv
  <2>6. TakesOne(g, g2, r, n)
    <3>1. x.segment # 0
      BY <1>1, <1>4, <1>14, <2>5
    <3> QED
      BY <1>10, <1>11, <3>1, OneMoreTaken
  <2>7. Taken(g2, r) = Taken(g, r) \cup {n}
    BY <2>6 DEF TakesOne
  <2>8. Grown(e)
    <3>1. writer'.memory = writer.memory /\ writer'.data = writer.data \o e
      BY <1>2, <1>8, <2>1, <2>2
    <3> QED
      BY <1>1, <1>5, <1>8, <2>3, <3>1, StreamsGrow
  <2>9. Current' = f
    BY <2>2, <2>8 DEF Grown
  <2>10. d \in Seq(ElementsOf)
    BY <2>2, <2>8 DEF Grown
  <2>11. ASSUME ~wasted PROVE Adds(g, g2, t, p, d, f, t2, n, started')
    <3>1. /\ t.headerOut => Ends(g, d, t, started')
          /\ ~t.headerOut => t.clusters = 0
          /\ t.headerOut => t.timecode <= t.lastTs \div t.scale
      BY <1>1, <1>14, <1>15, <2>2, <2>11
    <3>2. t2 = SegmentWith(t, w, p) /\ f = d \o Elements(t, p, n)
      BY <2>1, <2>2
    <3>3. p = x.packet /\ x.segment = started' /\ x \in Entries
      BY <1>11, <2>5
    <3> QED
      BY <1>4, <1>6, <1>7, <1>10, <2>4, <2>10, <3>1, <3>2, <3>3, AddPlays
  <2>12. SegmentAfter(t, p, t2) /\ t2.headerOut
    BY <1>6, <1>7, <2>1, <2>2, SegmentWithTyped
  <2>13. t2.w = t.w /\ t2.h = t.h
    BY <2>12 DEF SegmentAfter
  <2>14. PacketsOf(w2.data) = PacketsOf(w.data) \cup PacketsOf(e)
    BY <2>1, <2>2, <2>3, ConcatPackets
  <2>15. PacketsOf(f) = PacketsOf(d) \cup PacketsOf(e)
    BY <2>2, <2>3, <2>10, ConcatPackets
  <2>16. w2 \in Writers /\ w2.data = w.data \o e
    BY <1>8, <2>1, <2>2
  <2>17. SegmentInv'
    <3>1. ~wasted => Ends(g2, f, t2, started') /\ t2.timecode <= t2.lastTs \div t2.scale
      BY <2>11 DEF Adds
    <3> QED
      BY <1>1, <1>2, <1>14, <2>2, <2>9, <2>12, <3>1 DEF SegmentInv
  <2>18. CASE w.memory
    <3>5. d = MemoryStream
      BY <1>2, <2>2, <2>8, <2>18 DEF Grown
    <3>6. MemoryStream' = f /\ OpenData' = OpenData
      BY <1>2, <2>8, <2>9, <2>18 DEF Grown
    <3>8. StreamInv'
      <4> SUFFICES ASSUME ~wasted'
                   PROVE  /\ StreamsGood(given', refused', files', OpenData', MemoryStream')
                          /\ PacketsOf(writer'.data) \subseteq PacketsOf(MemoryStream')
        BY DEF StreamInv
      <4>1. StreamsGood(g, r, files, OpenData, d)
        BY <1>1, <1>16, <3>5
      <4>2. Good(g, d)
        BY <4>1 DEF StreamsGood
      <4>3. Good(g2, f) /\ PacketsOf(f) = PacketsOf(d) \cup {n}
        BY <1>1, <2>11, <4>2 DEF Adds
      <4>4. StreamsGood(g2, r, files, OpenData, f)
        BY <1>13, <2>7, <4>1, <4>3, AddedStreams
      <4>5. PacketsOf(w2.data) \subseteq PacketsOf(f)
        BY <1>1, <1>19, <2>14, <2>15, <2>18, <3>5
      <4> QED
        BY <1>1, <1>2, <2>1, <2>2, <3>6, <4>4, <4>5
    <3>9. FitInv'
      <4> SUFFICES ASSUME ~changedOpen'
                   PROVE  /\ segment'.w = width' /\ segment'.h = height' /\ settings'.writeToMemory
                          /\ ~wasted' => Playable(Fitting(given'), Any, MemoryStream')
        BY DEF FitInv
      <4>1. t.w = width /\ t.h = height /\ settings.writeToMemory
        BY <1>1, <1>18, <2>18
      <4>2. p.w = width /\ p.h = height
        BY <1>1, <4>1 DEF Resizes
      <4>3. ASSUME ~wasted' PROVE Playable(Fitting(given'), Any, MemoryStream')
        <5>1. Playable(Fitting(g), Any, d)
          BY <1>1, <1>17, <3>5, <4>3
        <5>2. Playable(Fitting(g2), Any, f)
          BY <1>1, <2>11, <4>1, <4>2, <4>3, <5>1 DEF Adds
        <5> QED
          BY <1>2, <3>6, <5>2
      <4> QED
        BY <1>1, <2>2, <2>13, <4>1, <4>3
    <3> QED
      BY <2>17, <3>8, <3>9 DEF PlayInv
  <2>19. CASE ~w.memory
    <3>2. ~w2.memory
      BY <1>8, <2>2, <2>19
    <3>4. d = OpenData
      BY <1>2, <2>2, <2>8, <2>19 DEF Grown
    <3>5. MemoryStream' = MemoryStream /\ OpenData' = f
      BY <1>2, <2>8, <2>9, <2>19 DEF Grown
    <3>7. StreamInv'
      <4> SUFFICES ASSUME ~wasted'
                   PROVE  StreamsGood(given', refused', files', OpenData', MemoryStream')
        BY <2>2, <3>2 DEF StreamInv
      <4>1. StreamsGood(g, r, files, d, MemoryStream)
        BY <1>1, <1>16, <3>4
      <4>2. Good(g, d)
        BY <4>1 DEF StreamsGood
      <4>3. Good(g2, f) /\ PacketsOf(f) = PacketsOf(d) \cup {n}
        BY <1>1, <2>11, <4>2 DEF Adds
      <4>4. StreamsGood(g2, r, files, f, MemoryStream)
        BY <1>13, <2>7, <4>1, <4>3, AddedStreams
      <4> QED
        BY <1>1, <1>2, <2>1, <3>5, <4>4
    <3>8. FitInv'
      <4> SUFFICES ASSUME ~changedOpen', ~wasted'
                   PROVE  Playable(Fitting(given'), Any, MemoryStream')
        BY <2>2, <3>2 DEF FitInv
      <4>1. Playable(Fitting(g), Any, MemoryStream)
        BY <1>1, <1>17
      <4>2. Playable(Fitting(g2), Any, MemoryStream)
        BY <1>13, <4>1, MoreGood
      <4> QED
        BY <1>2, <3>5, <4>2
    <3> QED
      BY <2>17, <3>7, <3>8 DEF PlayInv
  <2> QED
    BY <2>18, <2>19
<1> QED
  BY <1>20, <1>21

LEMMA InitPlays == MuxerInit => PlayInv
<1> SUFFICES ASSUME MuxerInit PROVE PlayInv
  OBVIOUS
<1>1. /\ segment = None /\ writer = None /\ files = <<>> /\ fetched = <<>>
      /\ given = <<>> /\ refused = {}
  BY DEF MuxerInit
<1>2. OpenData = <<>> /\ MemoryStream = <<>>
  <2>1. FileOf(writer) = <<>> /\ WaitingIn(writer, readTo) = <<>>
    BY <1>1 DEF FileOf, WaitingIn
  <2> QED
    BY <1>1, <2>1, EmptySeq, ConcatEmptySeq DEF OpenData, MemoryStream, StreamOf
<1>3. Range(files) = {} /\ DOMAIN given = {}
  <2>1. DOMAIN <<>> = {}
    OBVIOUS
  <2> QED
    BY <1>1, <2>1 DEF Range
<1>4. StreamsGood(given, refused, files, <<>>, <<>>)
  <2>1. Good(given, <<>>) /\ PacketsOf(<<>>) = {}
    BY EmptyGood, EmptyPlays
  <2>2. Taken(given, refused) = {}
    BY <1>3 DEF Taken
  <2> QED
    BY <1>3, <2>1, <2>2 DEF StreamsGood
<1>5. Playable(Fitting(given), Any, <<>>)
  BY EmptyPlays
<1> QED
  BY <1>1, <1>2, <1>4, <1>5 DEF PlayInv, StreamInv, SegmentInv, FitInv

LEMMA StepPlays ==
  TypeInv /\ TypeInv' /\ PlayInv /\ [MuxerNext]_muxerVars => PlayInv'
<1> SUFFICES ASSUME TypeInv, TypeInv', PlayInv, [MuxerNext]_muxerVars PROVE PlayInv'
  OBVIOUS
<1>1. ASSUME NEW p \in Packets, WriteWebmBlock(p) PROVE PlayInv'
  <2>1. CASE WriteBlockInNewSegment(p)
    BY <1>1, <2>1, NewSegmentPlays
  <2>2. CASE WriteBlockInSegment(p)
    BY <1>1, <2>2, InSegmentPlays
  <2>3. CASE WriteBlockCrashes(p)
    BY <1>1, <2>3, CrashPlays
  <2> QED
    BY <1>1, <2>1, <2>2, <2>3 DEF WriteWebmBlock
<1>2. CASE WriteFileHeader
  BY <1>2, HeaderPlays
<1>3. CASE WriteFileTrailer \/ Delete
  BY <1>3, TrailerPlays
<1>4. CASE Fetch
  BY <1>4, FetchPlays
<1>5. CASE Flush
  BY <1>5, FlushPlays
<1>6. CASE Setter
  BY <1>6, SetterPlays
<1>7. CASE UNCHANGED muxerVars
  <2>1. /\ UNCHANGED <<given, refused, files, segment, started, writer, wasted, changedOpen>>
        /\ UNCHANGED <<width, height, settings, fetched, readTo>>
    BY <1>7 DEF muxerVars, properties, internals, reader
  <2>2. MemoryStream' = MemoryStream /\ OpenData' = OpenData
    BY <2>1 DEF MemoryStream, OpenData
  <2>3. Current' = Current
    BY <2>1, <2>2 DEF Current
  <2>4. StreamInv'
    BY <2>1, <2>2 DEF PlayInv, StreamInv
  <2>5. SegmentInv'
    BY <2>1, <2>3 DEF PlayInv, SegmentInv
  <2>6. FitInv'
    BY <2>1, <2>2 DEF PlayInv, FitInv
  <2> QED
    BY <2>4, <2>5, <2>6 DEF PlayInv
<1> QED
  BY <1>1, <1>2, <1>3, <1>4, <1>5, <1>6, <1>7 DEF MuxerNext, OtherCall

LEMMA AlwaysPlays == MuxerSpec => [](TypeInv /\ PlayInv)
BY AlwaysTyped, InitPlays, StepPlays, PTL DEF MuxerSpec

(* A recording is a file, the file being written, or the part of the stream in
   memory that was read. *)
LEMMA RecordingsPlay ==
  ASSUME TypeInv, PlayInv, ~wasted
  PROVE  /\ \A s \in Recordings : s \in Seq(ElementsOf) /\ Good(given, s)
         /\ ~changedOpen => Playable(Fitting(given), Any, fetched)
         /\ PacketsOf(fetched) \subseteq PacketsOf(MemoryStream)
<1>1. StreamsGood(given, refused, files, OpenData, MemoryStream)
  BY DEF PlayInv, StreamInv
<1>2. /\ fetched \in Seq(ElementsOf) /\ readTo \in Nat /\ writer \in Writers \cup {None}
      /\ writer # None => readTo <= Len(writer.data)
      /\ files \in Seq(Seq(ElementsOf))
  BY DEF TypeInv, TypeOK, ReadInv
<1>3. /\ MemoryStream \in Seq(ElementsOf) /\ Len(fetched) <= Len(MemoryStream)
      /\ \A k \in 1..Len(fetched) : MemoryStream[k] = fetched[k]
  <2>1. PICK w, r, f : w = writer /\ r = readTo /\ f = fetched
    OBVIOUS
  <2> QED
    BY <1>2, <2>1, StreamTyped DEF MemoryStream
<1>4. /\ \A T, R : Playable(T, R, MemoryStream) => Playable(T, R, fetched)
      /\ Numbered(MemoryStream) => Numbered(fetched)
      /\ PacketsOf(fetched) \subseteq PacketsOf(MemoryStream)
  <2>1. PICK m : m = MemoryStream
    OBVIOUS
  <2> QED
    BY <1>2, <1>3, <2>1, StreamPrefix
<1>5. Good(given, fetched)
  BY <1>1, <1>4 DEF StreamsGood, Good
<1>6. ASSUME NEW s \in Range(files) PROVE s \in Seq(ElementsOf) /\ Good(given, s)
  <2>1. PICK P : P = Seq(ElementsOf)
    OBVIOUS
  <2>2. PICK i \in DOMAIN files : s = files[i]
    BY <1>6 DEF Range
  <2>3. s \in P
    BY <1>2, <2>1, <2>2, ElementOfSeq, LenProperties
  <2> QED
    BY <1>1, <1>6, <2>1, <2>3 DEF StreamsGood
<1>7. ASSUME NEW s \in OpenFile PROVE s \in Seq(ElementsOf) /\ Good(given, s)
  <2>1. writer # None /\ ~writer.memory /\ s = writer.data
    BY <1>7 DEF OpenFile
  <2>2. s = OpenData
    BY <2>1 DEF OpenData, FileOf
  <2> QED
    BY <1>1, <1>2, <2>1, <2>2, DataOf DEF StreamsGood
<1>8. ~changedOpen => Playable(Fitting(given), Any, fetched)
  BY <1>4 DEF PlayInv, FitInv
<1> QED
  BY <1>2, <1>4, <1>5, <1>6, <1>7, <1>8 DEF Recordings

LEMMA RestPackets ==
  ASSUME NEW d \in Seq(ElementsOf), NEW r \in Nat, r <= Len(d),
         NEW s, s = SubSeq(d, r + 1, Len(d))
  PROVE  PacketsOf(s) \subseteq PacketsOf(d)
<1>1. /\ s \in Seq(ElementsOf) /\ Len(s) = Len(d) - r /\ Len(d) \in Nat
      /\ \A i \in 1..(Len(d) - r) : s[i] = d[r + i]
  BY Rest
<1>2. ASSUME NEW i \in Blocks(s) PROVE \E j \in Blocks(d) : d[j] = s[i]
  <2>1. i \in 1..(Len(d) - r) /\ s[i].kind = "block"
    BY <1>1, <1>2, BlocksAre
  <2>2. r + i \in 1..Len(d) /\ s[i] = d[r + i]
    BY <1>1, <2>1
  <2>3. r + i \in Blocks(d)
    BY <2>1, <2>2, BlocksAre
  <2> QED
    BY <2>2, <2>3
<1>3. PICK B, C : B = Blocks(s) /\ C = Blocks(d)
  OBVIOUS
<1>4. \A i \in B : \E j \in C : d[j].packet = s[i].packet
  BY <1>2, <1>3
<1>5. {s[i].packet : i \in B} \subseteq {d[j].packet : j \in C}
  BY <1>4
<1> QED
  BY <1>3, <1>5 DEF PacketsOf

LEMMA StreamPackets ==
  ASSUME NEW w \in Writers \cup {None}, NEW r \in Nat, w # None => r <= Len(w.data),
         NEW f \in Seq(ElementsOf)
  PROVE  /\ PacketsOf(StreamOf(w, r, f)) = PacketsOf(f) \cup PacketsOf(WaitingIn(w, r))
         /\ w # None => PacketsOf(WaitingIn(w, r)) \subseteq PacketsOf(w.data)
         /\ w = None => PacketsOf(WaitingIn(w, r)) = {}
<1>1. WaitingIn(w, r) \in Seq(ElementsOf)
  BY StreamTyped
<1>2. PacketsOf(f \o WaitingIn(w, r)) = PacketsOf(f) \cup PacketsOf(WaitingIn(w, r))
  <2>1. PICK x : x = WaitingIn(w, r)
    OBVIOUS
  <2> QED
    BY <1>1, <2>1, ConcatPackets
<1>3. ASSUME w # None PROVE PacketsOf(WaitingIn(w, r)) \subseteq PacketsOf(w.data)
  <2>1. CASE w.memory
    <3>1. w.data \in Seq(ElementsOf) /\ r <= Len(w.data)
      BY <1>3, DataOf
    <3>2. PICK d, s : d = w.data /\ s = SubSeq(d, r + 1, Len(d))
      OBVIOUS
    <3>3. PacketsOf(s) \subseteq PacketsOf(d)
      BY <3>1, <3>2, RestPackets
    <3>4. WaitingIn(w, r) = s
      BY <1>3, <2>1, <3>2 DEF WaitingIn
    <3> QED
      BY <3>2, <3>3, <3>4
  <2>2. CASE ~w.memory
    <3>1. WaitingIn(w, r) = <<>>
      BY <2>2 DEF WaitingIn
    <3> QED
      BY <3>1, EmptyPlays
  <2> QED
    BY <2>1, <2>2
<1>4. ASSUME w = None PROVE PacketsOf(WaitingIn(w, r)) = {}
  <2>1. WaitingIn(w, r) = <<>>
    BY <1>4 DEF WaitingIn
  <2> QED
    BY <2>1, EmptyPlays
<1> QED
  BY <1>2, <1>3, <1>4 DEF StreamOf

(* What was recorded or waits to be read is what libwebm took. *)
LEMMA RecordedPackets ==
  ASSUME TypeInv, PlayInv, ~wasted
  PROVE  (UNION {PacketsOf(s) : s \in Recordings})
         \cup (IF writer # None THEN PacketsOf(writer.data) ELSE {}) = Taken(given, refused)
<1>1. PICK A, B, o, m, f, W, K :
        /\ A = UNION {PacketsOf(s) : s \in Range(files)}
        /\ B = UNION {PacketsOf(s) : s \in Recordings}
        /\ o = OpenData /\ m = MemoryStream /\ f = fetched
        /\ W = IF writer # None THEN PacketsOf(writer.data) ELSE {}
        /\ K = PacketsOf(WaitingIn(writer, readTo))
  OBVIOUS
<1>2. A \cup PacketsOf(o) \cup PacketsOf(m) = Taken(given, refused)
  BY <1>1 DEF PlayInv, StreamInv, StreamsGood
<1>3. writer # None /\ writer.memory => W \subseteq PacketsOf(m)
  BY <1>1 DEF PlayInv, StreamInv
<1>4. PacketsOf(m) = PacketsOf(f) \cup K /\ K \subseteq W
  <2>1. /\ fetched \in Seq(ElementsOf) /\ readTo \in Nat /\ writer \in Writers \cup {None}
        /\ writer # None => readTo <= Len(writer.data)
    BY DEF TypeInv, TypeOK, ReadInv
  <2>2. PICK w, r : w = writer /\ r = readTo
    OBVIOUS
  <2>3. /\ PacketsOf(StreamOf(w, r, f)) = PacketsOf(f) \cup PacketsOf(WaitingIn(w, r))
        /\ w # None => PacketsOf(WaitingIn(w, r)) \subseteq PacketsOf(w.data)
        /\ w = None => PacketsOf(WaitingIn(w, r)) = {}
    BY <1>1, <2>1, <2>2, StreamPackets
  <2> QED
    BY <1>1, <2>2, <2>3 DEF MemoryStream
<1>5. PICK O : O = UNION {PacketsOf(s) : s \in OpenFile}
  OBVIOUS
<1>6. O = PacketsOf(o)
  <2>1. CASE writer # None /\ ~writer.memory
    <3>1. OpenFile = {o}
      BY <1>1, <2>1 DEF OpenFile, OpenData, FileOf
    <3> QED
      BY <1>5, <3>1
  <2>2. CASE ~(writer # None /\ ~writer.memory)
    <3>1. OpenFile = {} /\ o = <<>>
      BY <1>1, <2>2 DEF OpenFile, OpenData, FileOf
    <3>2. PacketsOf(o) = {}
      BY <3>1, EmptyPlays
    <3> QED
      BY <1>5, <3>1, <3>2
  <2> QED
    BY <2>1, <2>2
<1>7. B = A \cup O \cup PacketsOf(f)
  <2>1. ASSUME NEW z PROVE z \in B <=> z \in A \cup O \cup PacketsOf(f)
    <3>1. z \in B <=> \E s \in Recordings : z \in PacketsOf(s)
      BY <1>1
    <3>2. z \in A <=> \E s \in Range(files) : z \in PacketsOf(s)
      BY <1>1
    <3>3. z \in O <=> \E s \in OpenFile : z \in PacketsOf(s)
      BY <1>5
    <3>4. (\E s \in Recordings : z \in PacketsOf(s))
            <=> \/ \E s \in Range(files) : z \in PacketsOf(s)
                \/ \E s \in OpenFile : z \in PacketsOf(s)
                \/ z \in PacketsOf(f)
      BY <1>1 DEF Recordings
    <3> QED
      BY <3>1, <3>2, <3>3, <3>4
  <2> QED
    BY <2>1
<1>8. W \subseteq PacketsOf(o) \cup PacketsOf(m)
  <2>1. CASE writer # None /\ ~writer.memory
    <3>1. o = writer.data
      BY <1>1, <2>1 DEF OpenData, FileOf
    <3> QED
      BY <1>1, <2>1, <3>1
  <2>2. CASE ~(writer # None /\ ~writer.memory)
    BY <1>1, <1>3, <2>2
  <2> QED
    BY <2>1, <2>2
<1>9. B \cup W = Taken(given, refused)
  BY <1>2, <1>4, <1>6, <1>7, <1>8
<1> QED
  BY <1>1, <1>9

(* As long as the application reads the buffer before each call that discards
   it, the recordings hold every packet that libwebm took, once and in order,
   or it waits to be read; whatever the changes of size and of target
   (vtkWEBMMuxer::WriteWebmBlock, WriteFileHeader, WriteFileTrailer, Flush). *)
THEOREM ReadInTimeIsKept == MuxerSpec => []NothingReadLateIsLost
<1>1. TypeInv /\ PlayInv => NothingReadLateIsLost
  <2> SUFFICES ASSUME TypeInv, PlayInv, ~wasted
               PROVE  NothingReadLateIsLost
    BY DEF NothingReadLateIsLost
  <2>1. \A s \in Recordings : Numbered(s)
    BY RecordingsPlay DEF Good
  <2> QED
    BY <2>1, RecordedPackets DEF NothingReadLateIsLost, Numbered, Taken
<1> QED
  BY <1>1, AlwaysPlays, PTL

(* A packet read back from memory is in a segment with a header of its own size,
   as long as nobody changes size or target of an open segment
   (vtkWEBMMuxer::WriteWebmBlock). *)
THEOREM MemoryFitsTheTrack == MuxerSpec => []BlocksFitTheirTrack
<1>1. TypeInv /\ PlayInv => BlocksFitTheirTrack
  <2> SUFFICES ASSUME TypeInv, PlayInv, ~wasted, ~changedOpen, NEW i \in Blocks(fetched)
               PROVE  LET header == fetched[Last(fetched, "header", i)]
                          p == given[fetched[i].packet].packet
                      IN header.w = p.w /\ header.h = p.h
    BY DEF BlocksFitTheirTrack
  <2>1. PICK f, g : f = fetched /\ g = given
    OBVIOUS
  <2>2. f \in Seq(ElementsOf) /\ Playable(Fitting(g), Any, f)
    BY <2>1, RecordingsPlay DEF TypeInv, TypeOK
  <2>3. i \in Nat
    BY <2>1, <2>2, BlocksAre
  <2>4. PICK h \in 1..i, c \in 1..i :
          IsLast(f, "header", i, h) /\ <<f[h], f[c], f[i]>> \in Fitting(g)
    BY <2>1, <2>2 DEF Playable, PlaysAt
  <2>5. f[h].w = g[f[i].packet].packet.w /\ f[h].h = g[f[i].packet].packet.h
    BY <2>4 DEF Fitting
  <2>6. Last(f, "header", i) = h
    BY <2>3, <2>4, LastUnique
  <2> QED
    BY <2>1, <2>5, <2>6
<1> QED
  BY <1>1, AlwaysPlays, PTL

(* Every block of a recording is in a cluster of the segment it was given to,
   near enough to its start to be written, is played at the time of its packet,
   and not before a block that precedes it in the segment; whatever the scale,
   the setters and the order of calls (vtkWEBMMuxer::WriteWebmBlock; libwebm:
   Segment::AddGenericFrame, TestFrame). *)
THEOREM PlayedAtTheirTime == MuxerSpec => []BlocksKeepTheirTime
<1>1. TypeInv /\ PlayInv => BlocksKeepTheirTime
  <2> SUFFICES ASSUME TypeInv, PlayInv, ~wasted, NEW s \in Recordings, NEW i \in Blocks(s)
               PROVE  LET header == Last(s, "header", i)
                          cluster == Last(s, "cluster", i)
                          ts == given[s[i].packet].packet.ts
                      IN /\ header < cluster
                         /\ s[header].segment = given[s[i].packet].segment
                         /\ s[i].timecode \in 0..MaxBlockTimecode
                         /\ s[cluster].timecode + s[i].timecode = ts \div s[header].scale
                         /\ \A j \in Blocks(s) \cap (header..i) :
                              given[s[j].packet].packet.ts <= ts
    BY DEF BlocksKeepTheirTime
  <2>1. PICK g : g = given
    OBVIOUS
  <2>2. s \in Seq(ElementsOf) /\ Playable(Timed(g), NotEarlier(g), s)
    BY <2>1, RecordingsPlay DEF Good
  <2>3. i \in Nat
    BY <2>2, BlocksAre
  <2>4. PICK h \in 1..i, c \in 1..i :
          /\ IsLast(s, "header", i, h) /\ IsLast(s, "cluster", i, c) /\ h < c
          /\ <<s[h], s[c], s[i]>> \in Timed(g)
          /\ \A j \in Blocks(s) \cap (h..i) : <<s[j], s[i]>> \in NotEarlier(g)
    BY <2>2 DEF Playable, PlaysAt
  <2>5. /\ s[h].segment = g[s[i].packet].segment
        /\ s[i].timecode \in 0..MaxBlockTimecode
        /\ s[c].timecode + s[i].timecode = g[s[i].packet].packet.ts \div s[h].scale
    BY <2>4 DEF Timed
  <2>6. \A j \in Blocks(s) \cap (h..i) : g[s[j].packet].packet.ts <= g[s[i].packet].packet.ts
    BY <2>4 DEF NotEarlier
  <2>7. Last(s, "header", i) = h
    BY <2>3, <2>4, LastUnique
  <2>8. Last(s, "cluster", i) = c
    BY <2>3, <2>4, LastUnique
  <2> QED
    BY <2>1, <2>4, <2>5, <2>6, <2>7, <2>8
<1> QED
  BY <1>1, AlwaysPlays, PTL
-----------------------------------------------------------------------------
(* What libwebm refuses of the packets of an encoder. *)

(* The last packet given is the last of the encoder, and no context comes back
   or counts back. *)
Before(p, q) == p.context <= q.context /\ (p.context = q.context => p.ts < q.ts)

GivenInv ==
  /\ last.context = 0 => given = <<>>
  /\ given # <<>> => given[Len(given)].packet = last
  /\ \A m, n \in DOMAIN given : m < n => Before(given[m].packet, given[n].packet)

(* The last timestamp of the segment is that of a packet in it. *)
TakenAt(g, e, n, m) == g[m].segment = n /\ g[m].packet.ts = e.lastTs

SizedAt(g, e, m) == g[m].packet.w = e.w /\ g[m].packet.h = e.h

TakenInv ==
  segment # None =>
    /\ ~segment.headerOut => segment.lastTs = 0
    /\ segment.headerOut =>
         \E m \in DOMAIN given :
           /\ TakenAt(given, segment, started, m)
           /\ writer.memory /\ ~changedOpen => SizedAt(given, segment, m)

RecordInv == GivenInv /\ TakenInv /\ RefusedOnlyAfterRestart

(* One packet more is given. *)
Gives(g, g2, x, n) ==
  /\ g \in Seq(Entries) /\ g2 = Append(g, x) /\ n = Len(g) + 1 /\ n \in Nat
  /\ x \in Entries /\ x.packet = last'
  /\ OneMoreEntry(g, g2, n, x)
  /\ DOMAIN g = 1..Len(g) /\ DOMAIN g2 = 1..n /\ Len(g) \in Nat

LEMMA RecordGives ==
  ASSUME TypeInv, TypeInv', LastTyped, Record,
         NEW g, NEW g2, NEW x, NEW n,
         g = given, g2 = given', x = Given(last'), n = Len(given) + 1
  PROVE  Gives(g, g2, x, n)
<1>1. last' \in Packets /\ WriteWebmBlock(last')
  BY LastGiven
<1>2. given' = Append(given, Given(last'))
  BY <1>1 DEF WriteWebmBlock
<1>3. given \in Seq(Entries) /\ started' \in Nat
  BY DEF TypeInv, TypeOK, Entries
<1>4. x \in Entries /\ x.packet = last'
  BY <1>1, <1>3, GivenTyped DEF TypeInv
<1>5. g \in Seq(Entries) /\ g2 = Append(g, x) /\ n = Len(g) + 1
  BY <1>2, <1>3
<1>6. OneMoreEntry(g, g2, n, x)
  BY <1>4, <1>5, OneMoreGiven
<1>7. DOMAIN g = 1..Len(g) /\ DOMAIN g2 = 1..(Len(g) + 1) /\ Len(g) \in Nat
  BY <1>4, <1>5, AppendParts
<1> QED
  BY <1>4, <1>5, <1>6, <1>7 DEF Gives

LEMMA ContextTyped ==
  ASSUME NEW g \in Seq(Entries), NEW n \in DOMAIN g
  PROVE  g[n].packet.context \in Nat /\ g[n].packet.ts \in Nat
<1>1. g[n].packet \in Packets /\ g[n].packet.ts \in Nat
  BY EntryParts
<1> QED
  BY <1>1 DEF Packets

LEMMA RecordOrders ==
  ASSUME TypeInv, TypeInv', LastTyped, LastTyped', GivenInv, Record
  PROVE  GivenInv' /\ \A m \in DOMAIN given : Before(given[m].packet, last')
<1>1. PICK g, g2, x, n : g = given /\ g2 = given' /\ x = Given(last') /\ n = Len(given) + 1
  OBVIOUS
<1>2. Gives(g, g2, x, n)
  BY <1>1, RecordGives
<1>3. /\ g \in Seq(Entries) /\ n = Len(g) + 1 /\ Len(g) \in Nat
      /\ x.packet = last' /\ DOMAIN g = 1..Len(g) /\ DOMAIN g2 = 1..n
      /\ g2[n] = x /\ n \notin DOMAIN g /\ n \in DOMAIN g2
      /\ \A i \in DOMAIN g : i \in DOMAIN g2 /\ g2[i] = g[i]
      /\ \A i \in DOMAIN g2 : i \in DOMAIN g \/ i = n
  BY <1>2 DEF Gives, OneMoreEntry, Extends
<1>4. /\ last'.context > 0
      /\ \/ /\ last.context > 0 /\ last'.context = last.context
            /\ last'.ts > last.ts
         \/ last'.context = last.context + 1
  BY LastGiven
<1>5. last.context \in Nat /\ last.ts \in Nat /\ last'.context \in Nat /\ last'.ts \in Nat
  BY DEF LastTyped
<1>6. ASSUME NEW m \in DOMAIN g PROVE Before(g[m].packet, last')
  <2>1. PICK k : k = Len(g)
    OBVIOUS
  <2>2. m \in 1..k /\ k \in 1..k /\ k \in DOMAIN g /\ k \in Nat
    BY <1>3, <1>6, <2>1
  <2>3. g # <<>>
    BY <1>3, <2>1, <2>2, EmptySeq
  <2>4. g[k].packet = last
    BY <1>1, <2>1, <2>3 DEF GivenInv
  <2>5. g[m].packet.context \in Nat /\ g[m].packet.ts \in Nat
    BY <1>3, ContextTyped
  <2>6. m = k \/ Before(g[m].packet, last)
    <3>1. m = k \/ m < k
      BY <2>2
    <3> QED
      BY <1>1, <2>2, <2>4, <3>1 DEF GivenInv
  <2>7. g[m].packet.context <= last.context
        /\ (g[m].packet.context = last.context => g[m].packet.ts <= last.ts)
    <3>1. CASE m = k
      BY <1>5, <2>4, <3>1
    <3>2. CASE Before(g[m].packet, last)
      BY <1>5, <2>5, <3>2 DEF Before
    <3> QED
      BY <2>6, <3>1, <3>2
  <2> QED
    BY <1>4, <1>5, <2>5, <2>7 DEF Before
<1>7. ASSUME NEW i \in DOMAIN g2, NEW j \in DOMAIN g2, i < j
      PROVE  Before(g2[i].packet, g2[j].packet)
  <2>1. i \in DOMAIN g
    BY <1>3, <1>7
  <2>2. CASE j = n
    BY <1>3, <1>6, <2>1, <2>2
  <2>3. CASE j \in DOMAIN g
    BY <1>1, <1>3, <1>7, <2>1, <2>3 DEF GivenInv
  <2> QED
    BY <1>3, <2>2, <2>3
<1>8. g2[Len(g2)].packet = last'
  <2>1. Len(g2) = n
    <3>1. g2 = Append(g, x) /\ x \in Entries
      BY <1>2 DEF Gives
    <3> QED
      BY <1>3, <3>1, AppendParts
  <2> QED
    BY <1>3, <2>1
<1>9. last'.context # 0
  BY <1>4, <1>5
<1> QED
  BY <1>1, <1>6, <1>7, <1>8, <1>9 DEF GivenInv

LEMMA OtherTaken ==
  ASSUME TypeInv, TypeInv', TakenInv, OtherCall
  PROVE  TakenInv' /\ UNCHANGED <<given, refused>> /\ (changedOpen => changedOpen')
<1>1. CASE WriteFileHeader
  <2>1. segment' = NewSegment(width, height) /\ UNCHANGED <<given, refused, changedOpen>>
    BY <1>1 DEF WriteFileHeader, LetGo
  <2>2. ~segment'.headerOut /\ segment'.lastTs = 0
    BY <2>1 DEF NewSegment
  <2> QED
    BY <2>1, <2>2 DEF TakenInv
<1>2. CASE WriteFileTrailer \/ Delete
  BY <1>2 DEF WriteFileTrailer, Delete, Close, LetGo, TakenInv
<1>3. CASE Fetch \/ Setter
  <2>1. UNCHANGED <<segment, writer, started, given, refused>> /\ (changedOpen => changedOpen')
    <3>1. CASE Fetch
      BY <3>1 DEF Fetch, internals
    <3>2. CASE Setter
      <4>1. /\ UNCHANGED <<segment, writer, started, given, refused>>
            /\ changedOpen' = (changedOpen \/ (isHeaderWritten /\ ~SameTarget))
        BY <3>2 DEF Setter, Set, internals, reader
      <4> QED
        BY <4>1
    <3> QED
      BY <1>3, <3>1, <3>2
  <2> QED
    BY <2>1 DEF TakenInv
<1>4. CASE Flush
  <2>1. /\ UNCHANGED <<segment, started, given, refused, changedOpen>>
        /\ writer # None /\ writer.memory
    BY <1>4 DEF Flush
  <2> QED
    BY <2>1 DEF TakenInv
<1> QED
  BY <1>1, <1>2, <1>3, <1>4 DEF OtherCall

(* A packet that is taken is the last of its segment. *)
LEMMA NewTaken ==
  ASSUME NEW g, NEW g2, NEW x, NEW n, Gives(g, g2, x, n), g2 = given',
         NEW t \in Segments, NEW w \in Writers, Accepts(t, w, last'),
         segment' = SegmentWith(t, w, last'), writer' \in Writers,
         writer'.opened = w.opened, x = Given(last'),
         writer'.memory /\ ~changedOpen' => last'.w = t.w /\ last'.h = t.h,
         last' \in Packets
  PROVE  TakenInv'
<1>1. PICK p, s2 : p = last' /\ s2 = SegmentWith(t, w, last')
  OBVIOUS
<1>2. SegmentAfter(t, p, s2) /\ s2.headerOut
  BY <1>1, SegmentWithTyped
<1>3. s2.w = t.w /\ s2.h = t.h /\ s2.lastTs = p.ts
  BY <1>2 DEF SegmentAfter
<1>4. g2[n] = x /\ n \in DOMAIN g2 /\ x.packet = p
  BY <1>1 DEF Gives, OneMoreEntry
<1>5. x.segment = started'
  <2>1. writer' # None /\ writer'.opened
    BY SegmentIsThere DEF Accepts
  <2> QED
    BY <2>1 DEF Given
<1>6. TakenAt(g2, s2, started', n)
  BY <1>3, <1>4, <1>5 DEF TakenAt
<1>7. writer'.memory /\ ~changedOpen' => SizedAt(g2, s2, n)
  BY <1>1, <1>3, <1>4 DEF SizedAt
<1> QED
  BY <1>1, <1>2, <1>4, <1>6, <1>7 DEF TakenInv

(* Packet n is refused because of packet m. *)
Restarted(g, n, m, sized) ==
  /\ m \in 1..(n - 1)
  /\ g[m].segment = g[n].segment
  /\ g[m].packet.context < g[n].packet.context
  /\ g[m].packet.ts > g[n].packet.ts
  /\ g[n].memory /\ sized =>
       g[m].packet.w = g[n].packet.w /\ g[m].packet.h = g[n].packet.h

LEMMA RestartedSame ==
  RefusedOnlyAfterRestart <=>
    \A n \in refused : given[n].segment # 0 =>
      \E m \in 1..(n - 1) : Restarted(given, n, m, ~changedOpen)
BY DEF RefusedOnlyAfterRestart, Restarted

LEMMA KeptRefused ==
  ASSUME NEW g, NEW g2, NEW x, NEW n, Gives(g, g2, x, n), g = given, g2 = given',
         refused \subseteq DOMAIN given,
         RefusedOnlyAfterRestart, changedOpen => changedOpen',
         \A i \in refused' :
           \/ i \in refused
           \/ g2[i].segment # 0 => \E m \in 1..(i - 1) : Restarted(g2, i, m, ~changedOpen')
  PROVE  RefusedOnlyAfterRestart'
<1>1. ASSUME NEW i \in refused', g2[i].segment # 0
      PROVE  \E m \in 1..(i - 1) : Restarted(g2, i, m, ~changedOpen')
  <2> SUFFICES ASSUME i \in refused
               PROVE  \E m \in 1..(i - 1) : Restarted(g2, i, m, ~changedOpen')
    BY <1>1
  <2>1. i \in DOMAIN g /\ g2[i] = g[i] /\ i \in 1..Len(g) /\ Len(g) \in Nat /\ DOMAIN g = 1..Len(g)
    BY DEF Gives, OneMoreEntry, Extends
  <2>2. PICK m \in 1..(i - 1) : Restarted(g, i, m, ~changedOpen)
    BY <1>1, <2>1, RestartedSame
  <2>3. m \in DOMAIN g
    BY <2>1, <2>2
  <2>4. g2[m] = g[m]
    BY <2>3 DEF Gives, OneMoreEntry, Extends
  <2>5. Restarted(g2, i, m, ~changedOpen')
    BY <2>1, <2>2, <2>4 DEF Restarted
  <2> QED
    BY <2>2, <2>5
<1>2. \A i \in refused' : given'[i].segment # 0 =>
        \E m \in 1..(i - 1) : Restarted(given', i, m, ~changedOpen')
  BY <1>1
<1> QED
  BY <1>2 DEF RefusedOnlyAfterRestart, Restarted

LEMMA NewSegmentTaken ==
  ASSUME TypeInv, TypeInv', LastTyped, Record, WriteBlockInNewSegment(last')
  PROVE  TakenInv' /\ UNCHANGED <<refused, changedOpen>>
<1>1. PICK p : p = last'
  OBVIOUS
<1>2. p \in Packets /\ WriteWebmBlock(p) /\ WriteBlockInNewSegment(p)
  BY <1>1, LastGiven
<1>3. /\ Close /\ started' = started + 1 /\ settings.writeToMemory
  BY <1>2 DEF WriteBlockInNewSegment
<1>4. PICK s, t, w, g, g2, n, x :
        /\ s = NewSegment(p.w, p.h) /\ t = Forced(s) /\ w = NewWriter(TRUE)
        /\ n = Len(given) + 1 /\ x = Given(p) /\ g = given /\ g2 = given'
  OBVIOUS
<1>5. AddFrame(t, w, p, n)
  BY <1>2, <1>4 DEF WriteBlockInNewSegment
<1>6. /\ settings \in Settings /\ p.w \in Nat /\ p.h \in Nat /\ p.ts \in Nat /\ started' \in Nat
  BY <1>2, <1>3, PacketParts DEF TypeInv, TypeOK
<1>7. s \in Segments /\ s.w = p.w /\ s.h = p.h /\ s.lastTs = 0
  BY <1>4, <1>6, NewSegmentTyped
<1>8. t \in Segments /\ t.w = p.w /\ t.h = p.h /\ t.lastTs = 0
  BY <1>4, <1>7, ForcedTyped
<1>9. w \in Writers /\ w.opened = TRUE
  BY <1>4, <1>6, NewWriterTyped
<1>10. Gives(g, g2, x, n)
  BY <1>1, <1>4, RecordGives
<1>11. n \in Nat
  BY <1>10 DEF Gives
<1>12. Accepts(t, w, p)
  BY <1>6, <1>8, <1>9 DEF Accepts
<1>13. /\ segment' = SegmentWith(t, w, p) /\ UNCHANGED refused
       /\ writer' \in Writers /\ writer'.opened = w.opened
  BY <1>2, <1>5, <1>6, <1>8, <1>9, <1>11, <1>12, AddFrameTyped
<1>14. TakenInv'
  BY <1>1, <1>2, <1>4, <1>8, <1>9, <1>10, <1>12, <1>13, NewTaken
<1> QED
  BY <1>3, <1>13, <1>14 DEF Close, LetGo

LEMMA InSegmentTaken ==
  ASSUME TypeInv, TypeInv', LastTyped, PlayInv, TakenInv, Record, WriteBlockInSegment(last'),
         \A m \in DOMAIN given : Before(given[m].packet, last'),
         NEW g, NEW g2, NEW x, NEW n,
         g = given, g2 = given', x = Given(last'), n = Len(given) + 1
  PROVE  /\ TakenInv' /\ UNCHANGED changedOpen
         /\ \A i \in refused' :
              \/ i \in refused
              \/ g2[i].segment # 0 => \E m \in 1..(i - 1) : Restarted(g2, i, m, ~changedOpen')
<1>1. PICK p : p = last'
  OBVIOUS
<1>2. p \in Packets /\ WriteWebmBlock(p) /\ WriteBlockInSegment(p)
  BY <1>1, LastGiven
<1>3. /\ object = "alive" /\ segment # None
      /\ ~(Resizes(p) /\ settings.writeToMemory)
      /\ UNCHANGED <<width, height, settings, started, changedOpen>>
  BY <1>2 DEF WriteWebmBlock, WriteBlockInSegment, properties
<1>4. PICK t, w : t = Forced(segment) /\ w = writer
  OBVIOUS
<1>5. Gives(g, g2, x, n)
  BY RecordGives
<1>6. AddFrame(t, w, p, n)
  BY <1>2, <1>4 DEF WriteBlockInSegment
<1>7. segment \in Segments /\ w \in Writers /\ started' \in Nat /\ n \in Nat
  BY <1>3, <1>4, <1>5 DEF TypeInv, TypeOK, Gives
<1>8. /\ t \in Segments /\ t.w = segment.w /\ t.h = segment.h
      /\ t.headerOut = segment.headerOut /\ t.lastTs = segment.lastTs
  BY <1>4, <1>7, ForcedTyped
<1>9. writer' \in Writers /\ writer'.memory = w.memory /\ writer'.opened = w.opened
  BY <1>2, <1>6, <1>7, <1>8, AddFrameTyped
<1>10. w.memory /\ ~changedOpen => p.w = t.w /\ p.h = t.h
  <2>1. ASSUME w.memory, ~changedOpen PROVE p.w = t.w /\ p.h = t.h
    <3>1. segment.w = width /\ segment.h = height /\ settings.writeToMemory
      BY <1>3, <1>4, <2>1 DEF PlayInv, FitInv
    <3>2. p.w = width /\ p.h = height
      BY <1>3, <3>1 DEF Resizes
    <3> QED
      BY <1>8, <3>1, <3>2
  <2> QED
    BY <2>1
<1>11. CASE Accepts(t, w, p)
  <2>1. segment' = SegmentWith(t, w, p) /\ refused' = refused
    BY <1>6, <1>11 DEF AddFrame
  <2>2. writer'.memory /\ ~changedOpen' => last'.w = t.w /\ last'.h = t.h
    BY <1>1, <1>3, <1>9, <1>10
  <2>3. TakenInv'
    BY <1>1, <1>2, <1>5, <1>7, <1>8, <1>9, <1>11, <2>1, <2>2, NewTaken
  <2> QED
    BY <1>3, <2>1, <2>3
<1>12. CASE ~Accepts(t, w, p)
  <2>1. segment' = t /\ writer' = w /\ refused' = refused \cup {n}
    BY <1>6, <1>12 DEF AddFrame
  <2>2. /\ \A m \in DOMAIN g : m \in DOMAIN g2 /\ g2[m] = g[m] /\ m \in 1..(n - 1)
        /\ g2[n] = x /\ x.packet = p
    BY <1>1, <1>5 DEF Gives, OneMoreEntry, Extends
  <2>3. /\ ~t.headerOut => t.lastTs = 0
        /\ t.headerOut =>
             \E m \in DOMAIN g :
               /\ TakenAt(g, t, started, m)
               /\ w.memory /\ ~changedOpen => SizedAt(g, t, m)
    BY <1>3, <1>4, <1>8 DEF TakenInv, TakenAt, SizedAt
  <2>4. \A m \in DOMAIN g :
          /\ TakenAt(g, t, started, m) => TakenAt(g2, t, started, m)
          /\ SizedAt(g, t, m) => SizedAt(g2, t, m)
    BY <2>2 DEF TakenAt, SizedAt
  <2>5. TakenInv'
    BY <1>3, <2>1, <2>2, <2>3, <2>4 DEF TakenInv
  <2>6. ASSUME x.segment # 0
        PROVE  \E m \in 1..(n - 1) : Restarted(g2, n, m, ~changedOpen')
    <3>1. x.segment = started /\ writer'.opened
      BY <1>3, <2>6 DEF Given
    <3>2. x.memory => w.memory
      BY <2>1 DEF Given
    <3>3. p.ts < t.lastTs /\ p.ts \in Nat /\ t.lastTs \in Nat
      <4>1. p.ts \in Nat /\ t.lastTs \in Nat
        BY <1>2, <1>8, PacketParts, SegmentParts
      <4>2. w.opened
        BY <1>9, <3>1
      <4>3. ~(p.ts >= t.lastTs)
        BY <1>12, <4>2 DEF Accepts
      <4> QED
        BY <4>1, <4>3
    <3>4. t.headerOut
      BY <2>3, <3>3
    <3>5. PICK m \in DOMAIN g : TakenAt(g, t, started, m)
                                /\ (w.memory /\ ~changedOpen => SizedAt(g, t, m))
      BY <2>3, <3>4
    <3>6. Before(g[m].packet, p)
      BY <1>1
    <3>7. g[m].segment = started /\ g[m].packet.ts = t.lastTs
      BY <3>5 DEF TakenAt
    <3>8. g[m].packet.context \in Nat /\ p.context \in Nat
      <4>1. g \in Seq(Entries)
        BY <1>5 DEF Gives
      <4> QED
        BY <1>2, <4>1, ContextTyped DEF Packets
    <3>9. g[m].packet.context < p.context
      BY <3>3, <3>6, <3>7, <3>8 DEF Before
    <3>10. w.memory /\ ~changedOpen => g[m].packet.w = p.w /\ g[m].packet.h = p.h
      BY <1>10, <3>5 DEF SizedAt
    <3>11. g2[m] = g[m] /\ m \in 1..(n - 1)
      BY <2>2
    <3>12. g2[n].memory /\ ~changedOpen' => g2[m].packet.w = g2[n].packet.w
                                            /\ g2[m].packet.h = g2[n].packet.h
      BY <1>3, <2>2, <3>2, <3>10, <3>11
    <3>13. Restarted(g2, n, m, ~changedOpen')
      BY <2>2, <3>1, <3>3, <3>7, <3>9, <3>11, <3>12 DEF Restarted
    <3> QED
      BY <3>11, <3>13
  <2> QED
    BY <1>3, <2>1, <2>2, <2>5, <2>6
<1> QED
  BY <1>11, <1>12

LEMMA StepRecord ==
  TypeInv /\ TypeInv' /\ LastTyped /\ LastTyped' /\ PlayInv /\ RecordInv /\ [Next]_vars
    => RecordInv'
<1> SUFFICES ASSUME TypeInv, TypeInv', LastTyped, LastTyped', PlayInv, RecordInv, [Next]_vars
             PROVE  RecordInv'
  OBVIOUS
<1>1. GivenInv /\ TakenInv /\ RefusedOnlyAfterRestart
  BY DEF RecordInv
<1>2. CASE Record
  <2>1. GivenInv' /\ \A m \in DOMAIN given : Before(given[m].packet, last')
    BY <1>1, <1>2, RecordOrders
  <2>2. PICK g, g2, x, n : g = given /\ g2 = given' /\ x = Given(last') /\ n = Len(given) + 1
    OBVIOUS
  <2>3. Gives(g, g2, x, n)
    BY <1>2, <2>2, RecordGives
  <2>4. refused \subseteq DOMAIN given
    BY DEF TypeInv, TypeOK
  <2>5. /\ TakenInv' /\ (changedOpen => changedOpen')
        /\ \A i \in refused' :
             \/ i \in refused
             \/ g2[i].segment # 0 => \E m \in 1..(i - 1) : Restarted(g2, i, m, ~changedOpen')
    <3>1. CASE WriteBlockInNewSegment(last')
      BY <1>2, <3>1, NewSegmentTaken
    <3>2. CASE WriteBlockInSegment(last')
      BY <1>1, <1>2, <2>1, <2>2, <3>2, InSegmentTaken
    <3>3. CASE WriteBlockCrashes(last')
      BY <3>3 DEF WriteBlockCrashes, internals, TakenInv
    <3> QED
      BY <1>2, <3>1, <3>2, <3>3 DEF Record, WriteWebmBlock
  <2>6. RefusedOnlyAfterRestart'
    BY <1>1, <2>2, <2>3, <2>4, <2>5, KeptRefused
  <2> QED
    BY <2>1, <2>5, <2>6 DEF RecordInv
<1>3. CASE OtherCall /\ UNCHANGED last
  <2>1. TakenInv' /\ UNCHANGED <<given, refused>> /\ (changedOpen => changedOpen')
    BY <1>1, <1>3, OtherTaken
  <2>2. GivenInv'
    BY <1>1, <1>3, <2>1 DEF GivenInv
  <2>3. RefusedOnlyAfterRestart'
    BY <1>1, <2>1 DEF RefusedOnlyAfterRestart
  <2> QED
    BY <2>1, <2>2, <2>3 DEF RecordInv
<1>4. CASE UNCHANGED vars
  <2>1. UNCHANGED <<last, given, refused, segment, started, writer, changedOpen>>
    BY <1>4 DEF vars, muxerVars, internals
  <2> QED
    BY <1>1, <2>1 DEF RecordInv, GivenInv, TakenInv, RefusedOnlyAfterRestart
<1> QED
  BY <1>2, <1>3, <1>4 DEF Next

LEMMA InitRecord == Init => RecordInv
BY EmptySeq DEF Init, MuxerInit, RecordInv, GivenInv, TakenInv, RefusedOnlyAfterRestart

LEMMA AlwaysRecord == Spec => [](TypeInv /\ LastTyped /\ PlayInv /\ RecordInv)
<1>1. Spec => [](TypeInv /\ PlayInv)
  BY RecordingIsMuxer, AlwaysPlays, PTL
<1>2. Spec => []LastTyped
  <2>1. LastTyped /\ [Next]_vars => LastTyped'
    BY StepLast
  <2> QED
    BY <2>1, InitLast, PTL DEF Spec
<1> QED
  BY <1>1, <1>2, InitRecord, StepRecord, PTL DEF Spec

(* libwebm refuses a packet of an encoder, which the muxer does not report, only
   where a later context counts from a lower time than an earlier one of the
   same segment; in memory, of the same size (vtkWEBMMuxer::WriteWebmBlock;
   vtkVpxEncoder::EncodeInternal, which counts sendCounter; libwebm:
   Segment::AddGenericFrame). *)
THEOREM RefusedOnlyAfterAContext == Spec => []RefusedOnlyAfterRestart
<1>1. RecordInv => RefusedOnlyAfterRestart
  BY DEF RecordInv
<1> QED
  BY <1>1, AlwaysRecord, PTL
-----------------------------------------------------------------------------
(* Frames after those that they were predicted from. *)

(* Block i of stream s, if it is not a key frame, follows the packet before it in
   a segment; as all blocks do. *)
FollowsAt(g, s, i) ==
  ~g[s[i].packet].packet.key =>
    \E h, j \in 1..i :
      /\ IsLast(s, "header", i, h) /\ h <= j
      /\ s[j].kind = "block" /\ s[j].packet = s[i].packet - 1

Follows(g, s) == \A i \in Blocks(s) : FollowsAt(g, s, i)

(* Packet n is in the last segment of s. *)
EndsIn(s, n) ==
  \E h, j \in 1..Len(s) :
    /\ IsLast(s, "header", Len(s), h) /\ h <= j
    /\ s[j].kind = "block" /\ s[j].packet = n

HasHeader(s) == \E h \in 1..Len(s) : IsLast(s, "header", Len(s), h)

LEMMA FollowsSame ==
  ASSUME NEW g, NEW s, NEW t, NEW i \in Nat, i \in 1..i, \A k \in 1..i : s[k] = t[k],
         FollowsAt(g, s, i)
  PROVE  FollowsAt(g, t, i)
<1> SUFFICES ASSUME ~g[t[i].packet].packet.key
             PROVE  \E h, j \in 1..i :
                      /\ IsLast(t, "header", i, h) /\ h <= j
                      /\ t[j].kind = "block" /\ t[j].packet = t[i].packet - 1
  BY DEF FollowsAt
<1>1. s[i] = t[i]
  OBVIOUS
<1>2. PICK h \in 1..i, j \in 1..i :
        /\ IsLast(s, "header", i, h) /\ h <= j
        /\ s[j].kind = "block" /\ s[j].packet = s[i].packet - 1
  BY <1>1 DEF FollowsAt
<1>3. IsLast(t, "header", i, h)
  BY <1>2, LastSame
<1>4. s[j] = t[j]
  BY <1>2
<1> QED
  BY <1>1, <1>2, <1>3, <1>4

LEMMA FollowsPrefix ==
  ASSUME NEW g, NEW s \in Seq(ElementsOf), NEW t \in Seq(ElementsOf), Len(t) <= Len(s),
         \A k \in 1..Len(t) : s[k] = t[k], Follows(g, s)
  PROVE  Follows(g, t)
<1> SUFFICES ASSUME NEW i \in Blocks(t) PROVE FollowsAt(g, t, i)
  BY DEF Follows
<1>1. i \in 1..Len(t) /\ t[i].kind = "block" /\ Len(t) \in Nat /\ Len(s) \in Nat
  BY BlocksAre
<1>2. i \in Nat /\ i \in 1..i /\ i \in 1..Len(s) /\ \A k \in 1..i : k \in 1..Len(t)
  BY <1>1
<1>3. \A k \in 1..i : s[k] = t[k]
  BY <1>2
<1>4. i \in Blocks(s)
  BY <1>1, <1>2, BlocksAre
<1>5. FollowsAt(g, s, i)
  BY <1>4 DEF Follows
<1> QED
  BY <1>2, <1>3, <1>5, FollowsSame

LEMMA FollowsMore ==
  ASSUME NEW g, NEW g2, Extends(g, g2), NEW s, Good(g, s), Follows(g, s)
  PROVE  Follows(g2, s)
<1> SUFFICES ASSUME NEW i \in Blocks(s) PROVE FollowsAt(g2, s, i)
  BY DEF Follows
<1>1. g2[s[i].packet] = g[s[i].packet]
  BY GoodPackets DEF Extends
<1>2. FollowsAt(g, s, i)
  BY DEF Follows
<1> QED
  BY <1>1, <1>2 DEF FollowsAt

LEMMA FollowsAppended ==
  ASSUME NEW g, NEW d \in Seq(ElementsOf), NEW e \in ElementsOf, NEW f, f = Append(d, e),
         Follows(g, d), NEW i \in Blocks(d)
  PROVE  FollowsAt(g, f, i)
<1>1. Len(d) \in Nat /\ i \in 1..Len(d) /\ \A k \in 1..Len(d) : f[k] = d[k]
  BY AppendBlocks DEF Appended
<1>2. i \in Nat /\ i \in 1..i /\ \A k \in 1..i : k \in 1..Len(d)
  BY <1>1
<1>3. \A k \in 1..i : d[k] = f[k]
  BY <1>1, <1>2
<1>4. FollowsAt(g, d, i)
  BY DEF Follows
<1> QED
  BY <1>2, <1>3, <1>4, FollowsSame

(* An element that is not a block. *)
LEMMA FollowsOther ==
  ASSUME NEW g, NEW d \in Seq(ElementsOf), NEW e \in ElementsOf, NEW f, f = Append(d, e),
         e.kind # "block"
  PROVE  /\ f \in Seq(ElementsOf)
         /\ Follows(g, d) => Follows(g, f)
         /\ e.kind = "header" => HasHeader(f)
         /\ e.kind # "header" /\ HasHeader(d) => HasHeader(f)
         /\ \A n : e.kind # "header" /\ EndsIn(d, n) => EndsIn(f, n)
<1>0. Appended(d, e, f)
  BY AppendBlocks
<1>1. /\ f \in Seq(ElementsOf) /\ Len(f) = Len(d) + 1 /\ Len(d) \in Nat
      /\ \A i \in Blocks(f) : i \in Blocks(d)
      /\ \A i \in 1..Len(d) : f[i] = d[i]
  BY <1>0 DEF Appended
<1>2. Follows(g, d) => Follows(g, f)
  BY <1>1, FollowsAppended DEF Follows
<1>3. \A i \in 1..Len(d) : i \in 1..Len(f)
  BY <1>1
<1>4. Len(f) \in 1..Len(f)
  BY <1>1
<1>5. e.kind = "header" => HasHeader(f)
  <2>1. e.kind = "header" => IsLast(f, "header", Len(f), Len(f))
    BY <1>1, LastAppend
  <2> QED
    BY <1>4, <2>1 DEF HasHeader
<1>6. ASSUME e.kind # "header", NEW h, IsLast(d, "header", Len(d), h)
      PROVE  IsLast(f, "header", Len(f), h)
  BY <1>1, <1>6, LastAppend
<1>7. e.kind # "header" /\ HasHeader(d) => HasHeader(f)
  BY <1>3, <1>6 DEF HasHeader
<1>8. ASSUME NEW n, e.kind # "header", EndsIn(d, n) PROVE EndsIn(f, n)
  <2>1. PICK h \in 1..Len(d), j \in 1..Len(d) :
          /\ IsLast(d, "header", Len(d), h) /\ h <= j
          /\ d[j].kind = "block" /\ d[j].packet = n
    BY <1>8 DEF EndsIn
  <2>2. h \in 1..Len(f) /\ j \in 1..Len(f) /\ f[j] = d[j]
    BY <1>1, <1>3
  <2>3. IsLast(f, "header", Len(f), h)
    BY <1>6, <1>8, <2>1
  <2> QED
    BY <2>1, <2>2, <2>3 DEF EndsIn
<1> QED
  BY <1>1, <1>2, <1>5, <1>7, <1>8

(* A block. *)
LEMMA FollowsBlock ==
  ASSUME NEW g, NEW d \in Seq(ElementsOf), NEW e \in ElementsOf, NEW f, f = Append(d, e),
         e.kind = "block", Follows(g, d), HasHeader(d),
         ~g[e.packet].packet.key => EndsIn(d, e.packet - 1)
  PROVE  Follows(g, f) /\ EndsIn(f, e.packet)
<1>0. Appended(d, e, f)
  BY AppendBlocks
<1>1. /\ f \in Seq(ElementsOf) /\ Len(f) = Len(d) + 1 /\ Len(d) \in Nat
      /\ \A i \in Blocks(f) : i \in Blocks(d) \/ i = Len(d) + 1
      /\ \A i \in 1..Len(d) : f[i] = d[i]
      /\ f[Len(d) + 1] = e
  BY <1>0 DEF Appended
<1>2. PICK n : n = Len(d) + 1
  OBVIOUS
<1>3. n \in 1..n /\ n = Len(f) /\ \A i \in 1..Len(d) : i \in 1..n /\ i <= n
  BY <1>1, <1>2
<1>4. ASSUME NEW h, IsLast(d, "header", Len(d), h) PROVE IsLast(f, "header", n, h)
  <2>1. e.kind # "header"
    OBVIOUS
  <2> QED
    BY <1>2, <1>4, <2>1, LastAppend
<1>5. FollowsAt(g, f, n)
  <2> SUFFICES ASSUME ~g[e.packet].packet.key
               PROVE  \E h, j \in 1..n :
                        /\ IsLast(f, "header", n, h) /\ h <= j
                        /\ f[j].kind = "block" /\ f[j].packet = f[n].packet - 1
    BY <1>1, <1>2 DEF FollowsAt
  <2>1. PICK h \in 1..Len(d), j \in 1..Len(d) :
          /\ IsLast(d, "header", Len(d), h) /\ h <= j
          /\ d[j].kind = "block" /\ d[j].packet = e.packet - 1
    BY DEF EndsIn
  <2>2. IsLast(f, "header", n, h) /\ f[j] = d[j] /\ f[n] = e
    BY <1>1, <1>2, <1>4, <2>1
  <2> QED
    BY <1>3, <2>1, <2>2
<1>6. Follows(g, f)
  BY <1>1, <1>2, <1>5, FollowsAppended DEF Follows
<1>7. EndsIn(f, e.packet)
  <2>1. PICK h \in 1..Len(d) : IsLast(d, "header", Len(d), h)
    BY DEF HasHeader
  <2>2. IsLast(f, "header", n, h) /\ h \in 1..n /\ h <= n /\ f[n] = e
    BY <1>1, <1>2, <1>3, <1>4, <2>1
  <2> QED
    BY <1>3, <2>2 DEF EndsIn
<1> QED
  BY <1>6, <1>7

(* What AddFrame does. *)
FollowedBy(g, f, n) == Follows(g, f) /\ EndsIn(f, n)

LEMMA AddFollows ==
  ASSUME NEW g, NEW s \in Segments, NEW p \in Packets, NEW n \in Nat, started' \in Nat,
         g[n].packet = p, NEW d \in Seq(ElementsOf), Follows(g, d),
         s.headerOut => HasHeader(d),
         ~p.key => s.headerOut /\ EndsIn(d, n - 1),
         NEW f, f = d \o Elements(s, p, n)
  PROVE  FollowedBy(g, f, n)
<1>1. PICK hdr, cl, b, d1, d2 :
        /\ hdr = HeaderOf(s) /\ cl = ClusterOf(s, p) /\ b = BlockOf(s, p, n)
        /\ d1 = WithHeader(s, d) /\ d2 = WithCluster(s, p, d)
  OBVIOUS
<1>2. hdr \in ElementsOf /\ cl \in ElementsOf /\ b \in ElementsOf
  BY <1>1, ElementParts
<1>3. /\ hdr.kind = "header" /\ cl.kind = "cluster" /\ b.kind = "block" /\ b.packet = n
  BY <1>1 DEF HeaderOf, ClusterOf, BlockOf, Header, Cluster, Block
<1>4. f = Append(d2, b)
  BY <1>1, ElementsAdded
<1>5. /\ d1 \in Seq(ElementsOf) /\ Follows(g, d1) /\ HasHeader(d1)
      /\ ~p.key => EndsIn(d1, n - 1)
  <2>1. CASE s.headerOut
    BY <1>1, <2>1 DEF WithHeader
  <2>2. CASE ~s.headerOut
    <3>1. d1 = Append(d, hdr)
      BY <1>1, <2>2 DEF WithHeader
    <3>2. hdr.kind # "block"
      BY <1>3
    <3>3. d1 \in Seq(ElementsOf) /\ Follows(g, d1) /\ HasHeader(d1)
      BY <1>2, <1>3, <3>1, <3>2, FollowsOther
    <3> QED
      BY <2>2, <3>3
  <2> QED
    BY <2>1, <2>2
<1>6. /\ d2 \in Seq(ElementsOf) /\ Follows(g, d2) /\ HasHeader(d2)
      /\ ~p.key => EndsIn(d2, n - 1)
  <2>1. CASE ~NeedsNewCluster(s, p)
    BY <1>1, <1>5, <2>1 DEF WithCluster
  <2>2. CASE NeedsNewCluster(s, p)
    <3>1. d2 = Append(d1, cl)
      BY <1>1, <2>2 DEF WithCluster
    <3>2. cl.kind # "block" /\ cl.kind # "header"
      BY <1>3
    <3> QED
      BY <1>2, <1>5, <3>1, <3>2, FollowsOther
  <2> QED
    BY <2>1, <2>2
<1>7. ~g[b.packet].packet.key => EndsIn(d2, b.packet - 1)
  BY <1>3, <1>6
<1> QED
  BY <1>2, <1>3, <1>4, <1>6, <1>7, FollowsBlock DEF FollowedBy

(* A packet that is not a key frame continues the context of the one before. *)
KeyAt(g, n) ==
  ~g[n].packet.key =>
    n - 1 \in DOMAIN g /\ g[n - 1].packet.context = g[n].packet.context

KeyInv ==
  /\ given = <<>> => last.context = 0
  /\ \A n \in DOMAIN given : KeyAt(given, n)

Whole == ~wasted /\ ~cut /\ ~changedOpen /\ refused = {}

AllFollow(g, fs, o, m) ==
  (\A s \in Range(fs) : Follows(g, s)) /\ Follows(g, o) /\ Follows(g, m)

(* The last packet given is in the segment in place. *)
InPlace ==
  object = "alive" /\ given # <<>> =>
    /\ segment # None /\ segment.headerOut /\ EndsIn(Current, Len(given))
    /\ settings.writeToMemory => width = last.w /\ height = last.h

FollowInv == Whole => AllFollow(given, files, OpenData, MemoryStream) /\ InPlace

LEMMA RecordKeys ==
  ASSUME TypeInv, TypeInv', LastTyped, GivenInv, KeyInv, Record
  PROVE  /\ KeyInv'
         /\ ~last'.key => given # <<>> /\ last'.w = last.w /\ last'.h = last.h
<1>1. PICK g, g2, x, n : g = given /\ g2 = given' /\ x = Given(last') /\ n = Len(given) + 1
  OBVIOUS
<1>2. Gives(g, g2, x, n)
  BY <1>1, RecordGives
<1>3. /\ g \in Seq(Entries) /\ n = Len(g) + 1 /\ Len(g) \in Nat /\ n \in Nat
      /\ x.packet = last' /\ DOMAIN g = 1..Len(g) /\ DOMAIN g2 = 1..n
      /\ g2[n] = x /\ n \in DOMAIN g2
      /\ \A i \in DOMAIN g : i \in DOMAIN g2 /\ g2[i] = g[i]
      /\ \A i \in DOMAIN g2 : i \in DOMAIN g \/ i = n
  BY <1>2 DEF Gives, OneMoreEntry, Extends
<1>4. /\ last'.context > 0
      /\ \/ /\ last.context > 0 /\ last'.context = last.context
            /\ last'.w = last.w /\ last'.h = last.h
         \/ last'.key
  BY LastGiven
<1>5. last.context > 0 => g # <<>>
  <2>1. ~(0 > 0)
    OBVIOUS
  <2> QED
    BY <1>1, <2>1 DEF KeyInv
<1>6. g # <<>> => n - 1 \in DOMAIN g /\ n - 1 = Len(g)
  <2> HAVE g # <<>>
  <2>1. Len(g) # 0
    BY <1>3, EmptySeq
  <2> QED
    BY <1>3, <2>1
<1>7. KeyAt(g2, n)
  <2> SUFFICES ASSUME ~last'.key
               PROVE  n - 1 \in DOMAIN g2 /\ g2[n - 1].packet.context = last'.context
    BY <1>3 DEF KeyAt
  <2>1. g # <<>> /\ last'.context = last.context
    BY <1>4, <1>5
  <2>2. g[n - 1].packet = last
    BY <1>1, <1>6, <2>1 DEF GivenInv
  <2> QED
    BY <1>3, <1>6, <2>1, <2>2
<1>8. ASSUME NEW i \in DOMAIN g PROVE KeyAt(g2, i)
  <2>1. KeyAt(g, i) /\ g2[i] = g[i]
    BY <1>1, <1>3, <1>8 DEF KeyInv
  <2> QED
    BY <1>3, <2>1 DEF KeyAt
<1>9. g2 # <<>>
  BY <1>3, EmptySeq
<1>10. KeyInv'
  BY <1>1, <1>3, <1>7, <1>8, <1>9 DEF KeyInv
<1> QED
  BY <1>1, <1>4, <1>5, <1>10

(* A file that is closed gets cues, which are no block. *)
LEMMA CloseFollows ==
  ASSUME TypeInv, object = "alive", Close, NEW g, NEW o, o = OpenData, NEW m,
         AllFollow(g, files, o, m)
  PROVE  \A s \in Range(files') : Follows(g, s)
<1>1. PICK data : data = IF isHeaderWritten THEN Finalized ELSE <<>>
  OBVIOUS
<1>2. LetGo(data)
  BY <1>1 DEF Close
<1>3. \A s \in Range(files) : Follows(g, s)
  BY DEF AllFollow
<1>4. CASE ~(writer # None /\ ~writer.memory)
  BY <1>2, <1>3, <1>4 DEF LetGo
<1>5. CASE writer # None /\ ~writer.memory
  <2>1. files' = Append(files, data)
    BY <1>2, <1>5 DEF LetGo
  <2>2. isHeaderWritten /\ segment \in Segments /\ writer \in Writers
    BY <1>5 DEF TypeInv, TypeOK
  <2>3. data = Finalized /\ data \in Seq(ElementsOf)
    BY <1>1, <2>2, FinalizedTyped
  <2>4. Range(files') = Range(files) \cup {data}
    <3>1. PICK P : P = Seq(ElementsOf)
      OBVIOUS
    <3>2. files \in Seq(P) /\ data \in P
      BY <2>3, <3>1 DEF TypeInv, TypeOK
    <3> QED
      BY <2>1, <3>2, RangeAppend
  <2>5. Follows(g, writer.data)
    <3>1. OpenData = writer.data
      BY <1>5 DEF OpenData, FileOf
    <3> QED
      BY <3>1 DEF AllFollow
  <2>6. Follows(g, data)
    <3>1. CASE data = writer.data
      BY <2>5, <3>1
    <3>2. CASE data = Append(writer.data, Cues(segment.points))
      <4>1. PICK d, e : d = writer.data /\ e = Cues(segment.points)
        OBVIOUS
      <4>2. d \in Seq(ElementsOf) /\ Follows(g, d)
        BY <2>2, <2>5, <4>1, DataOf
      <4>3. e \in ElementsOf /\ e.kind # "block"
        BY <2>2, <4>1, SegmentParts DEF Cues, ElementsOf
      <4>4. data = Append(d, e)
        BY <3>2, <4>1
      <4> QED
        BY <4>2, <4>3, <4>4, FollowsOther
    <3> QED
      BY <2>3, <3>1, <3>2 DEF Finalized
  <2> QED
    BY <1>3, <2>4, <2>6
<1> QED
  BY <1>4, <1>5

LEMMA AllFollowMore ==
  ASSUME NEW g, NEW g2, Extends(g, g2), NEW r, NEW fs, NEW o, NEW m,
         StreamsGood(g, r, fs, o, m), AllFollow(g, fs, o, m)
  PROVE  AllFollow(g2, fs, o, m)
<1>1. ASSUME NEW s, Good(g, s), Follows(g, s) PROVE Follows(g2, s)
  BY <1>1, FollowsMore
<1> QED
  BY <1>1 DEF AllFollow, StreamsGood

Followed == AllFollow(given, files, OpenData, MemoryStream) /\ InPlace

LEMMA InSegmentFollows ==
  ASSUME TypeInv, TypeInv', LastTyped, PlayInv, GivenInv, KeyInv, FollowInv, Record, Whole',
         WriteBlockInSegment(last')
  PROVE  Followed'
<1>1. PICK p : p = last'
  OBVIOUS
<1>2. /\ p \in Packets /\ WriteWebmBlock(p) /\ WriteBlockInSegment(p)
      /\ ~p.key => given # <<>>
  BY <1>1, LastGiven, RecordKeys
<1>3. /\ object = "alive" /\ segment # None
      /\ ~(Resizes(p) /\ settings.writeToMemory)
      /\ UNCHANGED <<width, height, settings, started, files, fetched, readTo>>
      /\ UNCHANGED <<wasted, changedOpen>>
  BY <1>2 DEF WriteWebmBlock, WriteBlockInSegment, properties, reader
<1>4. PICK t, w, n, x, g, g2 :
        /\ t = Forced(segment) /\ w = writer /\ n = Len(given) + 1 /\ x = Given(p)
        /\ g = given /\ g2 = given'
  OBVIOUS
<1>5. AddFrame(t, w, p, n)
  BY <1>2, <1>4 DEF WriteBlockInSegment
<1>6. Gives(g, g2, x, n)
  BY <1>1, <1>4, RecordGives
<1>7. n \in Nat /\ n - 1 = Len(g) /\ g2[n].packet = p /\ Extends(g, g2)
  BY <1>1, <1>6 DEF Gives, OneMoreEntry
<1>8. segment \in Segments /\ writer \in Writers /\ started' \in Nat
  BY <1>3 DEF TypeInv, TypeOK
<1>9. t \in Segments /\ t.headerOut = segment.headerOut
  BY <1>4, <1>8, ForcedTyped
<1>10. Accepts(t, w, p) /\ refused = {}
  BY <1>5 DEF AddFrame, Whole
<1>11. Whole
  BY <1>3, <1>10 DEF Whole, Record
<1>12. /\ AllFollow(g, files, OpenData, MemoryStream) /\ InPlace
       /\ StreamsGood(g, refused, files, OpenData, MemoryStream)
  BY <1>4, <1>11 DEF FollowInv, Whole, PlayInv, StreamInv
<1>13. PICK e, d, f : e = Elements(t, p, n) /\ d = Current /\ f = d \o e
  OBVIOUS
<1>14. /\ segment' = SegmentWith(t, w, p) /\ writer' \in Writers
       /\ writer'.data = w.data \o e /\ writer'.memory = w.memory
  <2>1. w \in Writers
    BY <1>4, <1>8
  <2> QED
    BY <1>2, <1>5, <1>7, <1>8, <1>9, <1>10, <1>13, <2>1, AddFrameTyped
<1>15. e \in Seq(ElementsOf)
  BY <1>2, <1>7, <1>8, <1>9, <1>13, EmptySeq, ElementsAdded
<1>16. Grown(e)
  <2>1. writer'.memory = writer.memory /\ writer'.data = writer.data \o e
    BY <1>4, <1>14
  <2> QED
    BY <1>3, <1>8, <1>14, <1>15, <2>1, StreamsGrow
<1>17. d \in Seq(ElementsOf) /\ Follows(g, d) /\ Good(g, d)
  BY <1>12, <1>13, <1>16 DEF Grown, AllFollow, StreamsGood
<1>18. Follows(g2, d)
  BY <1>7, <1>17, FollowsMore
<1>19. t.headerOut => HasHeader(d)
  <2>1. t.headerOut => Ends(given, Current, segment, started)
    BY <1>3, <1>9, <1>11 DEF PlayInv, SegmentInv, Whole
  <2> QED
    BY <1>13, <2>1 DEF Ends, EndsAt, HasHeader
<1>20. ~p.key => t.headerOut /\ EndsIn(d, n - 1)
  BY <1>2, <1>3, <1>4, <1>7, <1>9, <1>12, <1>13 DEF InPlace
<1>21. FollowedBy(g2, f, n)
  BY <1>2, <1>7, <1>8, <1>9, <1>13, <1>17, <1>18, <1>19, <1>20, AddFollows
<1>22. AllFollow(g2, files, OpenData, MemoryStream)
  BY <1>7, <1>12, AllFollowMore
<1>23. AllFollow(g2, files', OpenData', MemoryStream')
  <2>1. CASE writer.memory
    BY <1>3, <1>13, <1>16, <1>21, <1>22, <2>1 DEF Grown, AllFollow, FollowedBy
  <2>2. CASE ~writer.memory
    BY <1>3, <1>13, <1>16, <1>21, <1>22, <2>2 DEF Grown, AllFollow, FollowedBy
  <2> QED
    BY <2>1, <2>2
<1>24. InPlace'
  <2>1. segment' # None /\ segment'.headerOut
    <3>1. segment'.headerOut
      BY <1>2, <1>8, <1>9, <1>14, <1>4, SegmentWithTyped
    <3>2. segment' # None
      <4>1. writer' # None
        BY <1>14, SegmentIsThere
      <4>2. object' # "deleted"
        BY <1>2, <1>3 DEF WriteBlockInSegment
      <4> QED
        BY <4>1, <4>2 DEF TypeInv, TypeOK
    <3> QED
      BY <3>1, <3>2
  <2>2. Current' = f /\ Len(given') = n
    <3>1. Current' = f
      BY <1>13, <1>16 DEF Grown
    <3>2. x \in Entries /\ g2 = Append(g, x) /\ g \in Seq(Entries) /\ n = Len(g) + 1
      BY <1>6 DEF Gives
    <3> QED
      BY <1>4, <3>1, <3>2, AppendParts
  <2>3. EndsIn(Current', Len(given'))
    BY <1>21, <2>2 DEF FollowedBy
  <2>4. settings'.writeToMemory => width' = last'.w /\ height' = last'.h
    BY <1>1, <1>3 DEF Resizes
  <2> QED
    BY <2>1, <2>3, <2>4 DEF InPlace
<1> QED
  BY <1>4, <1>23, <1>24 DEF Followed

LEMMA NewSegmentFollows ==
  ASSUME TypeInv, TypeInv', LastTyped, PlayInv, GivenInv, KeyInv, FollowInv, Record, Whole',
         WriteBlockInNewSegment(last')
  PROVE  Followed'
<1>1. PICK p : p = last'
  OBVIOUS
<1>2. /\ p \in Packets /\ WriteWebmBlock(p) /\ WriteBlockInNewSegment(p)
      /\ ~p.key => given # <<>> /\ p.w = last.w /\ p.h = last.h
  BY <1>1, LastGiven, RecordKeys
<1>3. /\ Resizes(p) /\ settings.writeToMemory /\ Close
      /\ width' = p.w /\ height' = p.h /\ object = "alive" /\ UNCHANGED settings
  BY <1>2 DEF WriteWebmBlock, WriteBlockInNewSegment
<1>4. PICK s, t, w, n, x, g, g2 :
        /\ s = NewSegment(p.w, p.h) /\ t = Forced(s) /\ w = NewWriter(TRUE)
        /\ n = Len(given) + 1 /\ x = Given(p) /\ g = given /\ g2 = given'
  OBVIOUS
<1>5. AddFrame(t, w, p, n)
  BY <1>2, <1>4 DEF WriteBlockInNewSegment
<1>6. Gives(g, g2, x, n)
  BY <1>1, <1>4, RecordGives
<1>7. n \in Nat /\ g2[n].packet = p /\ Extends(g, g2)
  BY <1>1, <1>6 DEF Gives, OneMoreEntry
<1>8. /\ settings \in Settings /\ p.w \in Nat /\ p.h \in Nat /\ p.ts \in Nat
      /\ started' \in Nat /\ fetched \in Seq(ElementsOf)
  BY <1>2, PacketParts DEF TypeInv, TypeOK
<1>9. t \in Segments /\ t.lastTs = 0 /\ ~t.headerOut
  <2>1. s \in Segments /\ s.lastTs = 0 /\ ~s.headerOut
    BY <1>4, <1>8, NewSegmentTyped
  <2> QED
    BY <1>4, <2>1, ForcedTyped
<1>10. w \in Writers /\ w.data = <<>> /\ w.memory /\ w.opened
  BY <1>3, <1>4, <1>8, NewWriterTyped
<1>11. Accepts(t, w, p)
  BY <1>8, <1>9, <1>10 DEF Accepts
<1>12. PICK e, f : e = Elements(t, p, n) /\ f = fetched \o e
  OBVIOUS
<1>13. /\ segment' = SegmentWith(t, w, p) /\ writer' \in Writers /\ UNCHANGED refused
       /\ writer'.data = w.data \o e /\ writer'.memory = w.memory
  BY <1>2, <1>5, <1>7, <1>8, <1>9, <1>10, <1>11, <1>12, AddFrameTyped
<1>14. e \in Seq(ElementsOf)
  BY <1>2, <1>7, <1>8, <1>9, <1>12, EmptySeq, ElementsAdded
<1>15. UNCHANGED <<fetched, changedOpen>> /\ readTo' = 0
  BY <1>3 DEF Close, LetGo
<1>16. FreshStreams(e)
  BY <1>8, <1>10, <1>13, <1>14, <1>15, StreamsStart
<1>17. /\ ~wasted /\ MemoryStream = fetched
       /\ StreamsGood(g, refused, files', <<>>, fetched)
  BY <1>3, <1>4, ClosePlays DEF PlayInv, Whole
<1>18. Whole
  BY <1>13, <1>15, <1>17 DEF Whole, Record
<1>19. AllFollow(g, files, OpenData, fetched) /\ InPlace
  BY <1>4, <1>17, <1>18 DEF FollowInv
<1>20. AllFollow(g, files', <<>>, fetched)
  <2>1. \A c \in Range(files') : Follows(g, c)
    BY <1>3, <1>19, CloseFollows
  <2>2. Follows(g, <<>>)
    <3>1. Blocks(<<>>) = {}
      BY EmptySeq DEF Blocks
    <3> QED
      BY <3>1 DEF Follows
  <2> QED
    BY <1>19, <2>1, <2>2 DEF AllFollow
<1>21. AllFollow(g2, files', <<>>, fetched)
  BY <1>7, <1>17, <1>20, AllFollowMore
<1>22. p.key
  BY <1>2, <1>3, <1>4, <1>19 DEF InPlace, Resizes
<1>23. FollowedBy(g2, f, n)
  <2>1. Follows(g2, fetched)
    BY <1>21 DEF AllFollow
  <2>2. PICK d : d = fetched
    OBVIOUS
  <2> QED
    BY <1>2, <1>7, <1>8, <1>9, <1>12, <1>22, <2>1, <2>2, AddFollows
<1>24. AllFollow(g2, files', OpenData', MemoryStream')
  BY <1>12, <1>16, <1>21, <1>23 DEF FreshStreams, AllFollow, FollowedBy
<1>25. InPlace'
  <2>1. writer' # None /\ segment' # None
    <3>1. writer' # None
      BY <1>13, SegmentIsThere
    <3>2. object' # "deleted"
      BY <1>2, <1>3 DEF WriteBlockInNewSegment
    <3> QED
      BY <3>1, <3>2 DEF TypeInv, TypeOK
  <2>2. segment'.headerOut
    BY <1>2, <1>9, <1>10, <1>13, SegmentWithTyped
  <2>3. Current' = f /\ Len(given') = n
    <3>1. Current' = f
      BY <1>10, <1>12, <1>13, <1>16 DEF FreshStreams, Current
    <3>2. x \in Entries /\ g2 = Append(g, x) /\ g \in Seq(Entries) /\ n = Len(g) + 1
      BY <1>6 DEF Gives
    <3> QED
      BY <1>4, <3>1, <3>2, AppendParts
  <2>4. EndsIn(Current', Len(given'))
    BY <1>23, <2>3 DEF FollowedBy
  <2> QED
    BY <1>1, <1>3, <2>1, <2>2, <2>4 DEF InPlace
<1> QED
  BY <1>4, <1>24, <1>25 DEF Followed

LEMMA CrashFollows ==
  ASSUME TypeInv, TypeInv', LastTyped, PlayInv, FollowInv, Record, Whole',
         WriteBlockCrashes(last')
  PROVE  Followed'
<1>1. PICK g, g2, x, n : g = given /\ g2 = given' /\ x = Given(last') /\ n = Len(given) + 1
  OBVIOUS
<1>2. Extends(g, g2)
  <2>1. Gives(g, g2, x, n)
    BY <1>1, RecordGives
  <2> QED
    BY <2>1 DEF Gives, OneMoreEntry
<1>3. /\ UNCHANGED <<files, fetched, readTo, writer, refused, wasted, changedOpen>>
      /\ object' # "alive"
  BY DEF WriteBlockCrashes, internals, reader
<1>4. Whole
  BY <1>3 DEF Whole, Record
<1>5. /\ AllFollow(g, files, OpenData, MemoryStream)
      /\ StreamsGood(g, refused, files, OpenData, MemoryStream)
  BY <1>1, <1>4 DEF FollowInv, Whole, PlayInv, StreamInv
<1>6. AllFollow(g2, files, OpenData, MemoryStream)
  BY <1>2, <1>5, AllFollowMore
<1>7. OpenData' = OpenData /\ MemoryStream' = MemoryStream
  BY <1>3 DEF OpenData, MemoryStream
<1>8. AllFollow(given', files', OpenData', MemoryStream')
  BY <1>1, <1>3, <1>6, <1>7
<1> QED
  BY <1>3, <1>8 DEF Followed, InPlace

(* Nothing was given, and nothing is to be followed. *)
LEMMA NothingFollows ==
  ASSUME PlayInv, Whole, given = <<>>
  PROVE  Followed
<1>1. PICK g, r, o, m : g = given /\ r = refused /\ o = OpenData /\ m = MemoryStream
  OBVIOUS
<1>2. StreamsGood(g, r, files, o, m)
  BY <1>1 DEF PlayInv, StreamInv, Whole
<1>3. ASSUME NEW s, Good(g, s) PROVE Follows(g, s)
  <2>1. DOMAIN g = {}
    BY <1>1, EmptySeq
  <2>2. Blocks(s) = {}
    BY <1>3, <2>1, GoodPackets
  <2> QED
    BY <2>2 DEF Follows
<1>4. AllFollow(g, files, o, m)
  BY <1>2, <1>3 DEF StreamsGood, AllFollow
<1> QED
  BY <1>1, <1>4 DEF Followed, InPlace

LEMMA SameFollow ==
  ASSUME Followed, SameStreams, Current' = Current,
         UNCHANGED <<given, files, segment, last>>,
         object' = "alive" => object = "alive",
         segment # None => UNCHANGED <<width, height>>
                           /\ (settings'.writeToMemory => settings.writeToMemory)
  PROVE  Followed'
<1>1. AllFollow(given', files', OpenData', MemoryStream')
  BY DEF Followed, SameStreams
<1>2. InPlace'
  BY DEF Followed, InPlace
<1> QED
  BY <1>1, <1>2 DEF Followed

LEMMA OtherFollows ==
  ASSUME TypeInv, TypeInv', PlayInv, PlayInv', FollowInv, OtherCall, UNCHANGED last, Whole',
         cut' = (cut \/ (given # <<>> /\ segment' # segment))
  PROVE  Followed'
<1>1. UNCHANGED <<given, refused>> /\ (changedOpen => changedOpen')
  <2>1. CASE WriteFileHeader
    BY <2>1 DEF WriteFileHeader, LetGo
  <2>2. CASE WriteFileTrailer \/ Delete
    BY <2>2 DEF WriteFileTrailer, Delete, Close, LetGo
  <2>3. CASE Fetch \/ Flush
    BY <2>3 DEF Fetch, Flush
  <2>4. CASE Setter
    <3>1. /\ UNCHANGED <<given, refused>>
          /\ changedOpen' = (changedOpen \/ (isHeaderWritten /\ ~SameTarget))
      BY <2>4 DEF Setter, Set
    <3> QED
      BY <3>1
  <2> QED
    BY <2>1, <2>2, <2>3, <2>4 DEF OtherCall
<1>2. CASE given = <<>>
  <2>1. PlayInv' /\ Whole' /\ given' = <<>>
    BY <1>1, <1>2
  <2>2. (PlayInv /\ Whole /\ given = <<>> => Followed)'
    BY NothingFollows, PTL
  <2> QED
    BY <2>1, <2>2
<1>3. CASE given # <<>>
  <2>1. ~cut /\ segment' = segment /\ ~changedOpen /\ refused = {}
    BY <1>1, <1>3 DEF Whole
  <2>2. ~wasted' /\ object = "alive"
    BY DEF Whole, OtherCall, WriteFileHeader, WriteFileTrailer, Delete, Fetch, Flush,
           Setter, Set
  <2>3. ~wasted
    <3>1. wasted => wasted'
      BY DEF OtherCall, WriteFileHeader, WriteFileTrailer, Delete, Close, LetGo, Fetch,
             Flush, Setter, Set
    <3> QED
      BY <2>2, <3>1
  <2>4. Followed
    BY <2>1, <2>3 DEF Followed, FollowInv, Whole
  <2>5. segment # None /\ segment.headerOut
    BY <1>3, <2>2, <2>4 DEF Followed, InPlace
  <2>6. CASE WriteFileHeader
    <3>1. segment' = NewSegment(width, height)
      BY <2>6 DEF WriteFileHeader
    <3>2. ~segment'.headerOut
      BY <3>1 DEF NewSegment
    <3> QED
      BY <2>1, <2>5, <3>2
  <2>7. CASE WriteFileTrailer \/ Delete
    BY <2>1, <2>5, <2>7 DEF WriteFileTrailer, Delete
  <2>8. CASE Fetch
    <3>1. SameStreams
      BY <2>8, FetchKeeps
    <3>2. UNCHANGED <<writer, files, width, height, settings>>
      BY <2>8 DEF Fetch, internals, properties
    <3>3. Current' = Current
      BY <3>1, <3>2 DEF SameStreams, Current
    <3> QED
      BY <1>1, <2>1, <2>2, <2>4, <3>1, <3>2, <3>3, SameFollow
  <2>9. CASE Flush
    <3>1. SameStreams /\ writer'.memory
      BY <2>2, <2>9, FlushKeeps
    <3>2. UNCHANGED <<files, width, height, settings>> /\ writer.memory
      BY <2>9 DEF Flush, properties
    <3>3. Current' = Current
      BY <3>1, <3>2 DEF SameStreams, Current
    <3> QED
      BY <1>1, <2>1, <2>2, <2>4, <3>1, <3>2, <3>3, SameFollow
  <2>10. CASE Setter
    <3>1. /\ UNCHANGED <<writer, files, fetched, readTo>>
          /\ changedOpen' = (changedOpen \/ (isHeaderWritten /\ ~SameTarget))
      BY <2>10 DEF Setter, Set, internals, reader
    <3>2. isHeaderWritten
      BY <2>2, <2>5 DEF TypeInv, TypeOK
    <3>3. SameTarget
      BY <3>1, <3>2 DEF Whole
    <3>4. SameStreams /\ Current' = Current
      BY <3>1 DEF SameStreams, OpenData, MemoryStream, Current
    <3> QED
      BY <1>1, <2>1, <2>2, <2>4, <3>1, <3>3, <3>4, SameFollow DEF SameTarget
  <2> QED
    BY <2>6, <2>7, <2>8, <2>9, <2>10 DEF OtherCall
<1> QED
  BY <1>2, <1>3

LEMMA StepFollow ==
  TypeInv /\ TypeInv' /\ LastTyped /\ PlayInv /\ PlayInv' /\ RecordInv
    /\ KeyInv /\ FollowInv /\ [Next]_vars => KeyInv' /\ FollowInv'
<1> SUFFICES ASSUME TypeInv, TypeInv', LastTyped, PlayInv, PlayInv', RecordInv,
                    KeyInv, FollowInv, [Next]_vars
             PROVE  KeyInv' /\ FollowInv'
  OBVIOUS
<1>1. GivenInv
  BY DEF RecordInv
<1>2. Followed' => FollowInv'
  BY DEF Followed, FollowInv
<1>3. CASE Record
  <2>1. KeyInv'
    BY <1>1, <1>3, RecordKeys
  <2>2. ASSUME Whole' PROVE Followed'
    <3>1. CASE WriteBlockInNewSegment(last')
      BY <1>1, <1>3, <2>2, <3>1, NewSegmentFollows
    <3>2. CASE WriteBlockInSegment(last')
      BY <1>1, <1>3, <2>2, <3>2, InSegmentFollows
    <3>3. CASE WriteBlockCrashes(last')
      BY <1>3, <2>2, <3>3, CrashFollows
    <3> QED
      BY <1>3, <3>1, <3>2, <3>3 DEF Record, WriteWebmBlock
  <2> QED
    BY <2>1, <2>2 DEF Followed, FollowInv
<1>4. CASE /\ OtherCall /\ UNCHANGED last
           /\ cut' = (cut \/ (given # <<>> /\ segment' # segment))
  <2>1. KeyInv'
    <3>1. UNCHANGED given
      BY <1>4 DEF OtherCall, WriteFileHeader, WriteFileTrailer, Delete, Fetch, Flush,
                  Setter, Set
    <3> QED
      BY <1>4, <3>1 DEF KeyInv
  <2>2. ASSUME Whole' PROVE Followed'
    BY <1>4, <2>2, OtherFollows
  <2> QED
    BY <2>1, <2>2 DEF Followed, FollowInv
<1>5. CASE UNCHANGED vars
  <2>1. /\ UNCHANGED <<last, cut, given, refused, files, segment, writer, fetched, readTo>>
        /\ UNCHANGED <<wasted, changedOpen, object, width, height, settings>>
    BY <1>5 DEF vars, muxerVars, internals, reader, properties
  <2>2. SameStreams /\ Current' = Current
    BY <2>1 DEF SameStreams, OpenData, MemoryStream, Current
  <2>3. KeyInv'
    BY <2>1 DEF KeyInv
  <2>4. ASSUME Whole' PROVE Followed'
    <3>1. Followed
      BY <2>1, <2>4 DEF Followed, FollowInv, Whole
    <3> QED
      BY <2>1, <2>2, <3>1, SameFollow
  <2> QED
    BY <2>3, <2>4 DEF Followed, FollowInv
<1> QED
  BY <1>3, <1>4, <1>5 DEF Next

LEMMA InitFollow == Init => (PlayInv => KeyInv /\ FollowInv)
<1> SUFFICES ASSUME Init, PlayInv PROVE KeyInv /\ FollowInv
  OBVIOUS
<1>1. given = <<>> /\ last.context = 0
  BY DEF Init, MuxerInit
<1>2. DOMAIN given = {}
  BY <1>1, EmptySeq
<1>3. Whole => Followed
  BY <1>1, NothingFollows
<1> QED
  BY <1>1, <1>2, <1>3 DEF KeyInv, FollowInv, Followed

LEMMA AlwaysFollow == Spec => [](TypeInv /\ PlayInv /\ KeyInv /\ FollowInv)
<1>1. Init => PlayInv
  BY InitPlays DEF Init
<1> QED
  BY <1>1, AlwaysRecord, InitFollow, StepFollow, PTL DEF Spec

(* As long as every packet was taken and read in time, and the application did
   not cut a segment or redirect it, each block of a recording that is not a key
   frame follows in its segment the packet before it, which is of its context:
   a segment that starts in mid-stream, where the size changes, starts with a key
   frame (vtkWEBMMuxer::WriteWebmBlock; vtkVpxEncoder::SetupEncoderContext). *)
THEOREM DeltasAfterTheirReference == Spec => []DeltasFollowTheirReference
<1>1. TypeInv /\ PlayInv /\ KeyInv /\ FollowInv => DeltasFollowTheirReference
  <2> SUFFICES ASSUME TypeInv, PlayInv, KeyInv, FollowInv, Whole,
                      NEW s \in Recordings, NEW i \in Blocks(s),
                      ~given[s[i].packet].packet.key
               PROVE  /\ given[s[i].packet - 1].packet.context
                           = given[s[i].packet].packet.context
                      /\ \E j \in Last(s, "header", i)..i :
                           s[j].kind = "block" /\ s[j].packet = s[i].packet - 1
    BY DEF DeltasFollowTheirReference, Whole
  <2>1. PICK g, m : g = given /\ m = MemoryStream
    OBVIOUS
  <2>2. s \in Seq(ElementsOf) /\ Good(g, s)
    BY <2>1, RecordingsPlay DEF Whole
  <2>3. s[i].packet \in DOMAIN g /\ i \in Nat
    BY <2>2, GoodPackets, BlocksAre
  <2>4. g[s[i].packet - 1].packet.context = g[s[i].packet].packet.context
    BY <2>1, <2>3 DEF KeyInv, KeyAt
  <2>5. AllFollow(g, files, OpenData, m)
    BY <2>1 DEF FollowInv
  <2>6. Follows(g, s)
    <3>1. CASE s \in Range(files)
      BY <2>5, <3>1 DEF AllFollow
    <3>2. CASE s \in OpenFile
      BY <2>5, <3>2 DEF AllFollow, OpenFile, OpenData, FileOf
    <3>3. CASE s = fetched
      <4>1. PICK w, r, f : w = writer /\ r = readTo /\ f = fetched
        OBVIOUS
      <4>2. /\ w \in Writers \cup {None} /\ r \in Nat /\ f \in Seq(ElementsOf)
            /\ w # None => r <= Len(w.data)
        BY <4>1 DEF TypeInv, TypeOK, ReadInv
      <4>3. m = StreamOf(w, r, f) /\ s = f
        BY <2>1, <3>3, <4>1 DEF MemoryStream
      <4>4. /\ m \in Seq(ElementsOf) /\ Len(f) <= Len(m)
            /\ \A k \in 1..Len(f) : m[k] = f[k]
        BY <4>2, <4>3, StreamTyped
      <4> QED
        BY <2>2, <2>5, <4>3, <4>4, FollowsPrefix DEF AllFollow
    <3> QED
      BY <3>1, <3>2, <3>3 DEF Recordings
  <2>7. PICK h \in 1..i, j \in 1..i :
          /\ IsLast(s, "header", i, h) /\ h <= j
          /\ s[j].kind = "block" /\ s[j].packet = s[i].packet - 1
    BY <2>1, <2>6 DEF Follows, FollowsAt
  <2>8. Last(s, "header", i) = h
    BY <2>3, <2>7, LastUnique
  <2>9. j \in h..i
    BY <2>3, <2>7
  <2> QED
    BY <2>1, <2>4, <2>7, <2>8, <2>9
<1> QED
  BY <1>1, AlwaysFollow, PTL
=============================================================================

----------------------------- MODULE WebmMuxer ------------------------------
(***************************************************************************)
(* vtkWEBMMuxer, its writer, and the part of libwebm that decides where a  *)
(* packet goes: a segment is opened by WriteFileHeader, takes packets in   *)
(* as blocks of clusters, and is closed by WriteFileTrailer.  A segment is *)
(* written to a file, or to a buffer in memory that the application reads  *)
(* with GetDynamicBuffer and empties with Flush.                           *)
(*                                                                         *)
(* What is written is a sequence of elements, each of which counts for one *)
(* byte: where an element starts is what positions are used for.           *)
(***************************************************************************)
EXTENDS Integers, Sequences, Functions

CONSTANTS
  Widths, Heights,    (* Sizes of packets, in pixels.                       *)
  Scales,             (* Values of TimeStampScale, in nanoseconds.          *)
  MaxBlockTimecode,   (* Largest distance of a block from its cluster.      *)
  MaxClusterDuration, (* Longest cluster, in nanoseconds.                   *)
  MaxPTS,             (* Bound on the timestamps of packets.                *)
  MaxPackets,         (* Bound on the number of packets given.              *)
  MaxSegments,        (* Bound on the number of segments.                   *)
  MaxChanges,         (* Bound on the calls of setters.                     *)
  None                (* No segment, no writer.                             *)

ASSUME MuxerAssumption ==
  /\ Widths \subseteq Nat
  /\ Heights \subseteq Nat
  /\ Scales \subseteq Nat \ {0}
  /\ MaxBlockTimecode \in Nat
  /\ MaxClusterDuration \in Nat
  /\ MaxPTS \in Nat

VARIABLES
  width, height,      (* Width, Height                                      *)
  settings,           (* the members that the other vtkSet macros set       *)
  isHeaderWritten,    (* IsHeaderWritten                                    *)
  segment,            (* Internals->segment                                 *)
  writer,             (* Internals->writer                                  *)
  object,             (* the muxer itself: alive, deleted, or crashed       *)
  files,              (* the files written so far, in the order of their end*)
  fetched,            (* the bytes the application has read from the buffer *)
  readTo,             (* how many bytes of this buffer it has read          *)
  given,              (* history: the packets given to WriteWebmBlock, and  *)
                      (* where they went                                    *)
  refused,            (* history: those that libwebm did not take           *)
  started,            (* history: how many segments were opened             *)
  changes,            (* history: how many setters were called              *)
  wasted,             (* history: bytes were discarded that nobody had read *)
  changedOpen         (* history: size or target changed in an open segment *)

properties == <<width, height, settings>>
reader == <<fetched, readTo>>
internals == <<isHeaderWritten, segment, writer, started>>
muxerVars == <<properties, internals, object, files, reader, given, refused,
               changes, wasted, changedOpen>>

Packets ==
  [w : Widths, h : Heights, ts : 0..MaxPTS, key : BOOLEAN, context : Nat]

Settings ==
  [writeToMemory : BOOLEAN, liveMode : BOOLEAN, outputCues : BOOLEAN,
   forceNewClusters : BOOLEAN, timeStampScale : Scales]

(* The defaults, but for a target and a scale that the application has set. *)
MuxerInit ==
  /\ width = 0
  /\ height = 0
  /\ \E memory \in BOOLEAN, scale \in Scales :
       settings = [writeToMemory |-> memory, liveMode |-> FALSE, outputCues |-> TRUE,
                   forceNewClusters |-> FALSE, timeStampScale |-> scale]
  /\ isHeaderWritten = FALSE
  /\ segment = None
  /\ writer = None
  /\ object = "alive"
  /\ files = <<>>
  /\ fetched = <<>>
  /\ readTo = 0
  /\ given = <<>>
  /\ refused = {}
  /\ started = 0
  /\ changes = 0
  /\ wasted = FALSE
  /\ changedOpen = FALSE
-----------------------------------------------------------------------------
(* The elements of a segment. *)

Header(w, h, scale) ==
  [kind |-> "header", w |-> w, h |-> h, scale |-> scale, segment |-> started']
Cluster(timecode) == [kind |-> "cluster", timecode |-> timecode]
Block(packet, timecode) == [kind |-> "block", packet |-> packet, timecode |-> timecode]
Cues(points) == [kind |-> "cues", points |-> points]

(* A segment remembers the settings it was made with.  Its header is written
   with the first frame: payload is where it ends. *)
NewSegment(w, h) ==
  [w |-> w, h |-> h,
   scale |-> settings.timeStampScale,
   cues |-> settings.outputCues,
   file |-> ~settings.liveMode,
   headerOut |-> FALSE, payload |-> 0,
   clusters |-> 0, timecode |-> 0, lastTs |-> 0, force |-> FALSE,
   points |-> {}]

NewWriter(opened) ==
  [memory |-> settings.writeToMemory, opened |-> opened, data |-> <<>>]

(* Fault: how far a block can be from its cluster is not looked at. *)
NeedsNewClusterFar(s, p) ==
  LET delta == (p.ts \div s.scale) - s.timecode
  IN \/ s.force
     \/ s.clusters = 0
     \/ p.key
     \/ delta * s.scale >= MaxClusterDuration

(* TestFrame: a cluster is for frames close to its start, up to the next key
   frame, unless one is asked for. *)
NeedsNewCluster(s, p) ==
  LET delta == (p.ts \div s.scale) - s.timecode
  IN \/ s.force
     \/ s.clusters = 0
     \/ delta > MaxBlockTimecode
     \/ p.key
     \/ delta * s.scale >= MaxClusterDuration

(* AddGenericFrame refuses a frame older than the last. *)
Accepts(s, w, p) == w.opened /\ p.ts >= s.lastTs

(* Where the segment's next cluster starts, from the end of its header. *)
Payload(s, w) == IF s.headerOut THEN s.payload ELSE Len(w.data) + 1
MaxOffset(s, w) ==
  IF s.headerOut THEN Len(w.data) - s.payload ELSE 0

SegmentWith(s, w, p) ==
  LET new == NeedsNewCluster(s, p)
      timecode == p.ts \div s.scale
  IN [s EXCEPT !.headerOut = TRUE,
               !.payload = Payload(s, w),
               !.clusters = IF new THEN @ + 1 ELSE @,
               !.timecode = IF new THEN timecode ELSE @,
               !.lastTs = p.ts,
               !.force = FALSE,
               !.points = IF new /\ s.cues
                          THEN @ \cup {[time |-> timecode, pos |-> MaxOffset(s, w)]}
                          ELSE @]

(* The elements that packet p, the n-th given, adds. *)
Elements(s, p, n) ==
  LET timecode == p.ts \div s.scale
      start == IF NeedsNewCluster(s, p) THEN timecode ELSE s.timecode
  IN (IF s.headerOut THEN <<>> ELSE <<Header(s.w, s.h, s.scale)>>)
     \o (IF NeedsNewCluster(s, p) THEN <<Cluster(timecode)>> ELSE <<>>)
     \o <<Block(n, timecode - start)>>

(* AddFrame of packet p, the n-th given, to segment s and writer w. *)
AddFrame(s, w, p, n) ==
  IF Accepts(s, w, p)
  THEN /\ segment' = SegmentWith(s, w, p)
       /\ writer' = [w EXCEPT !.data = @ \o Elements(s, p, n)]
       /\ UNCHANGED refused
  ELSE /\ segment' = s
       /\ writer' = w
       /\ refused' = refused \cup {n}

(* Finalize writes the cues of a segment that is not live, and goes back to
   fill nothing in, since no writer can seek. *)
Finalized ==
  IF segment.file /\ segment.cues /\ writer.opened
  THEN Append(writer.data, Cues(segment.points))
  ELSE writer.data
-----------------------------------------------------------------------------
(* What becomes of the writer in place when it is deleted: a file is there to
   stay, a buffer is gone with all that was not read. *)
Unread == writer # None /\ writer.memory /\ readTo < Len(writer.data)

LetGo(data) ==
  /\ files' = IF writer # None /\ ~writer.memory THEN Append(files, data) ELSE files
  /\ wasted' = (wasted \/ Unread)
  /\ readTo' = 0
  /\ UNCHANGED <<fetched, changedOpen>>

Close == LetGo(IF isHeaderWritten THEN Finalized ELSE <<>>)

(* WriteFileHeader of an application.  What is in place already is forgotten,
   not closed.  Opening the file may fail, and nobody looks. *)
WriteFileHeader ==
  /\ object = "alive"
  /\ started < MaxSegments
  /\ LetGo(IF writer # None THEN writer.data ELSE <<>>)
  /\ \E opened \in BOOLEAN :
       /\ settings.writeToMemory => opened
       /\ writer' = NewWriter(opened)
  /\ segment' = NewSegment(width, height)
  /\ isHeaderWritten' = TRUE
  /\ started' = started + 1
  /\ UNCHANGED <<properties, object, given, refused, changes>>

(* Fault: the muxer still believes that a header is there. *)
WriteFileTrailerKeepsHeader ==
  /\ object = "alive"
  /\ isHeaderWritten
  /\ Close
  /\ segment' = None
  /\ writer' = None
  /\ UNCHANGED <<isHeaderWritten, properties, object, started, given, refused, changes>>

(* WriteFileTrailer does nothing without a header. *)
WriteFileTrailer ==
  /\ object = "alive"
  /\ isHeaderWritten
  /\ Close
  /\ segment' = None
  /\ writer' = None
  /\ isHeaderWritten' = FALSE
  /\ UNCHANGED <<properties, object, started, given, refused, changes>>

(* The destructor does the same. *)
Delete ==
  /\ object = "alive"
  /\ object' = "deleted"
  /\ Close
  /\ segment' = None
  /\ writer' = None
  /\ UNCHANGED <<properties, isHeaderWritten, started, given, refused, changes>>
-----------------------------------------------------------------------------
(* Fault: only a packet of another width and another height is noticed. *)
ResizesBothWays(p) == p.w # width /\ p.h # height

(* Fault: the packet that ends a segment is not in the next one. *)
WriteBlockDroppingResize(p) ==
  /\ p.w # width \/ p.h # height
  /\ settings.writeToMemory
  /\ started < MaxSegments
  /\ started' = started + 1
  /\ Close
  /\ width' = p.w
  /\ height' = p.h
  /\ isHeaderWritten' = TRUE
  /\ segment' = NewSegment(p.w, p.h)
  /\ writer' = NewWriter(TRUE)
  /\ UNCHANGED <<settings, object, refused>>

Resizes(p) == p.w # width \/ p.h # height

Forced(s) == [s EXCEPT !.force = @ \/ settings.forceNewClusters]

(* In memory, a packet of another size ends the segment and starts one. *)
WriteBlockInNewSegment(p) ==
  /\ Resizes(p)
  /\ settings.writeToMemory
  /\ started < MaxSegments
  /\ started' = started + 1
  /\ Close
  /\ width' = p.w
  /\ height' = p.h
  /\ isHeaderWritten' = TRUE
  /\ AddFrame(Forced(NewSegment(p.w, p.h)), NewWriter(TRUE), p, Len(given) + 1)
  /\ UNCHANGED <<settings, object>>

WriteBlockInSegment(p) ==
  /\ ~(Resizes(p) /\ settings.writeToMemory)
  /\ segment # None
  /\ UNCHANGED started
  /\ AddFrame(Forced(segment), writer, p, Len(given) + 1)
  /\ UNCHANGED <<properties, isHeaderWritten, object, files, reader, wasted>>
  /\ UNCHANGED changedOpen

(* There is no segment to give the frame to. *)
WriteBlockCrashes(p) ==
  /\ ~(Resizes(p) /\ settings.writeToMemory)
  /\ segment = None
  /\ object' = "crashed"
  /\ UNCHANGED <<properties, internals, files, reader, refused, wasted>>
  /\ UNCHANGED changedOpen

(* Segment 0 is none that is there to write to. *)
Given(p) ==
  [packet |-> p,
   segment |-> IF writer' # None /\ writer'.opened THEN started' ELSE 0,
   memory |-> writer' # None /\ writer'.memory]

WriteWebmBlock(p) ==
  /\ object = "alive"
  /\ Len(given) < MaxPackets
  /\ \/ WriteBlockInNewSegment(p)
     \/ WriteBlockInSegment(p)
     \/ WriteBlockCrashes(p)
  /\ given' = Append(given, Given(p))
  /\ UNCHANGED changes
-----------------------------------------------------------------------------
(* The application copies what has come into the buffer since it last did; the
   buffer of a writer to a file is empty. *)
Fetch ==
  /\ object = "alive"
  /\ IF writer = None
     THEN object' = "crashed" /\ UNCHANGED reader
     ELSE /\ UNCHANGED object
          /\ IF writer.memory
             THEN /\ readTo < Len(writer.data)
                  /\ readTo' = Len(writer.data)
                  /\ fetched' = fetched \o SubSeq(writer.data, readTo + 1, Len(writer.data))
             ELSE UNCHANGED reader
  /\ UNCHANGED <<properties, internals, files, given, refused, changes, wasted>>
  /\ UNCHANGED changedOpen

(* Fault: a file is forgotten as the buffer in memory is. *)
FlushAnyWriter ==
  /\ object = "alive"
  /\ writer # None
  /\ writer' = [writer EXCEPT !.data = <<>>]
  /\ readTo' = 0
  /\ wasted' = (wasted \/ Unread)
  /\ UNCHANGED <<properties, isHeaderWritten, segment, started, object, files>>
  /\ UNCHANGED <<fetched, given, refused, changes, changedOpen>>

Flush ==
  /\ object = "alive"
  /\ writer # None
  /\ writer.memory
  /\ writer' = [writer EXCEPT !.data = <<>>]
  /\ readTo' = 0
  /\ wasted' = (wasted \/ Unread)
  /\ UNCHANGED <<properties, isHeaderWritten, segment, started, object, files>>
  /\ UNCHANGED <<fetched, given, refused, changes, changedOpen>>

SameTarget ==
  /\ UNCHANGED <<width, height>>
  /\ settings'.writeToMemory = settings.writeToMemory

Set(property) ==
  /\ object = "alive"
  /\ changes < MaxChanges
  /\ changes' = changes + 1
  /\ property
  /\ changedOpen' = (changedOpen \/ (isHeaderWritten /\ ~SameTarget))
  /\ UNCHANGED <<internals, object, files, reader, given, refused, wasted>>

SetWidth(w) == w # width /\ width' = w /\ UNCHANGED <<height, settings>>
SetHeight(h) == h # height /\ height' = h /\ UNCHANGED <<width, settings>>
SetOther(name, value) ==
  /\ settings[name] # value
  /\ settings' = [settings EXCEPT ![name] = value]
  /\ UNCHANGED <<width, height>>

Setter ==
  \/ \E w \in Widths : Set(SetWidth(w))
  \/ \E h \in Heights : Set(SetHeight(h))
  \/ \E scale \in Scales : Set(SetOther("timeStampScale", scale))
  \/ \E name \in {"writeToMemory", "liveMode", "outputCues", "forceNewClusters"},
        on \in BOOLEAN : Set(SetOther(name, on))

(* Everything an application may call but WriteWebmBlock. *)
OtherCall ==
  \/ WriteFileHeader
  \/ WriteFileTrailer
  \/ Delete
  \/ Fetch
  \/ Flush
  \/ Setter

MuxerNext == OtherCall \/ \E p \in Packets : WriteWebmBlock(p)

MuxerSpec == MuxerInit /\ [][MuxerNext]_muxerVars
-----------------------------------------------------------------------------
(* Properties. *)

ElementsOf ==
  [kind : {"header"}, w : Nat, h : Nat, scale : Scales, segment : Nat]
  \cup [kind : {"cluster"}, timecode : Nat]
  \cup [kind : {"block"}, packet : Nat, timecode : Int]
  \cup [kind : {"cues"}, points : SUBSET [time : Nat, pos : Int]]

Segments ==
  [w : Nat, h : Nat, scale : Scales, cues : BOOLEAN, file : BOOLEAN,
   headerOut : BOOLEAN, payload : Nat, clusters : Nat, timecode : Nat,
   lastTs : Nat, force : BOOLEAN, points : SUBSET [time : Nat, pos : Int]]

Writers == [memory : BOOLEAN, opened : BOOLEAN, data : Seq(ElementsOf)]

(* A null pointer is no segment and no writer. *)
ASSUME NoneAssumption == None \notin Segments /\ None \notin Writers

(* Every variable holds a value of its type; while the muxer lives there are
   a segment and a writer exactly when IsHeaderWritten says so. *)
TypeOK ==
  /\ width \in Nat
  /\ height \in Nat
  /\ settings \in Settings
  /\ isHeaderWritten \in BOOLEAN
  /\ object \in {"alive", "deleted", "crashed"}
  /\ segment \in Segments \cup {None}
  /\ writer \in Writers \cup {None}
  /\ object # "deleted" =>
       (isHeaderWritten <=> segment # None) /\ (isHeaderWritten <=> writer # None)
  /\ files \in Seq(Seq(ElementsOf))
  /\ fetched \in Seq(ElementsOf)
  /\ readTo \in Nat
  /\ given \in Seq([packet : Packets, segment : Nat, memory : BOOLEAN])
  /\ refused \subseteq DOMAIN given
  /\ started \in Nat
  /\ changes \in Nat
  /\ wasted \in BOOLEAN
  /\ changedOpen \in BOOLEAN

(* What can be played back. *)
Blocks(s) == {i \in DOMAIN s : s[i].kind = "block"}

PacketsOf(s) == {s[i].packet : i \in Blocks(s)}

Last(s, kind, i) ==
  CHOOSE j \in 1..i :
    /\ s[j].kind = kind
    /\ \A k \in (j + 1)..i : s[k].kind # kind

OpenFile ==
  IF writer # None /\ ~writer.memory THEN {writer.data} ELSE {}

(* A recording: a file, or what the application has read from memory. *)
Recordings == Range(files) \cup OpenFile \cup {fetched}

(* As long as the application has read the buffer before each call that
   discards it, every packet that libwebm took is in one recording, or is about
   to be read, and in each recording once and in order.  A change of size, which
   closes the segment and deletes its buffer, loses nothing either. *)
NothingReadLateIsLost ==
  ~wasted =>
    /\ \A s \in Recordings : \A i, j \in Blocks(s) :
         i < j => s[i].packet < s[j].packet
    /\ (UNION {PacketsOf(s) : s \in Recordings})
       \cup (IF writer # None THEN PacketsOf(writer.data) ELSE {})
       = {n \in DOMAIN given : given[n].segment # 0} \ refused

(* In a recording read from memory a packet is in a segment of its own size:
   WriteWebmBlock starts a new one where the size changes.  (In a file it does
   not, and says so in the log only.) *)
BlocksFitTheirTrack ==
  ~wasted /\ ~changedOpen =>
    \A i \in Blocks(fetched) :
      LET header == fetched[Last(fetched, "header", i)]
          p == given[fetched[i].packet].packet
      IN header.w = p.w /\ header.h = p.h

(* Each block is in a cluster of the segment it was given to, near enough to its
   start to be written in 16 bits, and is played at the time of its packet to
   the precision of the scale; times do not go back in a segment. *)
BlocksKeepTheirTime ==
  ~wasted =>
    \A s \in Recordings : \A i \in Blocks(s) :
      LET header == Last(s, "header", i)
          cluster == Last(s, "cluster", i)
          ts == given[s[i].packet].packet.ts
      IN /\ header < cluster
         /\ s[header].segment = given[s[i].packet].segment
         /\ s[i].timecode \in 0..MaxBlockTimecode
         /\ s[cluster].timecode + s[i].timecode = ts \div s[header].scale
         /\ \A j \in Blocks(s) \cap header..i : given[s[j].packet].packet.ts <= ts

(* A cue of a file points at the cluster that starts at its time, whatever was
   flushed meanwhile. *)
CuesPointAtClusters ==
  \A s \in Range(files) : \A i \in DOMAIN s : s[i].kind = "cues" =>
    \A point \in s[i].points :
      LET start == 1 + point.pos + 1
      IN /\ start \in DOMAIN s
         /\ s[start].kind = "cluster"
         /\ s[start].timecode = point.time

(* The muxer reads through a null pointer only outside of header and trailer:
   not between the two segments of a change of size. *)
CrashesOnlyWithoutHeader == object = "crashed" => ~isHeaderWritten
=============================================================================

----------------------------- MODULE Recording ------------------------------
(***************************************************************************)
(* An application that gives the packets of an encoder to a muxer as they  *)
(* come.  Of the encoder only what packets show is here: each encoding     *)
(* context starts with a key frame, and its timestamps rise; a resize      *)
(* takes a new context, and so does a change of a setting.  vtkVpxEncoder  *)
(* and the VideoToolbox encoder count from zero again in each context.     *)
(***************************************************************************)
EXTENDS WebmMuxer

CONSTANTS MaxGap      (* Bound on the frames in a row that fail to encode.  *)

VARIABLES
  last,               (* the last packet of the encoder                     *)
  cut                 (* history: a segment was opened or closed mid-stream *)

vars == <<muxerVars, last, cut>>

Init ==
  /\ MuxerInit
  /\ last = [w |-> 0, h |-> 0, ts |-> 0, key |-> FALSE, context |-> 0]
  /\ cut = FALSE

(* The counter of a context counts frames, those that fail to encode too. *)
NextOfContext(key) ==
  \E gap \in 0..MaxGap :
    last' = [last EXCEPT !.ts = @ + 1 + gap, !.key = key]

FirstOfContext(w, h) ==
  \E from \in {0, last.ts + 1}, gap \in 0..MaxGap :
    last' = [w |-> w, h |-> h, ts |-> from + gap, key |-> TRUE, context |-> last.context + 1]

(* A packet of the encoder, in the callback that carries it. *)
Record ==
  /\ \/ last.context > 0 /\ \E key \in BOOLEAN : NextOfContext(key)
     \/ \E w \in Widths, h \in Heights : FirstOfContext(w, h)
  /\ last'.ts <= MaxPTS
  /\ WriteWebmBlock(last')
  /\ UNCHANGED cut

Next ==
  \/ Record
  \/ /\ OtherCall
     /\ cut' = (cut \/ (given # <<>> /\ segment' # segment))
     /\ UNCHANGED last

Spec == Init /\ [][Next]_vars
-----------------------------------------------------------------------------
(* Properties. *)

(* A packet that libwebm refuses, which the muxer does not report, came from an
   encoding context that another one of the same segment preceded; in memory,
   where a resize starts a segment, one of the same size. *)
RefusedOnlyAfterRestart ==
  \A n \in refused : given[n].segment # 0 =>
    \E m \in 1..(n - 1) :
      LET p == given[n].packet
          q == given[m].packet
      IN /\ given[m].segment = given[n].segment
         /\ q.context < p.context
         /\ q.ts > p.ts
         /\ given[n].memory /\ ~changedOpen => q.w = p.w /\ q.h = p.h

(* Unless something was refused, not read in time, or the application opened,
   closed or redirected a segment in mid-stream, each block of a recording that
   is not a key frame follows, in its segment, the one it was predicted from. *)
DeltasFollowTheirReference ==
  ~wasted /\ ~cut /\ ~changedOpen /\ refused = {} =>
    \A s \in Recordings : \A i \in Blocks(s) :
      LET n == s[i].packet
          p == given[n].packet
      IN ~p.key => /\ given[n - 1].packet.context = p.context
                   /\ \E j \in Last(s, "header", i)..i :
                        s[j].kind = "block" /\ s[j].packet = n - 1
=============================================================================

---------------------------- MODULE NvEncoderMC ----------------------------
(***************************************************************************)
(* Settings of vtkNvEncoderGL for TLC: a ring of one slot, for low delay,  *)
(* and a ring of two, with sizes that are rounded and sizes that are not.  *)
(***************************************************************************)
EXTENDS NvEncoder

Settings(format, lowDelay) ==
  [inputPixelFormat |-> format, lowDelayMode |-> lowDelay,
   keyFramesOnly |-> FALSE, maximumBFrames |-> -1]

TwoRings == {Settings("RGBA32", TRUE), Settings("IYUV", FALSE)}

(* An application that observes the events, and changes its settings between
   its first frame and its second. *)
Application ==
  /\ Next
  /\ UNCHANGED handlerSet
  /\ Len(submitted) # 1 => params' = params /\ forceIFrame' = forceIFrame

ApplicationSpec == Init /\ [][Application]_vars
=============================================================================

---------------------------- MODULE VpxEncoderMC ----------------------------
(***************************************************************************)
(* Settings of vtkVpxEncoder for TLC: one that changes what libvpx is      *)
(* initialized with, one that is read at each frame, and pixel formats.    *)
(***************************************************************************)
EXTENDS VpxEncoder

Settings(format, keysOnly, rate) ==
  [inputPixelFormat |-> format, keyFramesOnly |-> keysOnly, bitRate |-> rate]

OneSetting == {Settings("IYUV", FALSE, 1)}
TwoSettings == {Settings("IYUV", FALSE, 1), Settings("NV12", TRUE, 2)}
ThreeSettings == {Settings("IYUV", FALSE, 1), Settings("NV12", FALSE, 2),
                  Settings("NV12", TRUE, 2)}
UnsupportedSetting == {Settings("NV12", FALSE, 1), Settings("RGBA32", FALSE, 1)}
=============================================================================

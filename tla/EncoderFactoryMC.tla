-------------------------- MODULE EncoderFactoryMC --------------------------
(***************************************************************************)
(* Settings for TLC: the three backends of the library, of which a Linux   *)
(* build has two and a build for macOS two, and one of an application: it  *)
(* needs no hardware, and knows codecs of both kinds.                      *)
(***************************************************************************)
EXTENDS EncoderFactory

Vpx == [name |-> 4, probe |-> FALSE, hardware |-> FALSE, codecs |-> {"vp9"},
        default |-> "vp9", attributes |-> [hardware |-> "false"]]
NvGL == [name |-> 2, probe |-> TRUE, hardware |-> TRUE, codecs |-> {"h264", "h265"},
         default |-> "h264",
         attributes |-> [platform |-> "Linux", hardware |-> "true"]]
VideoToolbox == [name |-> 3, probe |-> TRUE, hardware |-> TRUE, codecs |-> {"h264", "h265"},
                 default |-> "h264",
                 attributes |-> [platform |-> "macOS", hardware |-> "true"]]
Plugin == [name |-> 1, probe |-> TRUE, hardware |-> FALSE, codecs |-> {"av1", "h264"},
           default |-> "av1", attributes |-> [vendor |-> "other"]]

BackendTable == [vpx |-> Vpx, nv |-> NvGL, vt |-> VideoToolbox, plugin |-> Plugin]

(* A codec list can swallow a key that follows a comma; a value of Hardware
   can be a word that means neither. *)
GroupsOfInterest == {
  [key |-> "codec", values |-> <<>>],
  [key |-> "codec", values |-> <<"AV1">>],
  [key |-> "codec", values |-> <<"HEVC", "Hardware=true", "VP9">>],
  [key |-> "codec", values |-> <<"VP9", "AVC", "AV1">>],
  [key |-> "hardware", values |-> <<"true">>],
  [key |-> "hardware", values |-> <<"perhaps">>],
  [key |-> "platform", values |-> <<"Windows", "Linux">>],
  [key |-> "platform", values |-> <<"macOS">>]}
=============================================================================

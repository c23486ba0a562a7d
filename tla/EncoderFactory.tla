--------------------------- MODULE EncoderFactory ---------------------------
(***************************************************************************)
(* vtkEncoderFactory: the process-wide registry of encoder backends, the   *)
(* process-wide preferences, and the choice of a backend for an encoder.   *)
(* Backends register when their library is loaded, in an order that C++    *)
(* leaves open, and again when it is loaded again.  Whether a backend is   *)
(* available is asked of the machine each time, and may change.            *)
(***************************************************************************)
EXTENDS Integers, Sequences, SequencesExt

CONSTANTS
  Backends,         (* Names of subclasses.                                 *)
  Descriptor,       (* What each of them registers with.                    *)
  Groups,           (* The parts "key=value,..." of a preference string.    *)
  MaxGroups,        (* Bound on the parts of a preference string.           *)
  NoEncoder,        (* The null pointer.                                    *)
  NoCall            (* CreateEncoder was not called in this state.          *)

Codecs == {"vp9", "av1", "h264", "h265"}

(* What CreateEncoder may come to, and whom it asked. *)
Results == [backend : Backends, codec : Codecs, probed : SUBSET Backends]

(* name: where the SubclassName comes in the alphabet; probe: there is an
   Available function; default: the codec its constructor sets. *)
ASSUME DescriptorAssumption ==
  \A b \in Backends :
    /\ Descriptor[b].name \in Nat
    /\ Descriptor[b].probe \in BOOLEAN
    /\ Descriptor[b].hardware \in BOOLEAN
    /\ Descriptor[b].codecs \subseteq Codecs
    /\ Descriptor[b].default \in Descriptor[b].codecs
    /\ \A c \in Backends : Descriptor[b].name = Descriptor[c].name => b = c

(* A preference is a key with its values; the null pointers are no encoder. *)
ASSUME GroupsAssumption == Groups \subseteq [key : STRING, values : Seq(STRING)]
ASSUME BoundAssumption == MaxGroups \in Nat
ASSUME NullAssumption == {NoEncoder, NoCall} \cap Results = {}

VARIABLES
  registry,         (* Registry()                                           *)
  preferences,      (* Preferences()                                        *)
  asked,            (* history: the parts of the string that was set last   *)
  usable,           (* the backends that this machine has what they need for*)
  result            (* what the last CreateEncoder came to                  *)

vars == <<registry, preferences, asked, usable, result>>

Init ==
  /\ registry = <<>>
  /\ preferences = <<>>
  /\ asked = <<>>
  /\ usable \in SUBSET {b \in Backends : Descriptor[b].probe}
  /\ result = NoCall

Registered == ToSet(registry)
Available(b) == ~Descriptor[b].probe \/ b \in usable
-----------------------------------------------------------------------------
(* Fault: a library that is loaded twice registers twice. *)
RegisterBackendTwice(b) ==
  /\ Len(registry) < 4
  /\ registry' = Append(registry, b)
  /\ result' = NoCall
  /\ UNCHANGED <<preferences, asked, usable>>

(* A backend that is known by its name is not registered again. *)
RegisterBackend(b) ==
  /\ registry' = IF b \in Registered THEN registry ELSE Append(registry, b)
  /\ result' = NoCall
  /\ UNCHANGED <<preferences, asked, usable>>

(* A repeated key keeps its first position and takes the last values. *)
PutGroup(list, group) ==
  IF \E i \in DOMAIN list : list[i].key = group.key
  THEN [i \in DOMAIN list |-> IF list[i].key = group.key THEN group ELSE list[i]]
  ELSE Append(list, group)

SetPreferences(groups) ==
  /\ preferences' = FoldLeft(PutGroup, <<>>, groups)
  /\ asked' = groups
  /\ result' = NoCall
  /\ UNCHANGED <<registry, usable>>

ClearPreferences ==
  /\ preferences' = <<>>
  /\ asked' = <<>>
  /\ result' = NoCall
  /\ UNCHANGED <<registry, usable>>

(* The codec that a value names, whatever the spelling; "" for none. *)
CodecFromString(value) ==
  CASE value \in {"VP9", "vp9"} -> "vp9"
    [] value \in {"AV1", "av1"} -> "av1"
    [] value \in {"H264", "H.264", "AVC"} -> "h264"
    [] value \in {"H265", "H.265", "HEVC"} -> "h265"
    [] OTHER -> ""

(* Every value that does not say yes says no. *)
BoolOf(value) == value \in {"true", "1", "yes", "on"}
-----------------------------------------------------------------------------
(* Ranking.  Every backend declares codecs and hardware; of other keys, those
   it has an attribute for. *)
Declares(b, key) ==
  key \in {"codec", "hardware"} \/ key \in DOMAIN Descriptor[b].attributes

Matches(b, key, value) ==
  CASE key = "codec" -> CodecFromString(value) \in Descriptor[b].codecs
    [] key = "hardware" -> BoolOf(value) = Descriptor[b].hardware
    [] OTHER -> Declares(b, key) /\ Descriptor[b].attributes[key] = value

(* Fault: to say nothing of a key counts like to match its last value. *)
RankForKeyGenerous(b, p) ==
  LET n == Len(p.values)
      matching == {j \in 1..n : Matches(b, p.key, p.values[j])}
  IN IF matching # {} THEN (CHOOSE j \in matching : \A k \in matching : j <= k) - 1
     ELSE IF Declares(b, p.key) THEN n
     ELSE n - 1

(* The index of the first value that matches; behind all values if the backend
   says nothing of the key; and last if it says something else. *)
RankForKey(b, p) ==
  LET n == Len(p.values)
      matching == {j \in 1..n : Matches(b, p.key, p.values[j])}
  IN IF matching # {} THEN (CHOOSE j \in matching : \A k \in matching : j <= k) - 1
     ELSE IF Declares(b, p.key) THEN n + 1
     ELSE n

ScoreBackend(b) == [i \in DOMAIN preferences |-> RankForKey(b, preferences[i])]

Lexicographic(s, t) ==
  \E i \in DOMAIN s : s[i] < t[i] /\ \A j \in 1..(i - 1) : s[j] = t[j]

Before(a, b) ==
  LET s == ScoreBackend(a)
      t == ScoreBackend(b)
      x == Descriptor[a]
      y == Descriptor[b]
  IN \/ Lexicographic(s, t)
     \/ s = t /\ x.hardware /\ ~y.hardware
     \/ s = t /\ x.hardware = y.hardware /\ x.name < y.name

(* std::stable_sort: a backend comes behind all that are before it, and behind
   those level with it that registered earlier. *)
Ranked ==
  LET places == DOMAIN registry
      ahead(i) == {j \in places : \/ Before(registry[j], registry[i])
                                  \/ j < i /\ ~Before(registry[i], registry[j])}
  IN [k \in places |-> registry[CHOOSE i \in places : Cardinality(ahead(i)) = k - 1]]

(* Fault: only the strongest codec is tried. *)
CodecForFirstOnly(b) ==
  LET wanted == {i \in DOMAIN preferences : preferences[i].key = "codec"}
      values == IF wanted = {} THEN <<>> ELSE preferences[CHOOSE i \in wanted : TRUE].values
  IN IF values = <<>> \/ ~Matches(b, "codec", values[1]) THEN Descriptor[b].default
     ELSE CodecFromString(values[1])

(* The codec of the encoder: the strongest preferred one that the backend
   supports; without any the encoder keeps the one it was made with. *)
CodecFor(b) ==
  LET wanted == {i \in DOMAIN preferences : preferences[i].key = "codec"}
      values == IF wanted = {} THEN <<>> ELSE preferences[CHOOSE i \in wanted : TRUE].values
      strongest == SelectInSeq(values, LAMBDA v : Matches(b, "codec", v))
  IN IF strongest = 0 THEN Descriptor[b].default
     ELSE CodecFromString(values[strongest])

(* The backends are probed in the order of their rank, up to the first that is
   available. *)
CreateEncoder ==
  LET ranked == Ranked
      best == SelectInSeq(ranked, Available)
      encoder == [backend |-> ranked[best], codec |-> CodecFor(ranked[best]),
                  probed |-> {ranked[i] : i \in 1..best}]
  IN /\ result' = IF best = 0 THEN NoEncoder ELSE encoder
     /\ UNCHANGED <<registry, preferences, asked, usable>>

(* CheckAvailability of the factory does not look at preferences. *)
CheckAvailability(codec) ==
  \E b \in Registered : codec \in Descriptor[b].codecs /\ Available(b)

(* A driver is loaded, a display is lost. *)
MachineChanges ==
  /\ usable' \in SUBSET {b \in Backends : Descriptor[b].probe}
  /\ result' = NoCall
  /\ UNCHANGED <<registry, preferences, asked>>
-----------------------------------------------------------------------------
PreferenceStrings == BoundedSeq(Groups, MaxGroups)

Next ==
  \/ \E b \in Backends : RegisterBackend(b)
  \/ \E groups \in PreferenceStrings : SetPreferences(groups)
  \/ ClearPreferences
  \/ CreateEncoder
  \/ MachineChanges

Spec == Init /\ [][Next]_vars
-----------------------------------------------------------------------------
(* Properties. *)

(* Every variable holds a value of its type; no backend is registered twice,
   and no key is preferred twice. *)
TypeOK ==
  /\ registry \in Seq(Backends)
  /\ IsInjective(registry)
  /\ preferences \in Seq(Groups)
  /\ asked \in Seq(Groups)
  /\ \A i, j \in DOMAIN preferences : preferences[i].key = preferences[j].key => i = j
  /\ usable \subseteq Backends
  /\ result \in Results \cup {NoEncoder, NoCall}

(* What SetPreferences documents of keys: the keys that were asked for, in the
   order in which each was first named, with the values it was last given. *)
AsAsked ==
  LET first(key) == CHOOSE n \in DOMAIN asked :
        asked[n].key = key /\ \A m \in 1..(n - 1) : asked[m].key # key
      last(key) == CHOOSE n \in DOMAIN asked :
        asked[n].key = key /\ \A m \in (n + 1)..Len(asked) : asked[m].key # key
      given == {g.key : g \in ToSet(asked)}
  IN /\ {p.key : p \in ToSet(preferences)} = given
     /\ \A i \in DOMAIN preferences : preferences[i] = asked[last(preferences[i].key)]
     /\ \A i, j \in DOMAIN preferences :
          i < j => first(preferences[i].key) < first(preferences[j].key)

(* What SetPreferences documents of strength.  Values are ordered by it: a
   serves preference p better than b when it matches a value that is stronger
   than all that b matches; one that leaves the key open serves it better than
   one that rules out all values. *)
ServesBetter(a, b, p) ==
  LET matched(c, j) == Matches(c, p.key, p.values[j])
      none(c) == \A j \in DOMAIN p.values : ~matched(c, j)
  IN \/ \E j \in DOMAIN p.values : matched(a, j) /\ \A k \in 1..j : ~matched(b, k)
     \/ none(a) /\ none(b) /\ ~Declares(a, p.key) /\ Declares(b, p.key)

ServesAlike(a, b, p) == ~ServesBetter(a, b, p) /\ ~ServesBetter(b, a, p)

(* Keys are ordered by strength too; hardware, then the alphabet break ties. *)
Preferred(a, b) ==
  \/ \E i \in DOMAIN preferences :
       /\ ServesBetter(a, b, preferences[i])
       /\ \A j \in 1..(i - 1) : ServesAlike(a, b, preferences[j])
  \/ /\ \A i \in DOMAIN preferences : ServesAlike(a, b, preferences[i])
     /\ \/ Descriptor[a].hardware /\ ~Descriptor[b].hardware
        \/ /\ Descriptor[a].hardware = Descriptor[b].hardware
           /\ Descriptor[a].name < Descriptor[b].name

(* CreateEncoder picks the one backend that is preferred to all others available,
   whatever the order they were loaded in, and has probed just those preferred
   to it; it gives none only when none is available. *)
ChosenIsBest ==
  result # NoCall =>
    LET candidates == {b \in Registered : Available(b)}
    IN IF result = NoEncoder THEN candidates = {}
       ELSE /\ result.backend \in candidates
            /\ \A b \in candidates \ {result.backend} : Preferred(result.backend, b)
            /\ result.probed \ {result.backend} =
                 {b \in Registered : Preferred(b, result.backend)}

(* When codecs are what is asked for first, the encoder is set to the first of
   them that CheckAvailability would find; and in any case to one its backend
   supports. *)
StrongestCodecHonoured ==
  result \in Results =>
    /\ result.codec \in Descriptor[result.backend].codecs
    /\ preferences # <<>> /\ preferences[1].key = "codec" =>
         LET values == preferences[1].values
             found(j) == CheckAvailability(CodecFromString(values[j]))
         IN \A j \in DOMAIN values :
              found(j) /\ (\A k \in 1..(j - 1) : ~found(k))
              => result.codec = CodecFromString(values[j])
=============================================================================

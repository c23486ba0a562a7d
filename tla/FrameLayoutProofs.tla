------------------------- MODULE FrameLayoutProofs --------------------------
(***************************************************************************)
(* What FrameLayout guarantees of pictures of every size.                  *)
(***************************************************************************)
EXTENDS FrameLayout, TLAPS

(* Rounding up to 8 gives the least multiple that is large enough. *)
LEMMA AlignUp8 ==
  ASSUME NEW v \in Nat
  PROVE  \E k \in Nat : AlignUp(v, 8) = 8 * k /\ v <= 8 * k /\ 8 * k < v + 8
<1> DEFINE k == (v + 7) \div 8
<1>1. k \in Nat /\ v <= 8 * k /\ 8 * k < v + 8
  OBVIOUS
<1>2. AlignUp(v, 8) = 8 * k
  BY <1>1 DEF AlignUp
<1> QED
  BY <1>1, <1>2

(* Rounding up to 2 comes no further than rounding up to 8. *)
LEMMA AlignUp2 ==
  ASSUME NEW v \in Nat, NEW k \in Nat, v <= 8 * k
  PROVE  \E m \in Nat : /\ AlignUp(v, 2) = 2 * m
                        /\ v <= 2 * m /\ 2 * m < v + 2
                        /\ 2 * m <= 8 * k
<1> DEFINE m == (v + 1) \div 2
<1>1. m \in Nat /\ v <= 2 * m /\ 2 * m < v + 2
  OBVIOUS
<1>2. AlignUp(v, 2) = 2 * m
  BY <1>1 DEF AlignUp
<1>3. 2 * m <= 8 * k
  BY <1>1
<1> QED
  BY <1>1, <1>2, <1>3

LEMMA Monotonic ==
  ASSUME NEW a \in Nat, NEW b \in Nat, NEW c \in Nat, b <= c
  PROVE  a * b <= a * c /\ a * b \in Nat /\ a * c \in Nat
<1>1. PICK d \in Nat : c = b + d
  <2> WITNESS c - b \in Nat
  <2> QED  OBVIOUS
<1>2. a * c = a * b + a * d
  BY <1>1, Z3
<1>3. a * d \in Nat /\ a * b \in Nat
  OBVIOUS
<1> QED
  BY <1>2, <1>3

(* A planar picture of 8a by 8b luma bytes. *)
LayoutOf(format, w, h, a, b) ==
  /\ a \in Nat
  /\ b \in Nat
  /\ AlignUp(w, 8) = 8 * a /\ w <= 8 * a /\ 8 * a < w + 8
  /\ AlignUp(h, 8) = 8 * b /\ h <= 8 * b /\ 8 * b < h + 8
  /\ Stride(w, format, 0) = 8 * a
  /\ Stride(w, format, 1) = 4 * a
  /\ Stride(w, format, 2) = 4 * a
  /\ GetPitch(w, format) = 8 * a
  /\ GetChromaPitch(w, format) = 4 * a
  /\ StorageHeight(h, format) = 8 * b
  /\ GetChromaHeight(h, format) = 4 * b
  /\ Components(format) = 1
  /\ format \notin Packed

(* Each planar picture is one: its strides and heights are such multiples. *)
LEMMA PlanarParts ==
  ASSUME NEW format \in Planar, NEW w \in Nat, NEW h \in Nat
  PROVE  \E a, b \in Nat : LayoutOf(format, w, h, a, b)
<1>1. PICK a \in Nat : AlignUp(w, 8) = 8 * a /\ w <= 8 * a /\ 8 * a < w + 8
  BY AlignUp8
<1>2. PICK b \in Nat : AlignUp(h, 8) = 8 * b /\ h <= 8 * b /\ 8 * b < h + 8
  BY AlignUp8
<1>3. Half(8 * a) = 4 * a /\ Half(8 * b) = 4 * b
  BY DEF Half
<1>4. GetPitch(w, format) = 8 * a /\ GetChromaPitch(w, format) = 4 * a
  BY <1>1, <1>3 DEF GetPitch, GetWidthBytes, GetChromaPitch
<1>5. /\ Stride(w, format, 0) = 8 * a
      /\ Stride(w, format, 1) = 4 * a
      /\ Stride(w, format, 2) = 4 * a
  BY <1>1, <1>4 DEF Stride, GetWidthBytes
<1>6. StorageHeight(h, format) = 8 * b /\ GetChromaHeight(h, format) = 4 * b
  BY <1>2, <1>3 DEF StorageHeight, GetChromaHeight
<1>7. Components(format) = 1 /\ format \notin Packed
  BY DEF Components, Planar, Packed
<1> QED
  BY <1>1, <1>2, <1>4, <1>5, <1>6, <1>7 DEF LayoutOf
-----------------------------------------------------------------------------
(* GetEstimatedSize gives the same with and without strides, and it is what the
   texture holds: AllocateDataStore may compare it to the size it has. *)
THEOREM SizesAgree ==
  ASSUME NEW format \in PixelFormats, NEW w \in Nat, NEW h \in Nat
  PROVE  /\ GetEstimatedSize(w, h, format) = SizeOfStrides(w, h, format)
         /\ ActualSize(w, h, format) = SizeOfStrides(w, h, format)
<1>1. CASE format \in Planar
  <2>1. PICK a, b \in Nat : LayoutOf(format, w, h, a, b)
    BY <1>1, PlanarParts
  <2>2. SizeOfStrides(w, h, format) = 8 * a * (8 * b) + 4 * a * (4 * b) + 4 * a * (4 * b)
    BY <2>1 DEF SizeOfStrides, LayoutOf
  <2>3. GetEstimatedSize(w, h, format) = 8 * a * (8 * b + 4 * b)
    BY <1>1, <2>1 DEF GetEstimatedSize, Half, LayoutOf
  <2>4. ActualSize(w, h, format) = 8 * a * (8 * b + 4 * b)
    <3>1. TextureWidth(w, format) = 8 * a
      BY <2>1 DEF TextureWidth, LayoutOf
    <3>2. TextureHeight(h, format) = 8 * b + 4 * b
      BY <2>1 DEF TextureHeight, LayoutOf
    <3> QED
      BY <2>1, <3>1, <3>2, Z3 DEF ActualSize, LayoutOf
  <2>5. 8 * a * (8 * b + 4 * b) = 8 * a * (8 * b) + 4 * a * (4 * b) + 4 * a * (4 * b)
    BY Z3
  <2> QED
    BY <2>2, <2>3, <2>4, <2>5
<1>2. CASE format \in Packed
  <2> DEFINE n == Components(format)
  <2>1. n \in {3, 4} /\ format \notin Planar
    BY <1>2 DEF Components, Packed, Planar
  <2>2. /\ Stride(w, format, 0) = w * n
        /\ \A plane \in {1, 2} : Stride(w, format, plane) = 0
        /\ StorageHeight(h, format) = h
        /\ GetChromaHeight(h, format) = 0
    BY <2>1 DEF Stride, GetWidthBytes, GetChromaPitch, StorageHeight, GetChromaHeight
  <2>3. SizeOfStrides(w, h, format) = w * n * h
    <3>1. w * n * h \in Nat
      BY <2>1
    <3> QED
      BY <2>2, <3>1 DEF SizeOfStrides
  <2>4. GetEstimatedSize(w, h, format) = n * w * h
    BY <2>1 DEF GetEstimatedSize
  <2>5. ActualSize(w, h, format) = w * h * n
    <3>1. TextureWidth(w, format) = w
      BY <2>1, <2>2 DEF TextureWidth
    <3>2. TextureHeight(h, format) = h
      BY <2>2 DEF TextureHeight
    <3> QED
      BY <3>1, <3>2 DEF ActualSize
  <2>6. w * n * h = n * w * h /\ w * h * n = n * w * h
    BY <2>1, Z3
  <2> QED
    BY <2>3, <2>4, <2>5, <2>6
<1> QED
  BY <1>1, <1>2 DEF PixelFormats

(* The planes of a planar picture follow each other without a gap or an overlap,
   and the last one ends where the bytes of the picture do. *)
THEOREM PlanesTile ==
  ASSUME NEW w \in Nat, NEW h \in Nat
  PROVE  LET begin(format, plane) == GetPlanePointerIdx(w, h, format, plane)
             bytes(format, plane) == RowsOf(h, format, plane) * RowBytes(w, format, plane)
         IN /\ begin("IYUV", 0) = 0 /\ begin("NV12", 0) = 0
            /\ begin("IYUV", 1) = begin("IYUV", 0) + bytes("IYUV", 0)
            /\ begin("IYUV", 2) = begin("IYUV", 1) + bytes("IYUV", 1)
            /\ SizeOfStrides(w, h, "IYUV") = begin("IYUV", 2) + bytes("IYUV", 2)
            /\ begin("NV12", 1) = begin("NV12", 0) + bytes("NV12", 0)
            /\ SizeOfStrides(w, h, "NV12") = begin("NV12", 1) + bytes("NV12", 1)
<1>1. /\ GetPlanePointerIdx(w, h, "IYUV", 0) = 0
      /\ GetPlanePointerIdx(w, h, "NV12", 0) = 0
  BY DEF GetPlanePointerIdx
<1>2. PICK a, b \in Nat : LayoutOf("IYUV", w, h, a, b)
  BY PlanarParts DEF Planar
<1>3. /\ GetPlanePointerIdx(w, h, "IYUV", 1) = 64 * (a * b)
      /\ GetPlanePointerIdx(w, h, "IYUV", 2) = 64 * (a * b) + 16 * (a * b)
  <2>1. Half(4 * b) = 2 * b
    BY DEF Half
  <2>2. 8 * a * (8 * b) = 64 * (a * b) /\ 8 * a * (2 * b) = 16 * (a * b)
    BY Z3
  <2>3. GetPlanePointerIdx(w, h, "IYUV", 1) = 8 * a * (8 * b)
    BY <1>2 DEF GetPlanePointerIdx, LayoutOf
  <2>4. GetPlanePointerIdx(w, h, "IYUV", 2) = 8 * a * (8 * b) + 8 * a * (2 * b)
    BY <1>2, <2>1 DEF GetPlanePointerIdx, LayoutOf
  <2> QED
    BY <2>2, <2>3, <2>4
<1>4. /\ RowsOf(h, "IYUV", 0) * RowBytes(w, "IYUV", 0) = 64 * (a * b)
      /\ RowsOf(h, "IYUV", 1) * RowBytes(w, "IYUV", 1) = 16 * (a * b)
      /\ RowsOf(h, "IYUV", 2) * RowBytes(w, "IYUV", 2) = 16 * (a * b)
  <2>1. 8 * b * (8 * a) = 64 * (a * b) /\ 4 * b * (4 * a) = 16 * (a * b)
    BY Z3
  <2> QED
    BY <1>2, <2>1 DEF RowsOf, RowBytes, LayoutOf
<1>5. SizeOfStrides(w, h, "IYUV") = 64 * (a * b) + 16 * (a * b) + 16 * (a * b)
  <2>1. 8 * a * (8 * b) = 64 * (a * b) /\ 4 * a * (4 * b) = 16 * (a * b)
    BY Z3
  <2> QED
    BY <1>2, <2>1 DEF SizeOfStrides, LayoutOf
<1>6. PICK c, d \in Nat : LayoutOf("NV12", w, h, c, d)
  BY PlanarParts DEF Planar
<1>7. /\ GetPlanePointerIdx(w, h, "NV12", 1) = 64 * (c * d)
      /\ RowsOf(h, "NV12", 0) * RowBytes(w, "NV12", 0) = 64 * (c * d)
      /\ RowsOf(h, "NV12", 1) * RowBytes(w, "NV12", 1) = 32 * (c * d)
      /\ SizeOfStrides(w, h, "NV12") = 64 * (c * d) + 32 * (c * d)
  <2>1. /\ 8 * c * (8 * d) = 64 * (c * d) /\ 8 * d * (8 * c) = 64 * (c * d)
        /\ 4 * d * (8 * c) = 32 * (c * d) /\ 4 * c * (4 * d) = 16 * (c * d)
    BY Z3
  <2>2. GetPlanePointerIdx(w, h, "NV12", 1) = 8 * c * (8 * d)
    BY <1>6 DEF GetPlanePointerIdx, LayoutOf
  <2>3. RowsOf(h, "NV12", 0) * RowBytes(w, "NV12", 0) = 8 * d * (8 * c)
    BY <1>6 DEF RowsOf, RowBytes, LayoutOf
  <2>4. RowsOf(h, "NV12", 1) * RowBytes(w, "NV12", 1) = 4 * d * (8 * c)
    BY <1>6 DEF RowsOf, RowBytes, LayoutOf
  <2>5. SizeOfStrides(w, h, "NV12") = 8 * c * (8 * d) + 4 * c * (4 * d) + 4 * c * (4 * d)
    BY <1>6 DEF SizeOfStrides, LayoutOf
  <2> QED
    BY <2>1, <2>2, <2>3, <2>4, <2>5
<1> DEFINE I == a * b
           N == c * d
<1>8. I \in Nat /\ N \in Nat
  OBVIOUS
<1> HIDE DEF I, N
<1> QED
  BY <1>1, <1>3, <1>4, <1>5, <1>7, <1>8 DEF I, N

(* UploadData puts each row of a plane where GetPlanePointerIdx looks for it,
   though it puts two rows of the chroma planes of IYUV into one of the texture. *)
THEOREM UploadedWhereExpected ==
  ASSUME NEW format \in Planar, NEW w \in Nat, NEW h \in Nat,
         NEW plane \in Planes(format), NEW row \in 0..(RowsOf(h, format, plane) - 1)
  PROVE  UploadsTo(w, h, format, plane, row) =
           GetPlanePointerIdx(w, h, format, plane) + row * RowBytes(w, format, plane)
<1>1. PICK a, b \in Nat : LayoutOf(format, w, h, a, b)
  BY PlanarParts
<1>2. plane \in {0, 1, 2} /\ row \in Nat
  BY <1>1 DEF Planes, GetNumberOfChromaPlanes, Planar, RowsOf, LayoutOf
<1>3. CASE plane = 0
  <2>1. row * (8 * a) \in Nat
    BY <1>2
  <2> QED
    BY <1>1, <1>3, <2>1 DEF LayoutOf, UploadsTo, GetPlanePointerIdx, RowBytes
<1>4. CASE format = "NV12" /\ plane # 0
  <2>1. plane = 1
    BY <1>4 DEF Planes, GetNumberOfChromaPlanes
  <2>2. UploadsTo(w, h, format, plane, row) = (8 * b + row) * (8 * a)
    BY <1>1, <1>2, <1>4, <2>1 DEF LayoutOf, UploadsTo
  <2>3. GetPlanePointerIdx(w, h, format, plane) = 8 * a * (8 * b)
    BY <1>1, <2>1 DEF LayoutOf, GetPlanePointerIdx
  <2>4. RowBytes(w, format, plane) = 8 * a
    BY <1>1, <1>4 DEF LayoutOf, RowBytes
  <2>5. (8 * b + row) * (8 * a) = 8 * a * (8 * b) + row * (8 * a)
    BY <1>2, Z3
  <2> QED
    BY <2>2, <2>3, <2>4, <2>5
<1>5. CASE format = "IYUV" /\ plane # 0
  <2> DEFINE first == 8 * b + (IF plane = 2 THEN 2 * b ELSE 0)
  <2>1. Half(8 * a) = 4 * a /\ Half(4 * b) = 2 * b
    BY DEF Half
  <2>2. PICK q \in Nat, r \in {0, 1} : row = 2 * q + r /\ Half(row) = q /\ row % 2 = r
    <3>1. row \div 2 \in Nat /\ row % 2 \in {0, 1} /\ row = 2 * (row \div 2) + (row % 2)
      BY <1>2
    <3> QED
      BY <3>1 DEF Half
  <2>3. UploadsTo(w, h, format, plane, row) = (first + q) * (8 * a) + r * (4 * a)
    BY <1>1, <1>5, <2>1, <2>2 DEF LayoutOf, UploadsTo
  <2>4. RowBytes(w, format, plane) = 4 * a
    BY <1>1, <1>2, <1>5 DEF LayoutOf, RowBytes
  <2>5. GetPlanePointerIdx(w, h, format, plane) = 8 * a * first
    <3>1. CASE plane = 1
      BY <1>1, <3>1 DEF LayoutOf, GetPlanePointerIdx
    <3>2. CASE plane = 2
      <4>1. GetPlanePointerIdx(w, h, format, plane) = 8 * a * (8 * b) + 8 * a * (2 * b)
        BY <1>1, <1>5, <2>1, <3>2 DEF LayoutOf, GetPlanePointerIdx
      <4>2. 8 * a * (8 * b) + 8 * a * (2 * b) = 8 * a * (8 * b + 2 * b)
        BY Z3
      <4> QED
        BY <3>2, <4>1, <4>2
    <3> QED
      BY <1>2, <1>5, <3>1, <3>2
  <2>6. first \in Nat
    OBVIOUS
  <2> HIDE DEF first
  <2>7. (first + q) * (8 * a) + r * (4 * a) = 8 * a * first + (2 * q + r) * (4 * a)
    BY <2>6, Z3
  <2> QED
    BY <2>2, <2>3, <2>4, <2>5, <2>7
<1> QED
  BY <1>3, <1>4, <1>5 DEF Planar

(* GetChromaOffsets says the same as GetPlanePointerIdx only when the height is a
   multiple of 8: it counts rows that are shown, not rows that are stored. *)
THEOREM ChromaOffsetsOfAlignedHeight ==
  ASSUME NEW format \in Planar, NEW w \in Nat \ {0}, NEW h \in Nat
  PROVE  GetChromaOffsets(w, h, format)[1] = GetPlanePointerIdx(w, h, format, 1)
           <=> AlignUp(h, 8) = h
<1>1. PICK a, b \in Nat : LayoutOf(format, w, h, a, b)
  BY PlanarParts
<1>2. a > 0
  BY <1>1 DEF LayoutOf
<1>3. GetChromaOffsets(w, h, format)[1] = 8 * a * h
  BY <1>1 DEF GetChromaOffsets, LayoutOf, Planar
<1>4. GetPlanePointerIdx(w, h, format, 1) = 8 * a * (8 * b)
  BY <1>1 DEF GetPlanePointerIdx, LayoutOf
<1>5. 8 * a * h = 8 * a * (8 * b) <=> h = 8 * b
  <2>1. PICK d \in Nat : 8 * b = h + d
    <3>1. 8 * b - h \in Nat
      BY <1>1 DEF LayoutOf
    <3> QED
      BY <3>1
  <2>2. 8 * a * (8 * b) = 8 * a * h + 8 * (a * d)
    BY <2>1, Z3
  <2>3. a * d = 0 <=> d = 0
    BY <1>2, Z3
  <2>4. 8 * a * h \in Nat /\ a * d \in Nat
    OBVIOUS
  <2> QED
    BY <2>1, <2>2, <2>3, <2>4
<1> QED
  BY <1>1, <1>3, <1>4, <1>5 DEF LayoutOf

(* The row of VideoToolbox is another one of the frame from the second row of the
   chroma of NV12 on: the stride is that of a plane of IYUV, half as long. *)
THEOREM VideoToolboxMisreadsNV12 ==
  ASSUME NEW w \in Nat \ {0}, NEW h \in Nat, NEW row \in Nat \ {0}
  PROVE  VideoToolboxReads(w, h, "NV12", 1, row) # UploadsTo(w, h, "NV12", 1, row)
<1>1. PICK a, b \in Nat : LayoutOf("NV12", w, h, a, b)
  BY PlanarParts DEF Planar
<1>2. a > 0
  BY <1>1 DEF LayoutOf
<1>3. VideoToolboxReads(w, h, "NV12", 1, row) = 8 * a * (8 * b) + row * (4 * a)
  BY <1>1 DEF LayoutOf, VideoToolboxReads, GetPlanePointerIdx
<1>4. UploadsTo(w, h, "NV12", 1, row) = (8 * b + row) * (8 * a)
  BY <1>1 DEF LayoutOf, UploadsTo
<1>5. (8 * b + row) * (8 * a) = 8 * a * (8 * b) + row * (4 * a) + 4 * (row * a)
  BY Z3
<1>6. row * a > 0 /\ row * a \in Nat
  BY <1>2, Z3
<1>7. 8 * a * (8 * b) \in Nat /\ row * (4 * a) \in Nat
  OBVIOUS
<1> QED
  BY <1>3, <1>4, <1>5, <1>6, <1>7

(* Two sizes may need as many bytes and not the same texture: AllocateDataStore,
   which keeps the texture when the number of bytes is right, keeps one of the
   wrong shape when width and height are exchanged. *)
THEOREM SizeDoesNotTellShape ==
  ASSUME NEW format \in Planar, NEW w \in Nat, NEW h \in Nat,
         AlignUp(w, 8) # AlignUp(h, 8)
  PROVE  /\ SizeOfStrides(w, h, format) = SizeOfStrides(h, w, format)
         /\ TextureWidth(w, format) # TextureWidth(h, format)
<1>1. PICK a, b \in Nat : LayoutOf(format, w, h, a, b)
  BY PlanarParts
<1>2. PICK c, d \in Nat : LayoutOf(format, h, w, c, d)
  BY PlanarParts
<1>3. c = b /\ d = a /\ a # b
  BY <1>1, <1>2 DEF LayoutOf
<1>4. SizeOfStrides(w, h, format) = 8 * a * (8 * b) + 4 * a * (4 * b) + 4 * a * (4 * b)
  BY <1>1 DEF LayoutOf, SizeOfStrides
<1>5. SizeOfStrides(h, w, format) = 8 * b * (8 * a) + 4 * b * (4 * a) + 4 * b * (4 * a)
  BY <1>2, <1>3 DEF LayoutOf, SizeOfStrides
<1>6. 8 * a * (8 * b) = 8 * b * (8 * a) /\ 4 * a * (4 * b) = 4 * b * (4 * a)
  BY Z3
<1>7. TextureWidth(w, format) = 8 * a /\ TextureWidth(h, format) = 8 * b
  BY <1>1, <1>2, <1>3 DEF LayoutOf, TextureWidth
<1> QED
  BY <1>3, <1>4, <1>5, <1>6, <1>7
-----------------------------------------------------------------------------
(* The image of libvpx and the copy into it. *)

(* The image has as many bytes to a row as the frame: both are rounded to 8. *)
LEMMA VpxRows ==
  ASSUME NEW format \in Planar, NEW w \in Nat, NEW h \in Nat, NEW a \in Nat, NEW b \in Nat,
         LayoutOf(format, w, h, a, b)
  PROVE  /\ VpxStride(w, format, 0) = 8 * a
         /\ format = "NV12" => VpxStride(w, format, 1) = 8 * a
         /\ format = "IYUV" => \A plane \in {1, 2} : VpxStride(w, format, plane) = 4 * a
<1>1. AlignUp(AlignUp(w, 2), 8) = 8 * a
  <2>1. PICK m \in Nat : /\ AlignUp(w, 2) = 2 * m
                         /\ w <= 2 * m /\ 2 * m <= 8 * a
    BY AlignUp2 DEF LayoutOf
  <2>2. PICK k \in Nat : AlignUp(2 * m, 8) = 8 * k /\ 2 * m <= 8 * k /\ 8 * k < 2 * m + 8
    BY AlignUp8
  <2>3. k = a
    BY <2>1, <2>2 DEF LayoutOf
  <2> QED
    BY <2>1, <2>2, <2>3
<1>2. Half(8 * a) = 4 * a
  BY DEF Half
<1> QED
  BY <1>1, <1>2 DEF VpxStride, LayoutOf, Planar

(* The image has enough rows for the picture, and no more than the frame stores. *)
LEMMA VpxHeights ==
  ASSUME NEW format \in Planar, NEW w \in Nat, NEW h \in Nat, NEW a \in Nat, NEW b \in Nat,
         LayoutOf(format, w, h, a, b)
  PROVE  \E m \in Nat : VpxHeight(h) = 2 * m /\ Half(VpxHeight(h)) = m
                        /\ h <= 2 * m /\ m <= 4 * b
<1>1. PICK m \in Nat : AlignUp(h, 2) = 2 * m /\ h <= 2 * m /\ 2 * m <= 8 * b
  BY AlignUp2 DEF LayoutOf
<1>2. Half(2 * m) = m /\ m <= 4 * b
  BY <1>1 DEF Half
<1> QED
  BY <1>1, <1>2 DEF VpxHeight

(* EncodeInternal copies each plane as one block of bytes.  For every size that
   is the same rows at the same length on both sides, it stays in the frame's
   bytes and in the plane of the image, and all rows of the picture are in it. *)
THEOREM CopyFillsImage ==
  ASSUME NEW format \in Planar, NEW w \in Nat, NEW h \in Nat, NEW plane \in Planes(format)
  PROVE  LET copied == CopiedBytes(w, h, format, plane)
             rows == IF plane = 0 THEN VpxHeight(h) ELSE Half(VpxHeight(h))
             end == IF plane = GetNumberOfChromaPlanes(format)
                    THEN VpxSize(w, h, format) ELSE VpxPlane(w, h, format, plane + 1)
         IN /\ VpxStride(w, format, plane) = RowBytes(w, format, plane)
            /\ copied = rows * RowBytes(w, format, plane)
            /\ VpxHeight(h) >= h
            /\ GetPlanePointerIdx(w, h, format, plane) + copied <= ActualSize(w, h, format)
            /\ VpxPlane(w, h, format, plane) + copied = end
<1>1. PICK a, b \in Nat : LayoutOf(format, w, h, a, b)
  BY PlanarParts
<1>2. PICK m \in Nat : /\ VpxHeight(h) = 2 * m /\ Half(VpxHeight(h)) = m
                       /\ h <= 2 * m /\ m <= 4 * b
  BY <1>1, VpxHeights
<1> DEFINE I == a * b
           M == a * m
<1>3. I \in Nat /\ M \in Nat /\ M <= 4 * I
  <2>1. a * m <= a * (4 * b)
    BY <1>2, Monotonic
  <2>2. a * (4 * b) = 4 * (a * b)
    BY Z3
  <2> QED
    BY <2>1, <2>2
<1>4. plane \in {0, 1, 2} /\ (format = "NV12" => plane # 2)
  BY DEF Planes, GetNumberOfChromaPlanes, Planar
<1>5. ActualSize(w, h, format) = 96 * I
  <2>1. SizeOfStrides(w, h, format) = 8 * a * (8 * b) + 4 * a * (4 * b) + 4 * a * (4 * b)
    BY <1>1 DEF LayoutOf, SizeOfStrides
  <2>2. 8 * a * (8 * b) = 64 * (a * b) /\ 4 * a * (4 * b) = 16 * (a * b)
    BY Z3
  <2>3. format \in PixelFormats
    BY DEF PixelFormats
  <2> QED
    BY <2>1, <2>2, <2>3, <1>3, SizesAgree
<1>6. VpxSize(w, h, format) = 24 * M
  <2>1. VpxStride(w, format, 0) = 8 * a
    BY <1>1, VpxRows
  <2>2. 2 * m * (8 * a) * 12 = 8 * (24 * (a * m))
    BY Z3
  <2>3. (8 * (24 * M)) \div 8 = 24 * M
    BY <1>3
  <2> QED
    BY <1>2, <2>1, <2>2, <2>3 DEF VpxSize
<1>7. GetPlanePointerIdx(w, h, format, 0) = 0
  BY DEF GetPlanePointerIdx
<1>8. GetPlanePointerIdx(w, h, format, 1) = 64 * I
  <2>1. GetPlanePointerIdx(w, h, format, 1) = 8 * a * (8 * b)
    BY <1>1 DEF LayoutOf, GetPlanePointerIdx
  <2>2. 8 * a * (8 * b) = 64 * (a * b)
    BY Z3
  <2> QED
    BY <2>1, <2>2
<1>9. VpxPlane(w, h, format, 0) = 0 /\ VpxPlane(w, h, format, 1) = 16 * M
  <2>1. VpxStride(w, format, 0) = 8 * a
    BY <1>1, VpxRows
  <2>2. 2 * m * (8 * a) = 16 * (a * m)
    BY Z3
  <2> QED
    BY <1>2, <2>1, <2>2 DEF VpxPlane
<1>10. CASE plane = 0
  <2>1. VpxStride(w, format, 0) = 8 * a /\ RowBytes(w, format, 0) = 8 * a
    BY <1>1, VpxRows DEF RowBytes, LayoutOf
  <2>2. CopiedBytes(w, h, format, 0) = 8 * a * (2 * m)
    BY <1>2, <2>1 DEF CopiedBytes
  <2>3. 8 * a * (2 * m) = 16 * (a * m) /\ 2 * m * (8 * a) = 16 * (a * m)
    BY Z3
  <2>4. GetNumberOfChromaPlanes(format) # 0
    BY DEF GetNumberOfChromaPlanes, Planar
  <2> HIDE DEF I, M
  <2> QED
    BY <1>2, <1>3, <1>5, <1>7, <1>9, <1>10, <2>1, <2>2, <2>3, <2>4 DEF M
<1>11. CASE format = "NV12" /\ plane = 1
  <2>1. VpxStride(w, format, 1) = 8 * a /\ RowBytes(w, format, 1) = 8 * a
    BY <1>1, <1>11, VpxRows DEF RowBytes, LayoutOf
  <2>2. CopiedBytes(w, h, format, 1) = Half(8 * a * (2 * m))
    BY <1>2, <2>1 DEF CopiedBytes
  <2>3. 8 * a * (2 * m) = 2 * (8 * (a * m)) /\ m * (8 * a) = 8 * (a * m)
    BY Z3
  <2>4. Half(2 * (8 * M)) = 8 * M
    BY <1>3 DEF Half
  <2>5. GetNumberOfChromaPlanes(format) = 1
    BY <1>11 DEF GetNumberOfChromaPlanes
  <2>6. CopiedBytes(w, h, format, 1) = 8 * M
    BY <2>2, <2>3, <2>4
  <2> HIDE DEF I, M
  <2> QED
    BY <1>2, <1>3, <1>5, <1>6, <1>8, <1>9, <1>11, <2>1, <2>3, <2>5, <2>6 DEF M
<1>12. CASE format = "IYUV" /\ plane \in {1, 2}
  <2>1. VpxStride(w, format, plane) = 4 * a /\ RowBytes(w, format, plane) = 4 * a
    BY <1>1, <1>12, VpxRows DEF RowBytes, LayoutOf
  <2>2. CopiedBytes(w, h, format, plane) = Half(4 * a * (2 * m))
    BY <1>2, <1>12, <2>1 DEF CopiedBytes
  <2>3. 4 * a * (2 * m) = 2 * (4 * (a * m)) /\ m * (4 * a) = 4 * (a * m)
    BY Z3
  <2>4. Half(2 * (4 * M)) = 4 * M
    BY <1>3 DEF Half
  <2>5. CopiedBytes(w, h, format, plane) = 4 * M
    BY <2>2, <2>3, <2>4
  <2>6. GetNumberOfChromaPlanes(format) = 2
    BY <1>12 DEF GetNumberOfChromaPlanes
  <2>7. GetPlanePointerIdx(w, h, format, 2) = 80 * I
    <3>1. Half(4 * b) = 2 * b
      BY DEF Half
    <3>2. GetPlanePointerIdx(w, h, format, 2) = 8 * a * (8 * b) + 8 * a * (2 * b)
      BY <1>1, <1>12, <3>1 DEF LayoutOf, GetPlanePointerIdx
    <3>3. 8 * a * (8 * b) = 64 * (a * b) /\ 8 * a * (2 * b) = 16 * (a * b)
      BY Z3
    <3> QED
      BY <1>3, <3>2, <3>3
  <2>8. VpxPlane(w, h, format, 2) = 20 * M
    <3>1. VpxStride(w, format, 0) = 8 * a /\ VpxStride(w, format, 1) = 4 * a
      BY <1>1, <1>12, VpxRows
    <3>2. VpxPlane(w, h, format, 2) = 2 * m * (8 * a) + m * (4 * a)
      BY <1>2, <3>1 DEF VpxPlane
    <3>3. 2 * m * (8 * a) = 16 * (a * m) /\ m * (4 * a) = 4 * (a * m)
      BY Z3
    <3> QED
      BY <1>3, <3>2, <3>3
  <2> HIDE DEF I, M
  <2>9. CASE plane = 1
    BY <1>2, <1>3, <1>5, <1>8, <1>9, <2>1, <2>3, <2>5, <2>6, <2>8, <2>9 DEF M
  <2>10. CASE plane = 2
    BY <1>2, <1>3, <1>5, <1>6, <2>1, <2>3, <2>5, <2>6, <2>7, <2>8, <2>10 DEF M
  <2> QED
    BY <1>12, <2>9, <2>10
<1> QED
  BY <1>4, <1>10, <1>11, <1>12 DEF Planar

(* A picture of up to 8 * k by 8 * k pixels, of any format, takes at most
   256 * k * k bytes: one of up to 16384 by 16384 at most 2^30, so that no int
   of the code overflows. *)
THEOREM NothingOverflows ==
  ASSUME NEW format \in PixelFormats, NEW w \in Nat, NEW h \in Nat, NEW k \in Nat,
         w <= 8 * k, h <= 8 * k
  PROVE  SizeOfStrides(w, h, format) <= 256 * (k * k)
<1>1. k * k \in Nat
  OBVIOUS
<1>2. CASE format \in Planar
  <2>1. PICK a, b \in Nat : LayoutOf(format, w, h, a, b)
    BY <1>2, PlanarParts
  <2>2. a <= k /\ b <= k
    BY <2>1 DEF LayoutOf
  <2>3. a * b <= k * k
    <3>1. a * b <= a * k
      BY <2>2, Monotonic
    <3>2. k * a <= k * k
      BY <2>2, Monotonic
    <3>3. a * k = k * a /\ a * b \in Nat /\ a * k \in Nat
      BY Z3
    <3> QED
      BY <1>1, <3>1, <3>2, <3>3
  <2>4. SizeOfStrides(w, h, format) = 8 * a * (8 * b) + 4 * a * (4 * b) + 4 * a * (4 * b)
    BY <2>1 DEF LayoutOf, SizeOfStrides
  <2>5. 8 * a * (8 * b) = 64 * (a * b) /\ 4 * a * (4 * b) = 16 * (a * b) /\ a * b \in Nat
    BY Z3
  <2> DEFINE ab == a * b
             kk == k * k
  <2>6. ab \in Nat /\ kk \in Nat /\ ab <= kk
    BY <1>1, <2>3, <2>5
  <2>7. SizeOfStrides(w, h, format) = 96 * ab
    <3> HIDE DEF ab
    <3>1. SizeOfStrides(w, h, format) = 64 * ab + 16 * ab + 16 * ab
      BY <2>4, <2>5 DEF ab
    <3> QED
      BY <2>6, <3>1
  <2>8. SizeOfStrides(w, h, format) <= 256 * kk
    <3> HIDE DEF ab, kk
    <3> QED
      BY <2>6, <2>7
  <2> QED
    BY <2>8
<1>3. CASE format \in Packed
  <2> DEFINE n == Components(format)
  <2>1. n \in {3, 4} /\ format \notin Planar
    BY <1>3 DEF Components, Packed, Planar
  <2>2. SizeOfStrides(w, h, format) = n * w * h
    BY <2>1, SizesAgree DEF GetEstimatedSize
  <2>3. w * h <= 64 * (k * k) /\ w * h \in Nat
    <3>1. w * h <= w * (8 * k) /\ w * h \in Nat
      BY Monotonic
    <3>2. 8 * k * w <= 8 * k * (8 * k)
      BY Monotonic
    <3>3. w * (8 * k) = 8 * k * w /\ 8 * k * (8 * k) = 64 * (k * k) /\ 8 * k * w \in Nat
      BY Z3
    <3> QED
      BY <1>1, <3>1, <3>2, <3>3
  <2> DEFINE wh == w * h
             kk == k * k
  <2>4. n * w * h = n * wh
    <3> HIDE DEF n
    <3> QED
      BY <2>1, Z3
  <2>5. n * wh <= 4 * wh
    <3>1. wh \in Nat
      BY <2>3
    <3> HIDE DEF wh, n
    <3> QED
      BY <2>1, <3>1
  <2>6. 4 * wh <= 256 * kk /\ n * wh \in Nat
    <3>1. wh \in Nat /\ kk \in Nat /\ wh <= 64 * kk
      BY <1>1, <2>3
    <3> HIDE DEF wh, kk, n
    <3> QED
      BY <2>1, <3>1
  <2>7. n * wh <= 256 * kk
    <3>1. wh \in Nat /\ kk \in Nat
      BY <1>1, <2>3
    <3> HIDE DEF wh, kk, n
    <3> QED
      BY <2>5, <2>6, <3>1
  <2> QED
    BY <2>2, <2>4, <2>7
<1> QED
  BY <1>2, <1>3 DEF PixelFormats
=============================================================================

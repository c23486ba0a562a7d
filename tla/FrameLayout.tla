---------------------------- MODULE FrameLayout -----------------------------
(***************************************************************************)
(* Where the bytes of a picture are: the sizes, strides and plane offsets  *)
(* of vtkRawVideoFrame, the texture that vtkOpenGLVideoFrame keeps them    *)
(* in, and the image of libvpx that vtkVpxEncoder copies them to.  All     *)
(* arithmetic here is of naturals: see NothingOverflows for its range.     *)
(***************************************************************************)
EXTENDS Integers, Sequences

Planar == {"IYUV", "NV12"}
Packed == {"RGB24", "RGBA32"}
PixelFormats == Planar \cup Packed

AlignUp(value, bytes) == ((value + bytes - 1) \div bytes) * bytes
Half(value) == value \div 2

Components(format) ==
  IF format = "RGBA32" THEN 4 ELSE IF format = "RGB24" THEN 3 ELSE 1

GetWidthBytes(w, format) ==
  IF format \in Planar THEN AlignUp(w, 8) ELSE w * Components(format)

GetPitch(w, format) == GetWidthBytes(w, format)

GetChromaPitch(w, format) ==
  IF format \in Planar THEN Half(GetPitch(w, format)) ELSE 0

GetChromaHeight(h, format) ==
  IF format \in Planar THEN Half(AlignUp(h, 8)) ELSE 0

GetNumberOfChromaPlanes(format) ==
  IF format = "IYUV" THEN 2 ELSE IF format = "NV12" THEN 1 ELSE 0

GetChromaOffsets(w, h, format) ==
  LET first == GetPitch(w, format) * h
      second == first + GetChromaPitch(w, format) * GetChromaHeight(h, format)
  IN IF format = "IYUV" THEN <<first, second>>
     ELSE IF format = "NV12" THEN <<first>>
     ELSE <<>>

(* ComputeDefaultStrides; planes are counted from 0. *)
Stride(w, format, plane) ==
  IF plane = 0 THEN GetWidthBytes(w, format) ELSE GetChromaPitch(w, format)

StorageHeight(h, format) == IF format \in Planar THEN AlignUp(h, 8) ELSE h

GetPlanePointerIdx(w, h, format, plane) ==
  LET luma == Stride(w, format, 0) * StorageHeight(h, format)
      half == Stride(w, format, 0) * Half(GetChromaHeight(h, format))
  IN IF format \in Packed \/ plane = 0 THEN 0
     ELSE IF plane = 1 \/ format # "IYUV" THEN luma
     ELSE luma + half

(* GetEstimatedSize, without strides and with the default ones. *)
GetEstimatedSize(w, h, format) ==
  IF format \in Planar
  THEN AlignUp(w, 8) * (AlignUp(h, 8) + Half(AlignUp(h, 8)))
  ELSE Components(format) * w * h

SizeOfStrides(w, h, format) ==
  Stride(w, format, 0) * StorageHeight(h, format)
  + Stride(w, format, 1) * GetChromaHeight(h, format)
  + Stride(w, format, 2) * GetChromaHeight(h, format)
-----------------------------------------------------------------------------
(* The texture: one byte for each component of a texel. *)

TextureWidth(w, format) == Stride(w, format, 0) \div Components(format)
TextureHeight(h, format) == StorageHeight(h, format) + GetChromaHeight(h, format)
ActualSize(w, h, format) ==
  TextureWidth(w, format) * TextureHeight(h, format) * Components(format)

(* Where UploadData puts the given row of a plane, by the row and the column
   of the texture that it starts at: two rows of IYUV's chroma share one. *)
UploadsTo(w, h, format, plane, row) ==
  LET width == Stride(w, format, 0)
      first == StorageHeight(h, format)
               + (IF plane = 2 THEN Half(GetChromaHeight(h, format)) ELSE 0)
  IN IF plane = 0 THEN row * width
     ELSE IF format = "NV12" THEN (first + row) * width
     ELSE (first + Half(row)) * width + (row % 2) * Half(width)

RowsOf(h, format, plane) ==
  IF plane = 0 THEN StorageHeight(h, format) ELSE GetChromaHeight(h, format)
RowBytes(w, format, plane) ==
  IF plane = 0 \/ format = "NV12" THEN Stride(w, format, 0) ELSE Stride(w, format, plane)
-----------------------------------------------------------------------------
(* The image that vpx_img_alloc makes of the size and format of the encoder,
   with lines aligned to 8 bytes. *)

VpxStride(w, format, plane) ==
  LET luma == AlignUp(IF format = "IYUV" THEN AlignUp(w, 2) ELSE w, 8)
  IN IF plane = 0 \/ format = "NV12" THEN luma ELSE Half(luma)

VpxHeight(h) == AlignUp(h, 2)
VpxSize(w, h, format) == (VpxHeight(h) * VpxStride(w, format, 0) * 12) \div 8

VpxPlane(w, h, format, plane) ==
  LET luma == VpxHeight(h) * VpxStride(w, format, 0)
      chroma == Half(VpxHeight(h)) * VpxStride(w, format, 1)
  IN IF plane = 0 THEN 0 ELSE IF plane = 1 THEN luma ELSE luma + chroma

(* EncodeInternal copies this many bytes of each plane. *)
CopiedBytes(w, h, format, plane) ==
  LET all == VpxStride(w, format, plane) * VpxHeight(h)
  IN IF plane = 0 THEN all ELSE Half(all)

(* The VideoToolbox encoder takes the row of a plane of the frame from here. *)
VideoToolboxReads(w, h, format, plane, row) ==
  GetPlanePointerIdx(w, h, format, plane) + row * Stride(w, format, plane)

Planes(format) == 0..GetNumberOfChromaPlanes(format)
=============================================================================

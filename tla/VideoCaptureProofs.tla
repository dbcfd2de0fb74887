------------------------- MODULE VideoCaptureProofs -------------------------
(***************************************************************************)
(* Proofs about VideoCapture, for every frame length, sync length and      *)
(* buffer size its assumptions allow.  TypeOK is inductive by itself, and  *)
(* CaptureInv on top of it.                                                *)
(***************************************************************************)
EXTENDS VideoCapture, TLAPS

USE DEF vars, mainVars, resetVars, xoseraVars, histVars
USE DEF FrameNumbers, Places, Indices, SyncStart

-----------------------------------------------------------------------------
(* The index.                                                              *)

\* The index wraps at the end of the buffer and nowhere else.
LEMMA NextIndexValue ==
  ASSUME NEW i \in Indices
  PROVE /\ NextIndex(i) \in Indices
        /\ i + 1 < PixelsSize => NextIndex(i) = i + 1
BY FrameAssumption DEF NextIndex

\* A pixel is written inside the buffer.
LEMMA WriteIndexInside ==
  ASSUME TypeOK
  PROVE WriteIndex \in Indices
BY FrameAssumption DEF TypeOK, WriteIndex

\* What is written is a pixel.
LEMMA RgbIsPixel ==
  ASSUME TypeOK
  PROVE VgaRgb \in Pixels
BY DEF TypeOK, VgaRgb, Pixels

-----------------------------------------------------------------------------
(* Types.                                                                  *)

\* The flag of the sync and the beam keep their types.
LEMMA FlagTypes ==
  ASSUME TypeOK, Next
  PROVE was_vsync' \in BOOLEAN /\ drawing' \in BOOLEAN
<1>1. was_vsync' = TRUE \/ was_vsync' = FALSE \/ was_vsync' = was_vsync
  BY DEF Next, Iteration, Capture
<1>2. drawing' = TRUE \/ drawing' = FALSE \/ drawing' = drawing
  BY DEF Next, Iteration, XoseraEdge, HeldInReset, StartDrawing, DrawOn
<1> QED
  BY <1>1, <1>2, Zenon DEF TypeOK

\* Every step keeps TypeOK.
LEMMA TypeStep ==
  ASSUME TypeOK, [Next]_vars
  PROVE TypeOK'
<1>1. CASE Next
  <2>1. pixels' \in [Indices -> Pixels]
    BY <1>1, WriteIndexInside, RgbIsPixel DEF TypeOK, Next, Iteration, Capture
  <2>2. texture' \in [Indices -> Pixels]
    BY <1>1, <2>1 DEF TypeOK, Next, Iteration, Capture
  <2>3. pixel_index' \in Indices
    BY <1>1, WriteIndexInside, NextIndexValue DEF Next, Iteration, Capture
  <2>4. was_vsync' \in BOOLEAN /\ drawing' \in BOOLEAN
    BY <1>1, FlagTypes
  <2>5. reset' \in {0, 1} /\ resets' \in 0..MaxResets
    BY <1>1, ResetsAssumption DEF TypeOK, Next, Iteration, ResetLine
  <2>6. beam' \in Places /\ frame' \in 0..2 /\ vga_vsync' \in {0, 1}
    BY <1>1, FrameAssumption
    DEF TypeOK, Next, Iteration, XoseraEdge, HeldInReset, StartDrawing,
        DrawOn, VsyncAt
  <2>7. aligned' \in 0..2 /\ taken' \in 0..2
    BY <1>1 DEF TypeOK, Next, Iteration, History, TakenNow
  <2> QED
    BY <2>1, <2>2, <2>3, <2>4, <2>5, <2>6, <2>7 DEF TypeOK
<1>2. CASE UNCHANGED vars
  BY <1>2 DEF TypeOK
<1> QED
  BY <1>1, <1>2

\* main never writes outside the buffer it captures a frame in.
THEOREM CaptureTypes == Spec => []TypeOK
<1>1. Init => TypeOK
  <2> SUFFICES ASSUME Init
               PROVE TypeOK
    OBVIOUS
  <2>1. pixel_index \in Indices /\ beam \in Places
    BY FrameAssumption DEF Init
  <2>2. pixels \in [Indices -> Pixels] /\ texture \in [Indices -> Pixels]
    BY DEF Init, Pixels
  <2>3. was_vsync \in BOOLEAN /\ drawing \in BOOLEAN
    BY DEF Init
  <2> QED
    BY <2>1, <2>2, <2>3, ResetsAssumption DEF Init, TypeOK
<1>2. TypeOK /\ [Next]_vars => TypeOK'
  BY TypeStep
<1> QED
  BY <1>1, <1>2, PTL DEF Spec

-----------------------------------------------------------------------------
(* The invariant.                                                          *)

\* Once aligned, a pixel goes where the beam is.
LEMMA WritesAtBeam ==
  ASSUME TypeOK, CaptureInv, aligned >= 1
  PROVE WriteIndex = beam /\ VgaRgb = <<beam, frame>>
BY FrameAssumption
DEF TypeOK, CaptureInv, Aligned, WriteIndex, SyncEnded, VsyncAt, VgaRgb

\* The picture is taken at the first pixel of the sync.
LEMMA TakesAtSync ==
  ASSUME TypeOK, CaptureInv, aligned >= 1
  PROVE SyncBegins <=> beam = SyncStart
BY FrameAssumption
DEF TypeOK, CaptureInv, Aligned, SyncBegins, VsyncAt

\* The pixel is added to those of the frame.
LEMMA FrameGrows ==
  ASSUME TypeOK, CaptureInv, aligned >= 1, Capture
  PROVE /\ \A i \in Places : i <= beam => pixels'[i] = <<i, frame>>
        /\ aligned = 2 =>
             \A i \in Places : i > beam => pixels'[i] = <<i, (frame + 2) % 3>>
<1>1. pixels' = [pixels EXCEPT ![beam] = <<beam, frame>>]
  BY WritesAtBeam DEF Capture
<1>2. Places \subseteq Indices
  BY FrameAssumption
<1> QED
  BY <1>1, <1>2, FrameAssumption DEF TypeOK, CaptureInv, Aligned

\* While the output is low the next flag is up, and otherwise down.
LEMMA FlagFollows ==
  ASSUME TypeOK, Capture
  PROVE was_vsync' <=> vga_vsync = 0
<1>1. CASE SyncBegins
  <2>1. was_vsync' = TRUE
    BY <1>1 DEF Capture
  <2>2. vga_vsync = 0
    BY <1>1 DEF SyncBegins
  <2> QED
    BY <2>1, <2>2, Zenon
<1>2. CASE ~SyncBegins /\ SyncEnded
  <2>1. was_vsync' = FALSE
    BY <1>2 DEF Capture
  <2>2. ~(vga_vsync = 0)
    BY <1>2 DEF SyncEnded
  <2> QED
    BY <2>1, <2>2, Zenon
<1>3. CASE ~SyncBegins /\ ~SyncEnded
  <2>1. was_vsync' = was_vsync
    BY <1>3 DEF Capture
  <2>2. vga_vsync = 0 \/ vga_vsync = 1
    BY DEF TypeOK
  <2>3. was_vsync <=> vga_vsync = 0
    BY <1>3, <2>2, Zenon DEF SyncBegins, SyncEnded
  <2> QED
    BY <2>1, <2>3, Zenon
<1> QED
  BY <1>1, <1>2, <1>3

\* Every step keeps CaptureInv.
LEMMA InvStep ==
  ASSUME TypeOK, CaptureInv, [Next]_vars
  PROVE CaptureInv'
<1>1. CASE HeldInReset /\ Next
  BY <1>1 DEF CaptureInv, HeldInReset, Next, Iteration, History
<1>2. CASE StartDrawing /\ Next
  BY <1>2 DEF CaptureInv, StartDrawing, Next, Iteration, History, FrameBegins
<1>3. CASE DrawOn /\ Next /\ aligned = 0
  <2>1. drawing' /\ vga_vsync' = VsyncAt(beam)'
    BY <1>3 DEF DrawOn, VsyncAt
  <2>2. CASE beam' # 0
    BY <1>3, <2>1, <2>2
    DEF CaptureInv, Next, Iteration, History, FrameBegins
  <2>3. CASE beam' = 0
    <3>1. beam = FrameLen - 1
      BY <1>3, <2>3 DEF DrawOn, TypeOK
    <3>2. vga_vsync = 0
      BY <1>3, <3>1, FrameAssumption DEF DrawOn, CaptureInv, VsyncAt
    <3>3. was_vsync'
      BY <1>3, <3>2, FlagFollows, Zenon DEF Next, Iteration
    <3>4. taken' = 0 /\ aligned' = 1
      BY <1>3, <2>1, <2>3
      DEF Next, Iteration, History, FrameBegins, DrawOn
    <3> QED
      BY <2>1, <2>3, <3>3, <3>4, FrameAssumption DEF CaptureInv, Aligned
  <2> QED
    BY <2>2, <2>3
<1>4. CASE DrawOn /\ Next /\ aligned >= 1
  <2> USE DEF Next, Iteration
  <2>1. drawing' /\ vga_vsync' = VsyncAt(beam)'
    BY <1>4 DEF DrawOn, VsyncAt
  <2>2. /\ \A i \in Places : i <= beam => pixels'[i] = <<i, frame>>
        /\ aligned = 2 =>
             \A i \in Places : i > beam => pixels'[i] = <<i, (frame + 2) % 3>>
    BY <1>4, FrameGrows
  <2>3. CASE beam = FrameLen - 1
    <3>1. beam' = 0 /\ frame' = (frame + 1) % 3
      BY <1>4, <2>3 DEF DrawOn
    <3>2. was_vsync'
      <4>1. vga_vsync = 0
        BY <1>4, <2>3, FrameAssumption DEF DrawOn, CaptureInv, VsyncAt
      <4> QED
        BY <1>4, <4>1, FlagFollows, Zenon
    <3>3. taken' = 0 /\ aligned' = 2
      BY <1>4, <2>1, <3>1 DEF History, FrameBegins, TypeOK, DrawOn
    <3>4. frame = (frame' + 2) % 3
      BY <3>1 DEF TypeOK
    <3>5. \A i \in Places : pixels'[i] = <<i, (frame' + 2) % 3>>
      BY <2>2, <2>3, <3>4, FrameAssumption
    <3> QED
      BY <2>1, <3>1, <3>2, <3>3, <3>5, FrameAssumption
      DEF CaptureInv, Aligned
  <2>4. CASE beam # FrameLen - 1
    <3>1. beam' = beam + 1 /\ frame' = frame
      BY <1>4, <2>4 DEF DrawOn, TypeOK
    <3>2. pixel_index' = beam'
      BY <1>4, <2>4, <3>1, WritesAtBeam, NextIndexValue, FrameAssumption
      DEF Capture, TypeOK
    <3>3. was_vsync' <=> beam' > SyncStart
      <4>1. vga_vsync = 0 <=> beam' > SyncStart
        BY <1>4, <3>1, FrameAssumption DEF DrawOn, CaptureInv, VsyncAt, TypeOK
      <4> QED
        BY <1>4, <4>1, FlagFollows, Zenon
    <3>4. taken' = IF beam' > SyncStart THEN 1 ELSE 0
      BY <1>4, <2>1, <3>1, TakesAtSync, FrameAssumption
      DEF CaptureInv, Aligned, History, TakenNow, FrameBegins, TypeOK
    <3>5. aligned' = aligned
      BY <1>4, <2>1, <3>1 DEF History, FrameBegins, TypeOK
    <3>6. \A i \in Places : i < beam' => pixels'[i] = <<i, frame'>>
      BY <2>2, <3>1 DEF TypeOK
    <3>7. aligned' = 2 =>
            \A i \in Places : i >= beam' => pixels'[i] = <<i, (frame' + 2) % 3>>
      BY <2>2, <3>1, <3>5 DEF TypeOK
    <3>8. beam' # 0
      BY <3>1 DEF TypeOK
    <3> QED
      BY <2>1, <3>2, <3>3, <3>4, <3>6, <3>7, <3>8 DEF CaptureInv, Aligned
  <2> QED
    BY <2>3, <2>4
<1>5. CASE UNCHANGED vars
  BY <1>5 DEF CaptureInv, Aligned, VsyncAt
<1> QED
  BY <1>1, <1>2, <1>3, <1>4, <1>5 DEF Next, Iteration, XoseraEdge, TypeOK

\* Once aligned, main's index and flag follow the beam, and the buffer the frame.
THEOREM CaptureInvariance == Spec => []CaptureInv
<1>1. Init => CaptureInv
  BY DEF Init, CaptureInv
<1>2. TypeOK /\ CaptureInv /\ [Next]_vars => CaptureInv'
  BY InvStep
<1> QED
  BY <1>1, <1>2, CaptureTypes, PTL DEF Spec

-----------------------------------------------------------------------------
(* The pictures.                                                           *)

(***************************************************************************)
(* The picture main takes when the sync begins is the whole frame, each    *)
(* pixel in its place.                                                     *)
(***************************************************************************)
THEOREM PicturesWhole == Spec => PictureWhole
<1>1. TypeOK /\ CaptureInv /\ [Next]_vars =>
        [SyncBegins /\ aligned >= 1 =>
           \A i \in 0..SyncStart : texture'[i] = <<i, frame>>]_vars
  <2> SUFFICES ASSUME TypeOK, CaptureInv, Next, SyncBegins, aligned >= 1,
                      NEW i \in 0..SyncStart
               PROVE texture'[i] = <<i, frame>>
    OBVIOUS
  <2>1. texture' = pixels' /\ beam = SyncStart
    BY TakesAtSync DEF Next, Iteration, Capture
  <2>2. i \in Places /\ i <= beam
    BY <2>1, FrameAssumption
  <2> QED
    BY <2>1, <2>2, FrameGrows DEF Next, Iteration
<1> QED
  BY <1>1, CaptureTypes, CaptureInvariance, PTL DEF Spec, PictureWhole

\* What is drawn while the sync lasts is shown one frame late.
THEOREM RestIsLate == Spec => RestFromFrameBefore
<1>1. TypeOK /\ CaptureInv /\ [Next]_vars =>
        [SyncBegins /\ aligned = 2 =>
           \A i \in (SyncStart + 1)..(FrameLen - 1) :
              texture'[i] = <<i, (frame + 2) % 3>>]_vars
  <2> SUFFICES ASSUME TypeOK, CaptureInv, Next, SyncBegins, aligned = 2,
                      NEW i \in (SyncStart + 1)..(FrameLen - 1)
               PROVE texture'[i] = <<i, (frame + 2) % 3>>
    OBVIOUS
  <2>1. texture' = pixels' /\ beam = SyncStart
    BY TakesAtSync DEF Next, Iteration, Capture
  <2>2. i \in Places /\ i > beam
    BY <2>1, FrameAssumption
  <2> QED
    BY <2>1, <2>2, FrameGrows DEF Next, Iteration
<1> QED
  BY <1>1, CaptureTypes, CaptureInvariance, PTL DEF Spec, RestFromFrameBefore

\* Every frame that Xosera draws from its start is taken exactly once.
THEOREM PictureOfEveryFrame == Spec => OnePictureEach
<1>1. TypeOK /\ CaptureInv /\ [Next]_vars =>
        [FrameBegins /\ aligned >= 1 => TakenNow = 1]_vars
  <2> SUFFICES ASSUME TypeOK, CaptureInv, Next, FrameBegins, aligned >= 1
               PROVE TakenNow = 1
    OBVIOUS
  <2>1. beam = FrameLen - 1
    BY DEF Next, Iteration, XoseraEdge, HeldInReset, StartDrawing, DrawOn,
           FrameBegins, TypeOK
  <2> QED
    BY <2>1, TakesAtSync, FrameAssumption DEF CaptureInv, Aligned, TakenNow
<1> QED
  BY <1>1, CaptureTypes, CaptureInvariance, PTL DEF Spec, OnePictureEach

=============================================================================

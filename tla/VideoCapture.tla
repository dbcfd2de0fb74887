---------------------------- MODULE VideoCapture ----------------------------
(***************************************************************************)
(* How main in sim/sim_main.cpp turns the video output of Xosera into the  *)
(* texture it shows.  Main sees one pixel an iteration and no address: it  *)
(* counts from the end of the vertical sync, and takes the picture when    *)
(* the next sync begins.                                                   *)
(*                                                                         *)
(* A step is one iteration of the main loop.  A pixel is the place of the  *)
(* beam that drew it and the number of its frame, so that the pixels of a  *)
(* texture tell where and when each was captured.  Frames are numbered     *)
(* modulo 3.                                                               *)
(*                                                                         *)
(* The sources of Xosera are not here.  What the simulator needs of it:    *)
(* out of reset it draws frames of FrameLen pixels and holds vga_vsync low *)
(* for the last SyncLen of each.  In reset, and where it starts to draw    *)
(* after it, it does as it likes.                                          *)
(***************************************************************************)
EXTENDS Integers

CONSTANTS
  FrameLen,   \* pixels Xosera draws per frame, blanking and syncs included
  SyncLen,    \* those of them with vga_vsync low
  PixelsSize, \* pixels of the buffer: vga_width * vga_height
  MaxResets   \* bound on the resets after the first

ASSUME FrameAssumption ==
  /\ FrameLen \in Nat /\ SyncLen \in Nat \ {0} /\ PixelsSize \in Nat
  /\ SyncLen < FrameLen
  /\ FrameLen <= PixelsSize
ASSUME ResetsAssumption == MaxResets \in Nat

VARIABLES
  \* main
  pixel_index, \* in pixels; the source counts bytes
  pixels,
  texture,
  was_vsync,
  reset,       \* the reset line
  resets,      \* times it went high again, up to MaxResets
  \* Xosera
  drawing,     \* out of reset
  beam,        \* pixels since the sync ended
  frame,
  vga_vsync,
  \* history, read by the properties alone
  aligned,     \* frames that began since Xosera draws, up to 2
  taken        \* pictures taken in this frame, up to 2

mainVars   == <<pixel_index, pixels, texture, was_vsync>>
resetVars  == <<reset, resets>>
xoseraVars == <<drawing, beam, frame, vga_vsync>>
histVars   == <<aligned, taken>>
vars       == <<mainVars, resetVars, xoseraVars, histVars>>

FrameNumbers == 0..2
Places       == 0..(FrameLen - 1)
Indices      == 0..(PixelsSize - 1)

\* What a pixel holds that Xosera did not draw: memory nobody wrote, blank.
Junk   == <<-1, 0>>
Blank  == <<-1, 1>>
Pixels == (Places \X FrameNumbers) \union {Junk, Blank}

\* The pixels of a frame from the end of a sync to the start of the next.
SyncStart == FrameLen - SyncLen

\* The pixel on the outputs.
VgaRgb == IF drawing THEN <<beam, frame>> ELSE Blank

Init ==
  /\ pixel_index = 0
  /\ pixels = [i \in Indices |-> Junk]
  /\ texture = [i \in Indices |-> Junk]
  /\ was_vsync = FALSE
  /\ reset = 1 /\ resets = 0
  /\ drawing = FALSE /\ beam = 0 /\ frame = 0 /\ vga_vsync = 0
  /\ aligned = 0 /\ taken = 0

-----------------------------------------------------------------------------
(* One iteration of main.                                                  *)

\* Mutant: the flag of the sync is lowered while it lasts.
SyncEndedEarly == was_vsync

\* Mutant: it is never lowered.
SyncNeverEnded == FALSE

\* The sync has ended since the last iteration.
SyncEnded == was_vsync /\ vga_vsync = 1

\* Mutant: the index is not put back at the end of the sync.
WriteIndexFree == pixel_index

\* Where this pixel goes.
WriteIndex == IF SyncEnded THEN 0 ELSE pixel_index

\* Mutant: the index does not wrap.
NextIndexOn(i) == i + 1

NextIndex(i) == (i + 1) % PixelsSize

\* Mutant: the picture is taken when the sync ends.
SyncBeginsLate == vga_vsync = 1 /\ was_vsync

\* The sync has begun, and the picture of the frame is due.
SyncBegins == vga_vsync = 0 /\ ~was_vsync

Capture ==
  /\ pixels' = [pixels EXCEPT ![WriteIndex] = VgaRgb]
  /\ pixel_index' = NextIndex(WriteIndex)
  /\ IF SyncBegins
     THEN was_vsync' = TRUE /\ texture' = pixels'
     ELSE /\ was_vsync' = IF SyncEnded THEN FALSE ELSE was_vsync
          /\ UNCHANGED texture

\* The reset line, as the button and the clock leave it in this iteration.
ResetLine ==
  \/ UNCHANGED resetVars
  \/ reset = 1 /\ reset' = 0 /\ UNCHANGED resets
  \/ reset = 0 /\ resets < MaxResets /\ reset' = 1 /\ resets' = resets + 1

-----------------------------------------------------------------------------
(* Xosera on the clock edge.                                               *)

VsyncAt(p) == IF p >= SyncStart THEN 0 ELSE 1

\* In reset there is no picture, whatever vga_vsync does.
HeldInReset ==
  /\ reset' = 1
  /\ drawing' = FALSE
  /\ vga_vsync' \in {0, 1}
  /\ UNCHANGED <<beam, frame>>

StartDrawing ==
  /\ reset' = 0 /\ ~drawing
  /\ drawing' = TRUE
  /\ beam' \in Places
  /\ vga_vsync' = VsyncAt(beam')
  /\ UNCHANGED frame

DrawOn ==
  /\ reset' = 0 /\ drawing
  /\ beam' = IF beam = FrameLen - 1 THEN 0 ELSE beam + 1
  /\ frame' = IF beam' = 0 THEN (frame + 1) % 3 ELSE frame
  /\ vga_vsync' = VsyncAt(beam')
  /\ UNCHANGED drawing

XoseraEdge == HeldInReset \/ StartDrawing \/ DrawOn

FrameBegins == drawing' /\ drawing /\ beam' = 0

\* The pictures of this frame, with the one this iteration may take.
TakenNow == IF SyncBegins /\ taken < 2 THEN taken + 1 ELSE taken

History ==
  /\ aligned' = IF ~drawing' THEN 0
                ELSE IF FrameBegins /\ aligned < 2 THEN aligned + 1 ELSE aligned
  /\ taken' = IF FrameBegins \/ ~drawing' THEN 0 ELSE TakenNow

Iteration == Capture /\ ResetLine /\ XoseraEdge /\ History

Next == Iteration

Spec == Init /\ [][Next]_vars

\* Main goes round its loop while the window has the focus.
FairSpec == Spec /\ WF_vars(Next)

-----------------------------------------------------------------------------
(* Properties.                                                             *)

\* Every variable has its type; so no pixel is written outside the buffer.
TypeOK ==
  /\ pixel_index \in Indices
  /\ pixels \in [Indices -> Pixels]
  /\ texture \in [Indices -> Pixels]
  /\ was_vsync \in BOOLEAN
  /\ reset \in {0, 1} /\ resets \in 0..MaxResets
  /\ drawing \in BOOLEAN /\ beam \in Places /\ frame \in FrameNumbers
  /\ vga_vsync \in {0, 1}
  /\ aligned \in 0..2 /\ taken \in 0..2

(***************************************************************************)
(* A picture main takes once Xosera has drawn a frame from its start has   *)
(* every pixel of that frame, up to the sync, where it was drawn: nothing  *)
(* of an older frame, nothing shifted.                                     *)
(***************************************************************************)
PictureWhole ==
  [][SyncBegins /\ aligned >= 1 =>
       \A i \in 0..SyncStart : texture'[i] = <<i, frame>>]_vars

(***************************************************************************)
(* The rest of the picture, the pixels drawn while the sync lasts, comes   *)
(* from the frame before: it is the only part that is late.                *)
(***************************************************************************)
RestFromFrameBefore ==
  [][SyncBegins /\ aligned = 2 =>
       \A i \in (SyncStart + 1)..(FrameLen - 1) :
          texture'[i] = <<i, (frame + 2) % 3>>]_vars

\* Every frame drawn from its start is taken, and taken once.
OnePictureEach == [][FrameBegins /\ aligned >= 1 => TakenNow = 1]_vars

(***************************************************************************)
(* After a reset the capture finds the frame again by itself: main does    *)
(* not know where Xosera starts to draw.                                   *)
(***************************************************************************)
Recovers == (reset = 0) ~> (reset = 1 \/ (aligned >= 1 /\ SyncBegins))

(***************************************************************************)
(* The inductive invariant.  From the first frame that Xosera draws from   *)
(* its start, main's index is the place of the beam, its flag of the sync  *)
(* is one iteration behind the output, and the buffer holds the pixels of  *)
(* this frame up to the beam and of the frame before from there on.        *)
(***************************************************************************)
Aligned ==
  /\ beam # 0 => pixel_index = beam
  /\ was_vsync <=> (beam = 0 \/ beam > SyncStart)
  /\ \A i \in Places : i < beam => pixels[i] = <<i, frame>>
  /\ taken = IF beam > SyncStart THEN 1 ELSE 0

CaptureInv ==
  /\ drawing => vga_vsync = VsyncAt(beam)
  /\ ~drawing => aligned = 0
  /\ aligned >= 1 => Aligned
  /\ aligned = 2 =>
       \A i \in Places : i >= beam => pixels[i] = <<i, (frame + 2) % 3>>

=============================================================================

------------------------------ MODULE Renderer ------------------------------
(***************************************************************************)
(* The images of a program and Renderer::setDrawBuffer(), the one place    *)
(* that keeps a pointer to pixels beside a reference to them.  All of this *)
(* runs on the main thread: the counters are not atomic, and no other      *)
(* thread touches a reference.                                             *)
(***************************************************************************)
EXTENDS Image, FiniteSets

CONSTANTS Callers  \* the names a caller has for images

DrawBuffer == "Renderer::_drawBuffer"
OpImage == "RendererOpTypeImpl::_drawBuffer"

Names == Callers \cup {DrawBuffer, OpImage}

ASSUME RendererAssumption ==
  /\ IsFiniteSet(Callers)
  /\ DrawBuffer \notin Callers
  /\ OpImage \notin Callers

VARIABLES
  heap,    \* the counters, and the images by name
  exists,  \* the images that are constructed and not destroyed
  op       \* the pointer in _renderOpImpl's PixelWrapper; nullptr without one

vars == <<heap, exists, op>>

image == heap.image

\* A new Renderer has an empty image and no operation.
Init ==
  /\ heap = [count |-> [o \in Objects |-> 0], image |-> [n \in Names |-> Empty]]
  /\ exists = {DrawBuffer}
  /\ op = nullptr

-----------------------------------------------------------------------------
(* What a caller does with images of its own                               *)

\* Image(), and the constructors from a size and a format: storage is left
\* out, allocated, or allocated and filled from other data.
New(n) ==
  /\ n \in Callers \ exists
  /\ \E format \in Formats, area \in {0, 1} :
       LET shaped == WithShape(heap, n, format, area)
       IN \/ heap' = shaped
          \/ \E o \in Objects : heap.count[o] = 0 /\ heap' = AllocateData(shaped, n, o)
  /\ exists' = exists \cup {n}
  /\ UNCHANGED op

Copy(n, m) ==
  /\ n \in Callers \ exists
  /\ m \in Callers \cap exists
  /\ heap' = CopyConstruct(heap, n, m)
  /\ exists' = exists \cup {n}
  /\ UNCHANGED op

AssignFrom(n, m) ==
  /\ {n, m} \subseteq Callers \cap exists
  /\ heap' = AssignImage(heap, n, m)
  /\ UNCHANGED <<exists, op>>

Delete(n) ==
  /\ n \in Callers \cap exists
  /\ heap' = Destroy(heap, n)
  /\ exists' = exists \ {n}
  /\ UNCHANGED op

-----------------------------------------------------------------------------
(* Renderer                                                                *)

\* delete _renderOpImpl, which destroys the image in it.
WithoutOp == IF op = nullptr THEN heap ELSE Destroy(heap, OpImage)

\* Mutants of OpOf: the operation keeps the pointer and no image; and a format
\* without an operation leaves _renderOpImpl as it is.
OpOfPointer(h) ==
  [heap |-> h, op |-> IF h.image[DrawBuffer].format = RGBA32
                        THEN h.image[DrawBuffer].data ELSE nullptr]

OpOfKept(h) ==
  IF h.image[DrawBuffer].format = RGBA32
    THEN LET copied == CopyConstruct(h, OpImage, DrawBuffer)
         IN [heap |-> copied, op |-> copied.image[OpImage].data]
    ELSE [heap |-> h, op |-> op]

\* createRenderOpImpl(): only one format has an operation.  It copies the image
\* it is given and takes the pointer from its copy.
OpOf(h) ==
  IF h.image[DrawBuffer].format = RGBA32
    THEN LET copied == CopyConstruct(h, OpImage, DrawBuffer)
         IN [heap |-> copied, op |-> copied.image[OpImage].data]
    ELSE [heap |-> h, op |-> nullptr]

\* An image in the format of the last one gets no new operation.
NewFormat(m) == image[m].format # image[DrawBuffer].format

\* setDrawBuffer() throws, and changes nothing, if the image is not complete.
SetDrawBuffer(m) ==
  /\ DrawBuffer \in exists
  /\ m \in Callers \cap exists
  /\ IsComplete(image[m])
  /\ IF NewFormat(m)
       THEN LET created == OpOf(AssignImage(WithoutOp, DrawBuffer, m))
            IN /\ heap' = created.heap
               /\ op' = created.op
               /\ exists' = IF created.op = nullptr THEN exists \ {OpImage}
                                                    ELSE exists \cup {OpImage}
       ELSE heap' = AssignImage(heap, DrawBuffer, m) /\ UNCHANGED <<op, exists>>

\* The destructor deletes the operation and, as a member, the draw buffer.
DeleteRenderer ==
  /\ DrawBuffer \in exists
  /\ heap' = Destroy(WithoutOp, DrawBuffer)
  /\ op' = nullptr
  /\ exists' = exists \ {DrawBuffer, OpImage}

Next ==
  \/ \E n \in Callers : New(n) \/ Delete(n) \/ SetDrawBuffer(n)
  \/ \E n, m \in Callers : Copy(n, m) \/ AssignFrom(n, m)
  \/ DeleteRenderer

Spec == Init /\ [][Next]_vars

-----------------------------------------------------------------------------
(* Properties                                                              *)

TypeOK ==
  /\ heap \in [count : Counters, image : [Names -> Images]]
  /\ exists \subseteq Names
  /\ op \in Pointers

\* The images that hold an object.
HoldersOf(o) == {n \in Names : image[n].data = o}

\* Whatever is copied, assigned, replaced and destroyed, also onto itself, the
\* counter of an object is the number of images that hold it: it is deleted
\* with the last of them, neither earlier nor never.
CountsReferences == \A o \in Objects : heap.count[o] = Cardinality(HoldersOf(o))

\* No image follows a pointer that was never initialised, although a copy of an
\* empty ObjectRef has one: an image without storage can be copied.
NoWildReference == \A n \in Names : image[n].data # Wild

\* The renderer draws through a bare pointer.  What it leads to lives as long
\* as the operation does, whatever becomes of the caller's image and of the
\* draw buffer.
OpHoldsItsPixels == op # nullptr => heap.count[op] > 0

\* drawPoint() and getPixel() follow _renderOpImpl untested: there is one as
\* soon as, and as long as, the draw buffer has the format that needs it.
OpMatchesFormat ==
  DrawBuffer \in exists => (op # nullptr <=> image[DrawBuffer].format = RGBA32)

\* The operation draws into the draw buffer until an image of the same format
\* replaces that: then it keeps drawing into the one before.
PartedOnlyBySameFormat ==
  [][op = image[DrawBuffer].data /\ op' # nullptr /\ op' # image'[DrawBuffer].data =>
       image'[DrawBuffer].format = image[DrawBuffer].format]_vars

\* Images share their data as if somebody kept track of who holds what.
Data == INSTANCE SharedData WITH
  Holders <- Names,
  holds <- [n \in Names |-> image[n].data],
  live <- {o \in Objects : heap.count[o] > 0}

ImplementsSharedData == Data!Spec

=============================================================================

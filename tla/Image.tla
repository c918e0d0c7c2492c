------------------------------- MODULE Image --------------------------------
(***************************************************************************)
(* What the constructors, the assignment and the destructor of Image do.   *)
(* The heap holds the counters of the BulkData objects and the images by   *)
(* name; memory that holds no image now is like an empty one.  The pixels  *)
(* themselves are left to SharedPixel.                                     *)
(***************************************************************************)
EXTENDS ObjectRef

CONSTANTS
  Formats,   \* enum ImageFormat
  RGBA32,
  NoFormat

ASSUME ImageAssumption == {RGBA32, NoFormat} \subseteq Formats /\ RGBA32 # NoFormat

\* area stands for width and height: 0 when one of them is.
Images == [format : Formats, area : {0, 1}, data : Pointers \cup {Wild}]

\* Image()
Empty == [format |-> NoFormat, area |-> 0, data |-> nullptr]

\* isComplete()
IsComplete(img) == img.format # NoFormat /\ img.area > 0 /\ img.data # nullptr

\* Image n after an operation on its imageData.
WithData(heap, n, cell) ==
  [count |-> cell.count, image |-> [heap.image EXCEPT ![n].data = cell.ptr]]

WithShape(heap, n, format, area) ==
  [heap EXCEPT !.image[n] = [format |-> format, area |-> area, data |-> @.data]]

DataCell(heap, n) == Cell(heap.count, heap.image[n].data)

\* imageData = BulkDataRef(new BulkData(...)): a temporary reference counts the
\* new object, the assignment counts it again, and the temporary is destroyed.
AllocateData(heap, n, o) ==
  LET temporary == Construct(heap.count, o)
      own == Assign(Cell(temporary.count, heap.image[n].data), temporary.ptr)
      left == RemoveLocalRef(Cell(own.count, temporary.ptr))
  IN WithData(heap, n, Cell(left.count, own.ptr))

\* The destructor destroys imageData.
Destroy(heap, n) ==
  LET after == WithData(heap, n, RemoveLocalRef(DataCell(heap, n)))
  IN [after EXCEPT !.image[n] = Empty]

\* Image(const Image&): imageData starts empty and is assigned to.
CopyConstruct(heap, n, m) ==
  WithData(WithShape(heap, n, heap.image[m].format, heap.image[m].area), n,
           Assign(Cell(heap.count, nullptr), heap.image[m].data))

\* operator=
AssignImage(heap, n, m) ==
  IF n = m THEN heap
  ELSE LET released == WithData(heap, n, RemoveLocalRef(DataCell(heap, n)))
           shaped == WithShape(released, n, heap.image[m].format, heap.image[m].area)
       IN WithData(shaped, n, Assign(DataCell(shaped, n), shaped.image[m].data))

=============================================================================

----------------------------- MODULE ObjectRef ------------------------------
(***************************************************************************)
(* Template ObjectRef and the counter in RefCountedObject.  A cell is what *)
(* one operation of a reference works on: the counters of all objects and  *)
(* the objectPtr of that reference.  An object whose counter is 0 is       *)
(* deleted, or was never created; new may hand out its address again.      *)
(***************************************************************************)
EXTENDS Integers

CONSTANTS
  Objects,  \* the addresses of reference-counted objects
  nullptr,
  Wild      \* what a pointer that nobody has initialised leads to

ASSUME ObjectRefAssumption ==
  /\ nullptr \notin Objects
  /\ Wild \notin Objects
  /\ nullptr # Wild

Pointers == Objects \cup {nullptr}

Counters == [Objects -> Nat]

Cell(count, ptr) == [count |-> count, ptr |-> ptr]

IncRefCount(count, o) == [count EXCEPT ![o] = @ + 1]

\* decRefCount(), which deletes the object with its last reference.
DecRefCount(count, o) == [count EXCEPT ![o] = @ - 1]

\* addLocalRef(): the pointer of an empty reference is not stored.
AddLocalRef(cell, other) ==
  IF other = nullptr THEN cell ELSE Cell(IncRefCount(cell.count, other), other)

\* Mutant of RemoveLocalRef: the pointer is not reset.
RemoveLocalRefKept(cell) ==
  IF cell.ptr = nullptr THEN cell ELSE Cell(DecRefCount(cell.count, cell.ptr), cell.ptr)

\* removeLocalRef(); release() and the destructor are the same.
RemoveLocalRef(cell) ==
  IF cell.ptr = nullptr THEN cell ELSE Cell(DecRefCount(cell.count, cell.ptr), nullptr)

\* Mutant of Construct: it takes the pointer over and does not count.
ConstructUncounted(count, other) == Cell(count, other)

\* The constructor from a pointer and the one from another reference.  Neither
\* initialises objectPtr: a copy of an empty reference is left Wild.
Construct(count, other) == AddLocalRef(Cell(count, Wild), other)

\* operator= from another reference.
Assign(cell, other) == AddLocalRef(RemoveLocalRef(cell), other)

=============================================================================

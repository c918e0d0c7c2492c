--------------------------- MODULE RendererProofs ---------------------------
(***************************************************************************)
(* What holds of the images of a program for any number of images and      *)
(* objects.  Every operation on an image is a change of its shape together *)
(* with dropping what it holds or taking one object; these two keep the    *)
(* counters equal to the number of holders.                                *)
(*                                                                         *)
(* The last sections are about one pixel of the image, for bytes of every  *)
(* width: blending stays between the two colours, so that no channel       *)
(* leaves its byte, and an undisturbed read returns what was drawn.        *)
(***************************************************************************)
EXTENDS Renderer, SharedPixel, FiniteSetTheorems, TLAPS

GoodImages == [format : Formats, area : {0, 1}, data : Pointers]

HoldersIn(h, o) == {n \in Names : h.image[n].data = o}

HeapOK(h) ==
  /\ h \in [count : Counters, image : [Names -> GoodImages]]
  /\ \A o \in Objects : h.count[o] = Cardinality(HoldersIn(h, o))

Img(f, a, d) == [format |-> f, area |-> a, data |-> d]

\* Image n is replaced, and the counters are c.
Put(h, c, n, f, a, d) == [count |-> c, image |-> [h.image EXCEPT ![n] = Img(f, a, d)]]

\* Dropping what n holds.
Dropped(h, n, f, a) ==
  Put(h, IF h.image[n].data = nullptr THEN h.count ELSE DecRefCount(h.count, h.image[n].data),
      n, f, a, nullptr)

\* Taking object d, if it is one.
Taken(h, n, f, a, d) ==
  Put(h, IF d = nullptr THEN h.count ELSE IncRefCount(h.count, d), n, f, a, d)

LEMMA NamesFinite == IsFiniteSet(Names)
<1>1. IsFiniteSet(Callers)
  BY RendererAssumption
<1>2. IsFiniteSet(Callers \cup {DrawBuffer})
  BY <1>1, FS_AddElement
<1>3. IsFiniteSet((Callers \cup {DrawBuffer}) \cup {OpImage})
  BY <1>2, FS_AddElement
<1>4. Names = (Callers \cup {DrawBuffer}) \cup {OpImage}
  BY DEF Names
<1> QED
  BY <1>3, <1>4

LEMMA HoldersFinite ==
  ASSUME NEW h, NEW o
  PROVE  IsFiniteSet(HoldersIn(h, o))
<1>1. HoldersIn(h, o) \in SUBSET Names
  BY DEF HoldersIn
<1> QED
  BY <1>1, NamesFinite, FS_Subset

\* An image that holds nothing takes an object, or nothing.
LEMMA TakeOK ==
  ASSUME NEW h, HeapOK(h), NEW n \in Names, h.image[n].data = nullptr,
         NEW f \in Formats, NEW a \in {0, 1}, NEW d \in Pointers
  PROVE  HeapOK(Taken(h, n, f, a, d))
<1> DEFINE k == Taken(h, n, f, a, d)
<1>1. k \in [count : Counters, image : [Names -> GoodImages]]
  BY DEF HeapOK, Taken, Put, Img, IncRefCount, Counters, Pointers, GoodImages
<1>2. ASSUME NEW o \in Objects
      PROVE  k.count[o] = Cardinality(HoldersIn(k, o))
  <2>1. \A i \in Names : k.image[i] = IF i = n THEN Img(f, a, d) ELSE h.image[i]
    BY DEF HeapOK, Taken, Put
  <2>2. o # nullptr
    BY ObjectRefAssumption
  <2>3. h.count[o] = Cardinality(HoldersIn(h, o)) /\ h.count[o] \in Nat
    BY DEF HeapOK, Counters
  <2>4. n \notin HoldersIn(h, o)
    BY <2>2 DEF HoldersIn
  <2>5. CASE o = d
    <3>1. HoldersIn(k, o) = HoldersIn(h, o) \cup {n}
      BY <2>1, <2>5 DEF HoldersIn, Img
    <3>2. k.count[o] = h.count[o] + 1
      BY <2>2, <2>5 DEF HeapOK, Taken, Put, IncRefCount, Counters
    <3> QED
      BY <2>3, <2>4, <3>1, <3>2, HoldersFinite, FS_AddElement
  <2>6. CASE o # d
    <3>1. HoldersIn(k, o) = HoldersIn(h, o)
      BY <2>1, <2>4, <2>6 DEF HoldersIn, Img
    <3>2. k.count[o] = h.count[o]
      BY <2>6 DEF HeapOK, Taken, Put, IncRefCount, Counters
    <3> QED
      BY <2>3, <3>1, <3>2
  <2> QED
    BY <2>5, <2>6
<1> QED
  BY <1>1, <1>2 DEF HeapOK

\* An image drops what it holds.
LEMMA DropOK ==
  ASSUME NEW h, HeapOK(h), NEW n \in Names, NEW f \in Formats, NEW a \in {0, 1}
  PROVE  HeapOK(Dropped(h, n, f, a))
<1> DEFINE k == Dropped(h, n, f, a)
           d == h.image[n].data
<1>0. d \in Pointers /\ h \in [count : Counters, image : [Names -> GoodImages]]
  BY DEF HeapOK, GoodImages
<1>1. ASSUME d # nullptr
      PROVE  h.count[d] \in Nat \ {0}
  <2>1. d \in Objects
    BY <1>0, <1>1 DEF Pointers
  <2>2. n \in HoldersIn(h, d)
    BY DEF HoldersIn
  <2>3. HoldersIn(h, d) # {}
    BY <2>2
  <2>4. Cardinality(HoldersIn(h, d)) # 0
    BY <2>3, HoldersFinite, FS_EmptySet
  <2> QED
    BY <2>1, <2>4, <1>0 DEF HeapOK, Counters
<1>2. k \in [count : Counters, image : [Names -> GoodImages]]
  <2>1. k.image \in [Names -> GoodImages]
    BY <1>0 DEF Dropped, Put, Img, GoodImages, Pointers
  <2>2. k.count \in Counters
    BY <1>0, <1>1 DEF Dropped, Put, DecRefCount, Counters, Pointers
  <2> QED
    BY <2>1, <2>2 DEF Dropped, Put
<1>3. ASSUME NEW o \in Objects
      PROVE  k.count[o] = Cardinality(HoldersIn(k, o))
  <2>1. \A i \in Names : k.image[i] = IF i = n THEN Img(f, a, nullptr) ELSE h.image[i]
    BY <1>0 DEF Dropped, Put
  <2>2. o # nullptr
    BY ObjectRefAssumption
  <2>3. h.count[o] = Cardinality(HoldersIn(h, o)) /\ h.count[o] \in Nat
    BY DEF HeapOK, Counters
  <2>4. n \notin HoldersIn(k, o)
    BY <2>1, <2>2 DEF HoldersIn, Img
  <2>5. CASE o = d
    <3>1. HoldersIn(k, o) = HoldersIn(h, o) \ {n} /\ n \in HoldersIn(h, o)
      BY <2>1, <2>4, <2>5 DEF HoldersIn
    <3>2. k.count[o] = h.count[o] - 1
      BY <1>0, <2>2, <2>5 DEF Dropped, Put, DecRefCount, Counters
    <3> QED
      BY <2>3, <3>1, <3>2, HoldersFinite, FS_RemoveElement
  <2>6. CASE o # d
    <3>1. HoldersIn(k, o) = HoldersIn(h, o)
      BY <2>1, <2>4, <2>6 DEF HoldersIn
    <3>2. k.count[o] = h.count[o]
      BY <1>0, <2>6 DEF Dropped, Put, DecRefCount, Counters
    <3> QED
      BY <2>3, <3>1, <3>2
  <2> QED
    BY <2>5, <2>6
<1> QED
  BY <1>2, <1>3 DEF HeapOK

-----------------------------------------------------------------------------
(* The operations of Image as changes of these two kinds                   *)

LEMMA DestroyForm ==
  ASSUME NEW h, HeapOK(h), NEW n \in Names
  PROVE  /\ Destroy(h, n) = Dropped(h, n, NoFormat, 0)
         /\ HeapOK(Destroy(h, n))
<1>1. Destroy(h, n) = Dropped(h, n, NoFormat, 0)
  BY DEF HeapOK, Destroy, WithData, RemoveLocalRef, DataCell, Cell, Dropped, Put, Img, Empty
<1>2. NoFormat \in Formats /\ 0 \in {0, 1}
  BY ImageAssumption
<1> QED
  BY <1>1, <1>2, DropOK

LEMMA CopyForm ==
  ASSUME NEW h, HeapOK(h), NEW n \in Names, NEW m \in Names, n # m, h.image[n].data = nullptr
  PROVE  /\ CopyConstruct(h, n, m) =
              Taken(h, n, h.image[m].format, h.image[m].area, h.image[m].data)
         /\ HeapOK(CopyConstruct(h, n, m))
<1>1. /\ h.image[m].format \in Formats
      /\ h.image[m].area \in {0, 1}
      /\ h.image[m].data \in Pointers
  BY DEF HeapOK, GoodImages
<1>2. CopyConstruct(h, n, m) = Taken(h, n, h.image[m].format, h.image[m].area, h.image[m].data)
  BY DEF HeapOK, CopyConstruct, WithShape, WithData, Assign, AddLocalRef, RemoveLocalRef,
         Cell, Taken, Put, Img
<1> QED
  BY <1>1, <1>2, TakeOK

LEMMA AssignForm ==
  ASSUME NEW h, HeapOK(h), NEW n \in Names, NEW m \in Names, n # m
  PROVE  LET f == h.image[m].format
             a == h.image[m].area
         IN /\ AssignImage(h, n, m) = Taken(Dropped(h, n, f, a), n, f, a, h.image[m].data)
            /\ HeapOK(AssignImage(h, n, m))
<1> DEFINE f == h.image[m].format
           a == h.image[m].area
           d == h.image[m].data
           g == Dropped(h, n, f, a)
<1>1. f \in Formats /\ a \in {0, 1} /\ d \in Pointers
  BY DEF HeapOK, GoodImages
<1>2. HeapOK(g) /\ g.image[n].data = nullptr
  <2>1. HeapOK(g)
    BY <1>1, DropOK
  <2>2. g.image[n] = Img(f, a, nullptr)
    BY DEF HeapOK, Dropped, Put
  <2> QED
    BY <2>1, <2>2 DEF Img
<1>3. AssignImage(h, n, m) = Taken(g, n, f, a, d)
  <2>1. WithShape(WithData(h, n, RemoveLocalRef(DataCell(h, n))), n, f, a) = g
    BY DEF HeapOK, WithShape, WithData, RemoveLocalRef, DataCell, Cell, Dropped, Put, Img
  <2>2. g.image[m].data = d
    BY DEF HeapOK, Dropped, Put
  <2>3. AssignImage(h, n, m) = WithData(g, n, Assign(DataCell(g, n), g.image[m].data))
    BY <2>1 DEF AssignImage
  <2>4. WithData(g, n, Assign(DataCell(g, n), d)) = Taken(g, n, f, a, d)
    <3>1. Assign(DataCell(g, n), d) =
            Cell(IF d = nullptr THEN g.count ELSE IncRefCount(g.count, d), d)
      BY <1>2 DEF Assign, AddLocalRef, RemoveLocalRef, DataCell, Cell
    <3>2. g.image[n] = Img(f, a, nullptr)
      BY DEF HeapOK, Dropped, Put
    <3> QED
      BY <1>2, <3>1, <3>2 DEF HeapOK, WithData, Taken, Put, Img, Cell
  <2> QED
    BY <2>2, <2>3, <2>4
<1>4. HeapOK(Taken(g, n, f, a, d))
  BY <1>1, <1>2, TakeOK
<1> QED
  BY <1>3, <1>4

LEMMA ShapeForm ==
  ASSUME NEW h, HeapOK(h), NEW n \in Names, h.image[n].data = nullptr,
         NEW f \in Formats, NEW a \in {0, 1}
  PROVE  /\ WithShape(h, n, f, a) = Taken(h, n, f, a, nullptr)
         /\ HeapOK(WithShape(h, n, f, a))
<1>1. WithShape(h, n, f, a) = Taken(h, n, f, a, nullptr)
  BY DEF HeapOK, WithShape, Taken, Put, Img
<1> QED
  BY <1>1, TakeOK DEF Pointers

LEMMA AllocateForm ==
  ASSUME NEW h, HeapOK(h), NEW n \in Names, h.image[n].data = nullptr,
         NEW o \in Objects, h.count[o] = 0
  PROVE  /\ AllocateData(h, n, o) = Taken(h, n, h.image[n].format, h.image[n].area, o)
         /\ HeapOK(AllocateData(h, n, o))
<1>0. o # nullptr /\ h \in [count : Counters, image : [Names -> GoodImages]]
  BY ObjectRefAssumption DEF HeapOK
<1> DEFINE temporary == Construct(h.count, o)
           own == Assign(Cell(temporary.count, h.image[n].data), temporary.ptr)
           left == RemoveLocalRef(Cell(own.count, temporary.ptr))
<1>1. temporary = Cell(IncRefCount(h.count, o), o)
  BY <1>0 DEF Construct, AddLocalRef, Cell
<1>2. own = Cell(IncRefCount(IncRefCount(h.count, o), o), o)
  BY <1>0, <1>1 DEF Assign, AddLocalRef, RemoveLocalRef, Cell
<1>3. left = Cell(DecRefCount(IncRefCount(IncRefCount(h.count, o), o), o), nullptr)
  BY <1>0, <1>1, <1>2 DEF RemoveLocalRef, Cell
<1>4. DecRefCount(IncRefCount(IncRefCount(h.count, o), o), o) = IncRefCount(h.count, o)
  BY <1>0 DEF DecRefCount, IncRefCount, Counters
<1>5. AllocateData(h, n, o) = WithData(h, n, Cell(IncRefCount(h.count, o), o))
  BY <1>2, <1>3, <1>4 DEF AllocateData, Cell
<1>6. AllocateData(h, n, o) = Taken(h, n, h.image[n].format, h.image[n].area, o)
  BY <1>0, <1>5 DEF WithData, Taken, Put, Img, Cell, GoodImages
<1>7. h.image[n].format \in Formats /\ h.image[n].area \in {0, 1} /\ o \in Pointers
  BY <1>0 DEF GoodImages, Pointers
<1> QED
  BY <1>6, <1>7, TakeOK

-----------------------------------------------------------------------------
(* The inductive invariant.  Memory without an image holds nothing, and the *)
(* pointer of the operation is that of its own image.                      *)

GoneInv == \A n \in Names \ exists : image[n].data = nullptr

OpInv ==
  /\ op = image[OpImage].data
  /\ op # nullptr <=> OpImage \in exists
  /\ DrawBuffer \notin exists => op = nullptr

IInv ==
  /\ HeapOK(heap)
  /\ exists \subseteq Names
  /\ GoneInv
  /\ OpInv
  /\ OpMatchesFormat

LEMMA SpecialNames ==
  /\ DrawBuffer \in Names
  /\ OpImage \in Names
  /\ DrawBuffer # OpImage
  /\ \A n \in Callers : n \in Names /\ n # DrawBuffer /\ n # OpImage
BY RendererAssumption DEF Names, DrawBuffer, OpImage

LEMMA HeapFacts ==
  ASSUME NEW h, HeapOK(h), NEW n \in Names
  PROVE  /\ h.image[n].format \in Formats
         /\ h.image[n].area \in {0, 1}
         /\ h.image[n].data \in Pointers
BY DEF HeapOK, GoodImages

\* What Put does to the images, field by field.
LEMMA PutImage ==
  ASSUME NEW h, HeapOK(h), NEW c, NEW n \in Names, NEW f, NEW a, NEW d
  PROVE  LET k == Put(h, c, n, f, a, d)
         IN /\ k.image[n].format = f
            /\ k.image[n].area = a
            /\ k.image[n].data = d
            /\ \A i \in Names \ {n} : k.image[i] = h.image[i]
<1> DEFINE k == Put(h, c, n, f, a, d)
<1>1. k.image[n] = Img(f, a, d)
  BY DEF HeapOK, Put
<1>2. \A i \in Names \ {n} : k.image[i] = h.image[i]
  BY DEF HeapOK, Put
<1> QED
  BY <1>1, <1>2 DEF Img

\* An assignment between two images makes them equal and leaves the others.
LEMMA AssignImageFacts ==
  ASSUME NEW h, HeapOK(h), NEW n \in Names, NEW m \in Names
  PROVE  LET k == AssignImage(h, n, m)
         IN /\ HeapOK(k)
            /\ k.image[n].format = h.image[m].format
            /\ k.image[n].data = h.image[m].data
            /\ \A i \in Names \ {n} : k.image[i] = h.image[i]
<1>1. CASE n = m
  BY <1>1 DEF AssignImage
<1>2. CASE n # m
  <2> DEFINE f == h.image[m].format
             a == h.image[m].area
             d == h.image[m].data
             g == Dropped(h, n, f, a)
             k == AssignImage(h, n, m)
  <2>1. k = Taken(g, n, f, a, d) /\ HeapOK(k)
    BY <1>2, AssignForm
  <2>2. f \in Formats /\ a \in {0, 1}
    BY HeapFacts
  <2>3. HeapOK(g) /\ \A i \in Names \ {n} : g.image[i] = h.image[i]
    BY <2>2, DropOK, PutImage DEF Dropped
  <2>4. /\ Taken(g, n, f, a, d).image[n].format = f
        /\ Taken(g, n, f, a, d).image[n].data = d
        /\ \A i \in Names \ {n} : Taken(g, n, f, a, d).image[i] = g.image[i]
    <3> HIDE DEF f, a, d, g
    <3> QED
      BY <2>3, PutImage DEF Taken
  <2> QED
    BY <2>1, <2>3, <2>4
<1> QED
  BY <1>1, <1>2

LEMMA DestroyFacts ==
  ASSUME NEW h, HeapOK(h), NEW n \in Names
  PROVE  LET k == Destroy(h, n)
         IN /\ HeapOK(k)
            /\ k.image[n].data = nullptr
            /\ \A i \in Names \ {n} : k.image[i] = h.image[i]
BY DestroyForm, PutImage DEF Dropped

LEMMA CopyFacts ==
  ASSUME NEW h, HeapOK(h), NEW n \in Names, NEW m \in Names, n # m, h.image[n].data = nullptr
  PROVE  LET k == CopyConstruct(h, n, m)
         IN /\ HeapOK(k)
            /\ k.image[n].data = h.image[m].data
            /\ \A i \in Names \ {n} : k.image[i] = h.image[i]
BY CopyForm, PutImage DEF Taken

-----------------------------------------------------------------------------
(* Each action keeps the invariant                                         *)

LEMMA InitIInv == Init => IInv
<1> SUFFICES ASSUME Init PROVE IInv
  OBVIOUS
<1>1. heap \in [count : Counters, image : [Names -> GoodImages]]
  BY ImageAssumption DEF Init, Empty, Counters, GoodImages, Pointers
<1>2. ASSUME NEW o \in Objects
      PROVE  heap.count[o] = Cardinality(HoldersIn(heap, o))
  <2>1. HoldersIn(heap, o) = {}
    BY ObjectRefAssumption DEF Init, HoldersIn, Empty
  <2> QED
    BY <2>1, FS_EmptySet DEF Init
<1>3. \A n \in Names : image[n] = Empty
  BY DEF Init, image
<1>4. op = nullptr /\ exists = {DrawBuffer}
  BY DEF Init
<1>5. image[OpImage].data = nullptr /\ image[DrawBuffer].format = NoFormat
  BY <1>3, SpecialNames DEF Empty
<1>6. GoneInv
  BY <1>3 DEF GoneInv, Empty
<1>7. OpInv /\ OpMatchesFormat
  BY <1>4, <1>5, SpecialNames, ImageAssumption DEF OpInv, OpMatchesFormat
<1> QED
  BY <1>1, <1>2, <1>4, <1>6, <1>7, SpecialNames DEF IInv, HeapOK

\* Where an image can have its object from: another image, or new.
Sources == {image[i].data : i \in Names} \cup {nullptr}

\* What an action of a caller may do: change its own image n.
CallerEffect(n) ==
  /\ HeapOK(heap')
  /\ exists' \in {exists, exists \cup {n}, exists \ {n}}
  /\ op' = op
  /\ n \notin exists' => image'[n].data = nullptr
  /\ \A i \in Names \ {n} : image'[i] = image[i]
  /\ \/ image'[n].data \in Sources
     \/ image'[n].data \in Objects /\ heap.count[image'[n].data] = 0

LEMMA CallerStep ==
  ASSUME IInv, NEW n \in Callers, CallerEffect(n)
  PROVE  IInv'
<1> USE DEF CallerEffect
<1>1. image'[OpImage] = image[OpImage] /\ image'[DrawBuffer] = image[DrawBuffer]
  BY SpecialNames
<1>2. (OpImage \in exists' <=> OpImage \in exists) /\ (DrawBuffer \in exists' <=> DrawBuffer \in exists)
  BY SpecialNames
<1>3. exists' \subseteq Names
  BY SpecialNames DEF IInv
<1>4. GoneInv'
  <2> SUFFICES ASSUME NEW i \in Names \ exists'
               PROVE  image'[i].data = nullptr
    BY DEF GoneInv
  <2>1. CASE i = n
    BY <2>1
  <2>2. CASE i # n
    BY <2>2 DEF IInv, GoneInv
  <2> QED
    BY <2>1, <2>2
<1>5. OpInv' /\ OpMatchesFormat'
  BY <1>1, <1>2 DEF IInv, OpInv, OpMatchesFormat
<1> QED
  BY <1>3, <1>4, <1>5 DEF IInv

LEMMA NewEffect ==
  ASSUME IInv, NEW n \in Callers, New(n)
  PROVE  CallerEffect(n)
<1>1. n \in Names /\ n \notin exists /\ image[n].data = nullptr
  BY SpecialNames DEF New, IInv, GoneInv
<1>2. PICK f \in Formats, a \in {0, 1} :
         \/ heap' = WithShape(heap, n, f, a)
         \/ \E o \in Objects : /\ heap.count[o] = 0
                              /\ heap' = AllocateData(WithShape(heap, n, f, a), n, o)
  BY DEF New
<1> DEFINE g == WithShape(heap, n, f, a)
<1>3. /\ HeapOK(g)
      /\ g.image[n].data = nullptr
      /\ g.count = heap.count
      /\ \A i \in Names \ {n} : g.image[i] = heap.image[i]
  <2>1. HeapOK(heap)
    BY DEF IInv
  <2>2. g = Taken(heap, n, f, a, nullptr) /\ HeapOK(g)
    BY <1>1, <2>1, ShapeForm DEF image
  <2> QED
    BY <1>1, <2>1, <2>2, PutImage DEF Taken, Put
<1>4. /\ HeapOK(heap')
      /\ \A i \in Names \ {n} : heap'.image[i] = heap.image[i]
      /\ \/ heap'.image[n].data = nullptr
         \/ heap'.image[n].data \in Objects /\ heap.count[heap'.image[n].data] = 0
  <2>1. CASE heap' = g
    BY <1>3, <2>1
  <2>2. CASE \E o \in Objects : heap.count[o] = 0 /\ heap' = AllocateData(g, n, o)
    <3>1. PICK o \in Objects : heap.count[o] = 0 /\ heap' = AllocateData(g, n, o)
      BY <2>2
    <3> HIDE DEF g
    <3>2. heap' = Taken(g, n, g.image[n].format, g.image[n].area, o) /\ HeapOK(heap')
      BY <1>1, <1>3, <3>1, AllocateForm
    <3>3. /\ heap'.image[n].data = o
          /\ \A i \in Names \ {n} : heap'.image[i] = g.image[i]
      BY <1>1, <1>3, <3>2, PutImage DEF Taken
    <3> QED
      BY <1>3, <3>1, <3>2, <3>3
  <2> QED
    BY <1>2, <2>1, <2>2
<1>5. exists' = exists \cup {n} /\ op' = op
  BY DEF New
<1> QED
  BY <1>4, <1>5 DEF CallerEffect, image, Sources

LEMMA CopyEffect ==
  ASSUME IInv, NEW n \in Callers, NEW m \in Callers, Copy(n, m)
  PROVE  CallerEffect(n)
<1>1. n \in Names /\ m \in Names /\ n # m /\ heap.image[n].data = nullptr
  BY SpecialNames DEF Copy, IInv, GoneInv, image
<1>2. /\ HeapOK(heap')
      /\ heap'.image[n].data = heap.image[m].data
      /\ \A i \in Names \ {n} : heap'.image[i] = heap.image[i]
  BY <1>1, CopyFacts DEF Copy, IInv
<1>3. exists' = exists \cup {n} /\ op' = op
  BY DEF Copy
<1> QED
  BY <1>1, <1>2, <1>3 DEF CallerEffect, image, Sources

LEMMA AssignEffect ==
  ASSUME IInv, NEW n \in Callers, NEW m \in Callers, AssignFrom(n, m)
  PROVE  CallerEffect(n)
<1>1. n \in Names /\ m \in Names /\ n \in exists
  BY SpecialNames DEF AssignFrom
<1>2. /\ HeapOK(heap')
      /\ heap'.image[n].data = heap.image[m].data
      /\ \A i \in Names \ {n} : heap'.image[i] = heap.image[i]
  BY <1>1, AssignImageFacts DEF AssignFrom, IInv
<1>3. exists' = exists /\ op' = op
  BY DEF AssignFrom
<1> QED
  BY <1>1, <1>2, <1>3 DEF CallerEffect, image, Sources

LEMMA DeleteEffect ==
  ASSUME IInv, NEW n \in Callers, Delete(n)
  PROVE  CallerEffect(n)
<1>1. n \in Names
  BY SpecialNames
<1>2. /\ HeapOK(heap')
      /\ heap'.image[n].data = nullptr
      /\ \A i \in Names \ {n} : heap'.image[i] = heap.image[i]
  BY <1>1, DestroyFacts DEF Delete, IInv
<1>3. exists' = exists \ {n} /\ op' = op
  BY DEF Delete
<1> QED
  BY <1>1, <1>2, <1>3 DEF CallerEffect, image, Sources

\* delete _renderOpImpl leaves the memory of its image empty.
LEMMA WithoutOpFacts ==
  ASSUME IInv
  PROVE  /\ HeapOK(WithoutOp)
         /\ WithoutOp.image[OpImage].data = nullptr
         /\ \A i \in Names \ {OpImage} : WithoutOp.image[i] = heap.image[i]
<1>1. CASE op = nullptr
  BY <1>1 DEF WithoutOp, IInv, OpInv, image
<1>2. CASE op # nullptr
  BY <1>2, SpecialNames, DestroyFacts DEF WithoutOp, IInv
<1> QED
  BY <1>1, <1>2

\* What an action of the renderer may do: share what is there, and part the
\* operation from the draw buffer only when the format stays.
RendererEffect ==
  /\ \A i \in Names : image'[i].data \in Sources
  /\ op' # nullptr /\ op' # image'[DrawBuffer].data =>
       image'[DrawBuffer].format = image[DrawBuffer].format

LEMMA SetDrawBufferStep ==
  ASSUME IInv, NEW m \in Callers, SetDrawBuffer(m)
  PROVE  IInv' /\ RendererEffect
<1> USE SpecialNames
<1>1. /\ DrawBuffer \in exists
      /\ m \in exists /\ m \in Names
      /\ heap.image[m].data # nullptr
      /\ HeapOK(heap)
  BY DEF SetDrawBuffer, IsComplete, IInv, image
<1>2. CASE NewFormat(m)
  <2> DEFINE g == WithoutOp
             h == AssignImage(g, DrawBuffer, m)
             created == OpOf(h)
  <2>1. /\ heap' = created.heap
        /\ op' = created.op
        /\ exists' = IF created.op = nullptr THEN exists \ {OpImage} ELSE exists \cup {OpImage}
    BY <1>2 DEF SetDrawBuffer
  <2>2. /\ HeapOK(g)
        /\ g.image[OpImage].data = nullptr
        /\ \A i \in Names \ {OpImage} : g.image[i] = heap.image[i]
    BY WithoutOpFacts
  <2>3. /\ HeapOK(h)
        /\ h.image[DrawBuffer].format = heap.image[m].format
        /\ h.image[DrawBuffer].data = heap.image[m].data
        /\ h.image[OpImage].data = nullptr
        /\ \A i \in Names \ {OpImage, DrawBuffer} : h.image[i] = heap.image[i]
    <3> HIDE DEF g
    <3>1. /\ HeapOK(h)
          /\ h.image[DrawBuffer].format = g.image[m].format
          /\ h.image[DrawBuffer].data = g.image[m].data
          /\ \A i \in Names \ {DrawBuffer} : h.image[i] = g.image[i]
      <4>1. HeapOK(g) /\ DrawBuffer \in Names /\ m \in Names
        BY <1>1, <2>2
      <4> QED
        BY ONLY <4>1, AssignImageFacts
    <3> HIDE DEF h
    <3>2. g.image[m] = heap.image[m]
      BY <1>1, <2>2
    <3> QED
      BY <2>2, <3>1, <3>2
  <2> HIDE DEF h
  <2>4. CASE h.image[DrawBuffer].format = RGBA32
    <3> DEFINE k == CopyConstruct(h, OpImage, DrawBuffer)
    <3>1. /\ HeapOK(k)
          /\ k.image[OpImage].data = heap.image[m].data
          /\ \A i \in Names \ {OpImage} : k.image[i] = h.image[i]
      BY <2>3, CopyFacts
    <3>2. created.heap = k /\ created.op = k.image[OpImage].data
      BY <2>4 DEF OpOf
    <3> HIDE DEF k, created
    <3>3. heap' = k /\ op' = heap.image[m].data /\ exists' = exists \cup {OpImage}
      BY <1>1, <2>1, <3>1, <3>2
    <3>4. k.image[DrawBuffer].format = RGBA32
      BY <2>4, <3>1
    <3>5. GoneInv'
      BY <2>3, <3>1, <3>3, <1>1 DEF GoneInv, image, IInv
    <3>6. OpInv' /\ OpMatchesFormat'
      BY <1>1, <3>1, <3>3, <3>4 DEF OpInv, OpMatchesFormat, image
    <3>7. RendererEffect
      <4>1. \A i \in Names \ {OpImage, DrawBuffer} : image'[i] = image[i]
        BY <2>3, <3>1, <3>3 DEF image
      <4>2. image'[OpImage].data = image[m].data /\ image'[DrawBuffer].data = image[m].data
        BY <2>3, <3>1, <3>3 DEF image
      <4> QED
        BY <1>1, <3>3, <4>1, <4>2 DEF RendererEffect, Sources, image
    <3> QED
      BY <1>1, <3>1, <3>3, <3>5, <3>6, <3>7 DEF IInv
  <2>5. CASE h.image[DrawBuffer].format # RGBA32
    <3>1. created.heap = h /\ created.op = nullptr
      BY <2>5 DEF OpOf
    <3> HIDE DEF created
    <3>2. heap' = h /\ op' = nullptr /\ exists' = exists \ {OpImage}
      BY <2>1, <3>1
    <3>3. GoneInv'
      BY <2>3, <3>2, <1>1 DEF GoneInv, image, IInv
    <3>4. OpInv' /\ OpMatchesFormat'
      BY <2>3, <2>5, <3>2 DEF OpInv, OpMatchesFormat, image
    <3>5. RendererEffect
      <4>1. \A i \in Names \ {OpImage, DrawBuffer} : image'[i] = image[i]
        BY <2>3, <3>2 DEF image
      <4>2. image'[OpImage].data = nullptr /\ image'[DrawBuffer].data = image[m].data
        BY <2>3, <3>2 DEF image
      <4> QED
        BY <1>1, <3>2, <4>1, <4>2 DEF RendererEffect, Sources
    <3> QED
      BY <2>3, <3>2, <3>3, <3>4, <3>5 DEF IInv
  <2> QED
    BY <2>4, <2>5
<1>3. CASE ~NewFormat(m)
  <2>1. heap' = AssignImage(heap, DrawBuffer, m) /\ op' = op /\ exists' = exists
    BY <1>3 DEF SetDrawBuffer
  <2>2. /\ HeapOK(heap')
        /\ heap'.image[DrawBuffer].format = heap.image[DrawBuffer].format
        /\ heap'.image[DrawBuffer].data = heap.image[m].data
        /\ \A i \in Names \ {DrawBuffer} : heap'.image[i] = heap.image[i]
    <3> DEFINE h == AssignImage(heap, DrawBuffer, m)
    <3>1. /\ HeapOK(h)
          /\ h.image[DrawBuffer].format = heap.image[m].format
          /\ h.image[DrawBuffer].data = heap.image[m].data
          /\ \A i \in Names \ {DrawBuffer} : h.image[i] = heap.image[i]
      <4>1. HeapOK(heap) /\ DrawBuffer \in Names /\ m \in Names
        BY <1>1
      <4> QED
        BY ONLY <4>1, AssignImageFacts
    <3>2. heap' = h
      BY <2>1
    <3> HIDE DEF h
    <3> QED
      BY <1>3, <3>1, <3>2 DEF NewFormat, image
  <2>3. GoneInv'
    BY <1>1, <2>1, <2>2 DEF GoneInv, image, IInv
  <2>4. OpInv' /\ OpMatchesFormat'
    BY <1>1, <2>1, <2>2 DEF OpInv, OpMatchesFormat, image, IInv
  <2>5. RendererEffect
    BY <1>1, <2>2 DEF RendererEffect, Sources, image
  <2> QED
    BY <2>1, <2>2, <2>3, <2>4, <2>5 DEF IInv
<1> QED
  BY <1>2, <1>3

LEMMA DeleteRendererStep ==
  ASSUME IInv, DeleteRenderer
  PROVE  IInv' /\ RendererEffect
<1> USE SpecialNames
<1>1. /\ HeapOK(WithoutOp)
      /\ WithoutOp.image[OpImage].data = nullptr
      /\ \A i \in Names \ {OpImage} : WithoutOp.image[i] = heap.image[i]
  BY WithoutOpFacts
<1>2. heap' = Destroy(WithoutOp, DrawBuffer) /\ op' = nullptr /\ exists' = exists \ {DrawBuffer, OpImage}
  BY DEF DeleteRenderer
<1>3. /\ HeapOK(heap')
      /\ heap'.image[DrawBuffer].data = nullptr
      /\ \A i \in Names \ {DrawBuffer} : heap'.image[i] = WithoutOp.image[i]
  BY <1>1, <1>2, DestroyFacts
<1>4. GoneInv'
  BY <1>1, <1>2, <1>3 DEF GoneInv, image, IInv
<1>5. OpInv' /\ OpMatchesFormat'
  BY <1>1, <1>2, <1>3 DEF OpInv, OpMatchesFormat, image
<1>6. RendererEffect
  <2>1. \A i \in Names \ {OpImage, DrawBuffer} : image'[i] = image[i]
    BY <1>1, <1>3 DEF image
  <2>2. image'[OpImage].data = nullptr /\ image'[DrawBuffer].data = nullptr
    BY <1>1, <1>3 DEF image
  <2> QED
    BY <1>2, <2>1, <2>2 DEF RendererEffect, Sources
<1> QED
  BY <1>2, <1>3, <1>4, <1>5, <1>6 DEF IInv

\* The inductive invariant holds in every reachable state.
THEOREM Invariance == Spec => []IInv
<1>1. Init => IInv
  BY InitIInv
<1>2. IInv /\ [Next]_vars => IInv'
  <2> SUFFICES ASSUME IInv, [Next]_vars
               PROVE  IInv'
    OBVIOUS
  <2>1. CASE UNCHANGED vars
    BY <2>1 DEF vars, IInv, GoneInv, OpInv, OpMatchesFormat, image
  <2>2. ASSUME NEW n \in Callers, New(n) \/ Delete(n) \/ SetDrawBuffer(n)
        PROVE  IInv'
    BY <2>2, NewEffect, DeleteEffect, CallerStep, SetDrawBufferStep
  <2>3. ASSUME NEW n \in Callers, NEW m \in Callers, Copy(n, m) \/ AssignFrom(n, m)
        PROVE  IInv'
    BY <2>3, CopyEffect, AssignEffect, CallerStep
  <2>4. CASE DeleteRenderer
    BY <2>4, DeleteRendererStep
  <2> QED
    BY <2>1, <2>2, <2>3, <2>4 DEF Next
<1> QED
  BY <1>1, <1>2, PTL DEF Spec

\* Every counter, image and pointer stays in its range.
THEOREM TypeCorrect == Spec => []TypeOK
<1>1. IInv => TypeOK
  <2> SUFFICES ASSUME IInv PROVE TypeOK
    OBVIOUS
  <2>1. heap \in [count : Counters, image : [Names -> GoodImages]]
    BY DEF IInv, HeapOK
  <2>2. GoodImages \subseteq Images
    BY DEF GoodImages, Images
  <2>3. op \in Pointers
    BY <2>1, SpecialNames DEF IInv, OpInv, image, GoodImages
  <2> QED
    BY <2>1, <2>2, <2>3 DEF IInv, TypeOK
<1> QED
  BY <1>1, Invariance, PTL

\* Every counter is the number of images that hold the object.
THEOREM CountersExact == Spec => []CountsReferences
<1>1. IInv => CountsReferences
  BY DEF IInv, HeapOK, HoldersIn, CountsReferences, HoldersOf, image
<1> QED
  BY <1>1, Invariance, PTL

\* No image follows a pointer that was never initialised.
THEOREM NoWildPointers == Spec => []NoWildReference
<1>1. IInv => NoWildReference
  BY ObjectRefAssumption DEF IInv, HeapOK, GoodImages, Pointers, NoWildReference, image
<1> QED
  BY <1>1, Invariance, PTL

\* The pixels of the operation live as long as it does.
THEOREM OpPixelsLive == Spec => []OpHoldsItsPixels
<1>1. IInv => OpHoldsItsPixels
  <2> SUFFICES ASSUME IInv, op # nullptr PROVE heap.count[op] > 0
    BY DEF OpHoldsItsPixels
  <2>1. HeapOK(heap) /\ OpImage \in HoldersIn(heap, op)
    BY SpecialNames DEF IInv, OpInv, HoldersIn, image
  <2>2. op \in Objects
    BY <2>1, HeapFacts, SpecialNames DEF IInv, OpInv, image, Pointers
  <2>3. Cardinality(HoldersIn(heap, op)) # 0
    BY <2>1, HoldersFinite, FS_EmptySet
  <2> QED
    BY <2>1, <2>2, <2>3 DEF HeapOK, Counters
<1> QED
  BY <1>1, Invariance, PTL

\* There is an operation just as long as the draw buffer has its format.
THEOREM OpPresent == Spec => []OpMatchesFormat
<1>1. IInv => OpMatchesFormat
  BY DEF IInv
<1> QED
  BY <1>1, Invariance, PTL

\* A step is one of a caller or one of the renderer, with their effects.
LEMMA StepEffect ==
  ASSUME IInv, Next
  PROVE  (\E n \in Callers : CallerEffect(n)) \/ RendererEffect
<1>1. ASSUME NEW n \in Callers, New(n) \/ Delete(n)
      PROVE  CallerEffect(n)
  BY <1>1, NewEffect, DeleteEffect
<1>2. ASSUME NEW n \in Callers, SetDrawBuffer(n)
      PROVE  RendererEffect
  BY <1>2, SetDrawBufferStep
<1>3. ASSUME NEW n \in Callers, NEW m \in Callers, Copy(n, m) \/ AssignFrom(n, m)
      PROVE  CallerEffect(n)
  BY <1>3, CopyEffect, AssignEffect
<1>4. CASE DeleteRenderer
  BY <1>4, DeleteRendererStep
<1> QED
  BY <1>1, <1>2, <1>3, <1>4 DEF Next

\* Only a second image of the same format parts operation and draw buffer.
THEOREM PartedOnlyThen == Spec => PartedOnlyBySameFormat
<1> DEFINE A == op = image[DrawBuffer].data /\ op' # nullptr /\ op' # image'[DrawBuffer].data =>
                  image'[DrawBuffer].format = image[DrawBuffer].format
<1>1. IInv /\ [Next]_vars => [A]_vars
  <2> SUFFICES ASSUME IInv, Next
               PROVE  A
    BY DEF vars
  <2>1. ASSUME NEW n \in Callers, CallerEffect(n)
        PROVE  A
    <3>1. op' = op /\ image'[DrawBuffer] = image[DrawBuffer]
      BY <2>1, SpecialNames DEF CallerEffect
    <3> QED
      BY <3>1
  <2>2. CASE RendererEffect
    BY <2>2 DEF RendererEffect
  <2> QED
    BY <2>1, <2>2, StepEffect
<1> QED
  BY <1>1, Invariance, PTL DEF Spec, PartedOnlyBySameFormat

-----------------------------------------------------------------------------
(* Refinement                                                              *)

\* The names of the abstract specification.
holdsOf == [n \in Names |-> image[n].data]
liveOf == {o \in Objects : heap.count[o] > 0}

\* An object has a counter above 0 just when it is held.
LEMMA LiveIsHeld ==
  ASSUME HeapOK(heap)
  PROVE  liveOf = Data!Held(holdsOf)
<1>1. ASSUME NEW o \in Objects
      PROVE  heap.count[o] > 0 <=> \E n \in Names : heap.image[n].data = o
  <2>1. heap.count[o] = Cardinality(HoldersIn(heap, o)) /\ heap.count[o] \in Nat
    BY DEF HeapOK, Counters
  <2>2. Cardinality(HoldersIn(heap, o)) = 0 <=> HoldersIn(heap, o) = {}
    BY HoldersFinite, FS_EmptySet
  <2> QED
    BY <2>1, <2>2 DEF HoldersIn
<1>2. \A n \in Names : heap.image[n].data \in Objects \cup {nullptr}
  BY HeapFacts DEF Pointers
<1>3. nullptr \notin Objects
  BY ObjectRefAssumption
<1> QED
  BY <1>1, <1>2, <1>3 DEF liveOf, holdsOf, image, Data!Held

\* Images share their data as SharedData says.
THEOREM Refinement == Spec => ImplementsSharedData
<1>1. Init => Data!Init
  <2> SUFFICES ASSUME Init PROVE Data!Init
    OBVIOUS
  <2>1. \A n \in Names : image[n].data = nullptr
    BY DEF Init, image, Empty
  <2>2. liveOf = {}
    BY DEF Init, liveOf
  <2> QED
    BY <2>1, <2>2 DEF Data!Init, liveOf
<1>2. IInv /\ IInv' /\ [Next]_vars => [Data!Next]_(Data!vars)
  <2> SUFFICES ASSUME IInv, IInv', [Next]_vars
               PROVE  [Data!Next]_(Data!vars)
    OBVIOUS
  <2>1. CASE UNCHANGED vars
    BY <2>1 DEF vars, image, Data!vars
  <2>2. liveOf = Data!Held(holdsOf) /\ liveOf' = Data!Held(holdsOf')
    <3>1. liveOf = Data!Held(holdsOf)
      BY LiveIsHeld DEF IInv
    <3>2. (liveOf = Data!Held(holdsOf))'
      BY LiveIsHeld, PTL DEF IInv
    <3> QED
      BY <3>1, <3>2
  <2>3. {holdsOf[i] : i \in Names} \cup {nullptr} = Sources
    BY DEF holdsOf, Sources
  <2>4. ASSUME \A i \in Names : image'[i].data \in Sources
        PROVE  Data!Share
    <3>1. holdsOf' \in [Names -> Sources]
      BY <2>4 DEF holdsOf
    <3> QED
      BY <2>2, <2>3, <3>1 DEF Data!Share, holdsOf, liveOf
  <2>5. ASSUME NEW n \in Callers, CallerEffect(n)
        PROVE  Data!Next
    <3>1. n \in Names /\ \A i \in Names \ {n} : image'[i] = image[i]
      BY <2>5, SpecialNames DEF CallerEffect
    <3>2. CASE image'[n].data \in Sources
      <4>1. \A i \in Names : image'[i].data \in Sources
        BY <3>1, <3>2 DEF Sources
      <4> QED
        BY <2>4, <4>1 DEF Data!Next
    <3>3. CASE image'[n].data \in Objects /\ heap.count[image'[n].data] = 0
      <4>1. image'[n].data \in Objects \ liveOf
        BY <3>3 DEF liveOf
      <4>2. holdsOf' = [holdsOf EXCEPT ![n] = image'[n].data]
        BY <3>1 DEF holdsOf
      <4>3. Data!Create
        BY <2>2, <3>1, <4>1, <4>2 DEF Data!Create, holdsOf, liveOf
      <4> QED
        BY <4>3 DEF Data!Next
    <3> QED
      BY <2>5, <3>2, <3>3 DEF CallerEffect
  <2>6. CASE RendererEffect
    BY <2>4, <2>6 DEF RendererEffect, Data!Next
  <2> QED
    BY <2>1, <2>5, <2>6, StepEffect
<1> QED
  BY <1>1, <1>2, Invariance, PTL DEF Spec, ImplementsSharedData, Data!Spec

-----------------------------------------------------------------------------
(* Blending                                                                *)

\* A product with a factor from 0 to Max lies between 0 and Max times the other.
LEMMA Scaled ==
  ASSUME NEW x \in Nat, NEW a \in Byte
  PROVE  x * a \in Nat /\ x * a <= x * Max
<1>1. Max \in Nat /\ a \in Nat /\ a <= Max
  BY PixelAssumption DEF Byte
<1>2. x * a \in Nat
  BY <1>1
<1>3. x * Max - x * a = x * (Max - a)
  BY <1>1
<1>4. x * (Max - a) \in Nat
  BY <1>1
<1> QED
  BY <1>1, <1>2, <1>3, <1>4

\* A quotient by Max lies between the multiples of Max on both sides.
LEMMA Quotient ==
  ASSUME NEW s \in Nat, NEW lo \in Nat, NEW hi \in Nat, lo * Max <= s, s <= hi * Max
  PROVE  s \div Max \in Nat /\ lo <= s \div Max /\ s \div Max <= hi
<1>1. Max \in Nat \ {0}
  BY PixelAssumption
<1> DEFINE q == s \div Max
           r == s % Max
<1>2. q \in Int /\ r \in 0 .. Max - 1 /\ s = q * Max + r
  BY <1>1
<1> HIDE DEF q, r
<1>3. lo <= q
  <2> SUFFICES ASSUME q + 1 <= lo PROVE FALSE
    BY <1>2
  <2>1. (lo - q - 1) * Max >= 0
    BY <1>1, <1>2
  <2>2. lo * Max >= q * Max + Max
    BY <1>1, <1>2, <2>1
  <2> QED
    BY <1>1, <1>2, <2>2
<1>4. q <= hi
  <2> SUFFICES ASSUME hi + 1 <= q PROVE FALSE
    BY <1>2
  <2>1. (q - hi - 1) * Max >= 0
    BY <1>1, <1>2
  <2>2. q * Max >= hi * Max + Max
    BY <1>1, <1>2, <2>1
  <2> QED
    BY <1>1, <1>2, <2>2
<1> QED
  BY <1>2, <1>3, <1>4 DEF q

\* A channel never leaves the interval between its two colours.
LEMMA BlendIsBetween ==
  ASSUME NEW old \in Byte, NEW new \in Byte, NEW alpha \in Byte
  PROVE  Blend(old, new, alpha) \in Byte /\ Between(old, Blend(old, new, alpha), new)
<1>0. /\ Max \in Nat
      /\ old \in Nat /\ new \in Nat /\ alpha \in Nat
      /\ old <= Max /\ new <= Max /\ alpha <= Max
  BY PixelAssumption DEF Byte
<1> DEFINE s == old * (Max - alpha) + new * alpha
<1>1. s \in Nat
  BY <1>0
<1>2. CASE old <= new
  <2>1. s = old * Max + (new - old) * alpha
    BY <1>0
  <2>2. (new - old) * alpha \in Nat /\ (new - old) * alpha <= (new - old) * Max
    BY <1>0, <1>2, Scaled
  <2>3. old * Max <= s /\ s <= new * Max
    BY <1>0, <2>1, <2>2
  <2>4. s \div Max \in Nat /\ old <= s \div Max /\ s \div Max <= new
    BY <1>0, <1>1, <2>3, Quotient
  <2> QED
    BY <1>0, <2>4 DEF Blend, Between, Byte
<1>3. CASE new <= old
  <2>1. s = new * Max + (old - new) * (Max - alpha)
    BY <1>0
  <2>2. (old - new) * (Max - alpha) \in Nat /\ (old - new) * (Max - alpha) <= (old - new) * Max
    BY <1>0, <1>3, Scaled DEF Byte
  <2>3. new * Max <= s /\ s <= old * Max
    BY <1>0, <2>1, <2>2
  <2>4. s \div Max \in Nat /\ new <= s \div Max /\ s \div Max <= old
    BY <1>0, <1>1, <2>3, Quotient
  <2> QED
    BY <1>0, <2>4 DEF Blend, Between, Byte
<1> QED
  BY <1>0, <1>2, <1>3

\* An opaque colour replaces the old one, a transparent one leaves it.
LEMMA BlendAtTheEnds ==
  ASSUME NEW old \in Byte, NEW new \in Byte
  PROVE  Blend(old, new, Max) = new /\ Blend(old, new, 0) = old
<1>0. Max \in Nat \ {0} /\ old \in Nat /\ new \in Nat
  BY PixelAssumption DEF Byte
<1>1. (new * Max) \div Max = new /\ (old * Max) \div Max = old
  <2>1. new * Max \in Nat /\ old * Max \in Nat /\ new * Max <= new * Max /\ old * Max <= old * Max
    BY <1>0
  <2>2. (new * Max) \div Max \in Nat /\ new <= (new * Max) \div Max /\ (new * Max) \div Max <= new
    BY <1>0, <2>1, Quotient
  <2>3. (old * Max) \div Max \in Nat /\ old <= (old * Max) \div Max /\ (old * Max) \div Max <= old
    BY <1>0, <2>1, Quotient
  <2> QED
    BY <1>0, <2>2, <2>3
<1>2. old * (Max - Max) + new * Max = new * Max /\ old * (Max - 0) + new * 0 = old * Max
  BY <1>0
<1> QED
  BY <1>1, <1>2 DEF Blend

-----------------------------------------------------------------------------
(* The colours                                                             *)

AllTokens == Tokens \cup {BlackToken}

Goal(ch) == Channel(ColorOf(token))[ch]

\* Each channel is as it was before the drawing, or as the drawing leaves it.
Drawn ==
  \A ch \in Channels :
    pixel[ch] = IF ch \in drawing \/ drawing = {}
                  THEN before[ch]
                  ELSE Blend(before[ch], Goal(ch), Alpha(ColorOf(token)))

\* What an undisturbed read has loaded so far.
LoadedSoFar ==
  busy /\ ~overlap => /\ drawing = {}
                      /\ \A ch \in Channels \ reading : loaded[ch] = before[ch]

\* An opaque drawing leaves its own colour behind.
OpaqueLast == last.digits = 6 => before = Channel(ColorOf(last))

PixelInv == PixelTypeOK /\ Drawn /\ LoadedSoFar /\ OpaqueLast /\ (reading # {} => busy)

\* A colour is a word of four bytes, its channels are bytes, and a colour of
\* six digits is opaque.
LEMMA ColorType ==
  ASSUME NEW t \in AllTokens
  PROVE  /\ ColorOf(t) \in Words
         /\ Channel(ColorOf(t)) \in Pixels
         /\ Alpha(ColorOf(t)) \in Byte
         /\ t.digits = 6 => /\ Alpha(ColorOf(t)) = Max
                            /\ Channel(ColorOf(t))["red"] = t.word[4]
                            /\ Channel(ColorOf(t))["green"] = t.word[3]
                            /\ Channel(ColorOf(t))["blue"] = t.word[2]
<1>0. 0 \in Byte /\ Max \in Byte
  BY PixelAssumption DEF Byte
<1>1. t.word \in Words
  <2>1. CASE t \in Tokens
    BY <2>1, SharedPixelAssumption
  <2>2. CASE t = BlackToken
    BY <1>0, <2>2 DEF BlackToken, Words
  <2> QED
    BY <2>1, <2>2 DEF AllTokens
<1>2. ColorOf(t) \in Words
  BY <1>0, <1>1 DEF ColorOf, Opaque, Words
<1>3. Alpha(ColorOf(t)) \in Byte
  BY <1>2 DEF Alpha, Words
<1>4. Channel(ColorOf(t)) \in Pixels
  <2>1. \A i \in 1 .. 4 : ColorOf(t)[i] \in Byte
    BY <1>2 DEF Words
  <2> QED
    BY <2>1 DEF Channel, Pixels, Channels
<1>5. t.digits = 6 => ColorOf(t) = <<t.word[2], t.word[3], t.word[4], Max>>
  BY DEF ColorOf, Opaque
<1>6. t.digits = 6 => /\ Alpha(ColorOf(t)) = Max
                      /\ Channel(ColorOf(t))["red"] = t.word[4]
                      /\ Channel(ColorOf(t))["green"] = t.word[3]
                      /\ Channel(ColorOf(t))["blue"] = t.word[2]
  BY <1>5 DEF Alpha, Channel, Channels
<1> QED
  BY <1>2, <1>3, <1>4, <1>6

\* The bytes of a reply are those of the pixel.
LEMMA RgbaType ==
  ASSUME NEW p \in Pixels
  PROVE  ToRgba(p) \in Words
<1>1. 0 \in Byte
  BY PixelAssumption DEF Byte
<1> QED
  BY <1>1 DEF ToRgba, Words, Pixels, Channels

-----------------------------------------------------------------------------
(* The invariant of a pixel                                                *)

LEMMA InitPixel == PixelInit => PixelInv
<1> SUFFICES ASSUME PixelInit PROVE PixelInv
  OBVIOUS
<1>0. 0 \in Byte /\ BlackToken \in AllTokens /\ BlackToken.digits = 6
  BY PixelAssumption DEF Byte, AllTokens, BlackToken
<1>1. Black \in Pixels /\ \A ch \in Channels : Black[ch] = 0
  BY <1>0 DEF Black, Pixels
<1>2. PixelTypeOK
  <2>1. <<0, 0, 0, 0>> \in Words
    BY <1>0 DEF Words
  <2> QED
    BY <1>1, <2>1 DEF PixelInit, PixelTypeOK
<1>3. Drawn
  BY <1>1 DEF PixelInit, Drawn
<1>4. OpaqueLast
  <2>1. BlackToken.word = <<0, 0, 0, 0>>
    BY DEF BlackToken
  <2>2. Channel(ColorOf(BlackToken)) \in Pixels
    BY <1>0, ColorType
  <2>3. \A ch \in Channels : Channel(ColorOf(BlackToken))[ch] = 0
    BY <1>0, <2>1, ColorType DEF Channels
  <2>4. Channel(ColorOf(BlackToken)) = Black
    BY <1>1, <2>2, <2>3 DEF Pixels
  <2> QED
    BY <2>4 DEF PixelInit, OpaqueLast
<1> QED
  BY <1>2, <1>3, <1>4 DEF PixelInv, LoadedSoFar, PixelInit

LEMMA StorePixel ==
  ASSUME PixelInv, NEW c \in Channels, StoreChannel(c)
  PROVE  PixelInv'
<1> DEFINE new == Blend(pixel[c], Goal(c), Alpha(ColorOf(token)))
<1>0. /\ token \in AllTokens /\ last \in AllTokens
      /\ pixel \in Pixels /\ before \in Pixels
  BY DEF PixelInv, PixelTypeOK, AllTokens
<1>1. pixel[c] \in Byte /\ Goal(c) \in Byte /\ Alpha(ColorOf(token)) \in Byte
  BY <1>0, ColorType DEF Goal, Pixels
<1>2. new \in Byte
  BY <1>1, BlendIsBetween
<1>3. /\ c \in drawing
      /\ pixel' = [pixel EXCEPT ![c] = new]
      /\ drawing' = drawing \ {c}
      /\ IF drawing' = {} THEN before' = pixel' /\ last' = token
                          ELSE before' = before /\ last' = last
      /\ UNCHANGED <<token, busy, reading, loaded, reply, overlap>>
  BY DEF StoreChannel, readVars, Goal
<1>4. pixel[c] = before[c]
  BY <1>3 DEF PixelInv, Drawn
<1>5. pixel' \in Pixels
  BY <1>0, <1>2, <1>3 DEF Pixels
<1>6. PixelTypeOK'
  BY <1>3, <1>5 DEF PixelInv, PixelTypeOK
<1>7. \A ch \in Channels :
        pixel'[ch] = IF ch \in drawing' THEN before[ch]
                     ELSE Blend(before[ch], Goal(ch), Alpha(ColorOf(token)))
  <2> TAKE ch \in Channels
  <2>1. CASE ch = c
    BY <1>0, <1>3, <1>4, <2>1 DEF Pixels
  <2>2. CASE ch # c
    BY <1>0, <1>3, <2>2 DEF Pixels, PixelInv, Drawn
  <2> QED
    BY <2>1, <2>2
<1>8. Drawn'
  <2>1. CASE drawing' = {}
    BY <1>3, <2>1 DEF Drawn
  <2>2. CASE drawing' # {}
    BY <1>3, <1>7, <2>2 DEF Drawn, Goal
  <2> QED
    BY <2>1, <2>2
<1>9. OpaqueLast'
  <2>1. CASE drawing' # {}
    BY <1>3, <2>1 DEF PixelInv, OpaqueLast
  <2>2. CASE drawing' = {} /\ token.digits = 6
    <3>1. Alpha(ColorOf(token)) = Max /\ Channel(ColorOf(token)) \in Pixels
      BY <1>0, <2>2, ColorType
    <3>2. \A ch \in Channels : pixel'[ch] = Channel(ColorOf(token))[ch]
      <4> TAKE ch \in Channels
      <4>1. pixel'[ch] = Blend(before[ch], Goal(ch), Max)
        BY <1>7, <2>2, <3>1
      <4>2. before[ch] \in Byte /\ Goal(ch) \in Byte
        BY <1>0, <3>1 DEF Pixels, Goal
      <4> QED
        BY <4>1, <4>2, BlendAtTheEnds DEF Goal
    <3>3. pixel' = Channel(ColorOf(token))
      BY <1>5, <3>1, <3>2 DEF Pixels
    <3> QED
      BY <1>3, <2>2, <3>3 DEF OpaqueLast
  <2>3. CASE drawing' = {} /\ token.digits # 6
    BY <1>3, <2>3 DEF OpaqueLast
  <2> QED
    BY <2>1, <2>2, <2>3
<1>10. LoadedSoFar'
  BY <1>3 DEF PixelInv, LoadedSoFar
<1> QED
  BY <1>3, <1>6, <1>8, <1>9, <1>10 DEF PixelInv

LEMMA NextPixel == PixelInv /\ [PixelNext]_pixelVars => PixelInv'
<1> SUFFICES ASSUME PixelInv, [PixelNext]_pixelVars PROVE PixelInv'
  OBVIOUS
<1>0. 0 \in Byte /\ Black \in Pixels
  BY PixelAssumption DEF Byte, Black, Pixels
<1>1. CASE DrawPoint
  <2>1. PixelTypeOK'
    BY <1>1 DEF PixelInv, PixelTypeOK, DrawPoint, readVars
  <2>2. Drawn'
    BY <1>1 DEF PixelInv, Drawn, DrawPoint
  <2>3. LoadedSoFar'
    BY <1>1 DEF LoadedSoFar, DrawPoint, readVars
  <2> QED
    BY <1>1, <2>1, <2>2, <2>3 DEF PixelInv, OpaqueLast, DrawPoint, readVars
<1>2. CASE \E ch \in Channels : StoreChannel(ch)
  BY <1>2, StorePixel
<1>3. CASE \E ch \in Channels : LoadChannel(ch)
  <2> PICK c \in Channels : LoadChannel(c)
    BY <1>3
  <2>1. /\ c \in reading
        /\ loaded' = [loaded EXCEPT ![c] = pixel[c]]
        /\ reading' = reading \ {c}
        /\ UNCHANGED <<drawVars, busy, reply, overlap>>
    BY DEF LoadChannel
  <2>2. loaded \in Pixels /\ pixel \in Pixels
    BY DEF PixelInv, PixelTypeOK
  <2>3. PixelTypeOK'
    BY <2>1, <2>2 DEF PixelInv, PixelTypeOK, drawVars, Pixels
  <2>4. LoadedSoFar'
    BY <2>1, <2>2 DEF PixelInv, LoadedSoFar, Drawn, drawVars, Pixels
  <2> QED
    BY <2>1, <2>3, <2>4 DEF PixelInv, Drawn, Goal, OpaqueLast, drawVars
<1>4. CASE ReadOutside
  <2>1. PixelTypeOK'
    BY <1>0, <1>4 DEF PixelInv, PixelTypeOK, ReadOutside, drawVars, Words
  <2> QED
    BY <1>4, <2>1 DEF PixelInv, Drawn, Goal, LoadedSoFar, OpaqueLast, ReadOutside, drawVars
<1>5. CASE GetPixel
  <2>1. PixelTypeOK'
    BY <1>5 DEF PixelInv, PixelTypeOK, GetPixel, drawVars
  <2> QED
    BY <1>5, <2>1 DEF PixelInv, Drawn, Goal, LoadedSoFar, OpaqueLast, GetPixel, drawVars
<1>6. CASE Return
  <2>1. ToRgba(loaded) \in Words
    BY RgbaType DEF PixelInv, PixelTypeOK
  <2>2. PixelTypeOK'
    BY <1>0, <1>6, <2>1 DEF PixelInv, PixelTypeOK, Return, drawVars
  <2> QED
    BY <1>6, <2>2 DEF PixelInv, Drawn, Goal, LoadedSoFar, OpaqueLast, Return, drawVars
<1>7. CASE UNCHANGED pixelVars
  BY <1>7 DEF PixelInv, PixelTypeOK, Drawn, Goal, LoadedSoFar, OpaqueLast, pixelVars
<1> QED
  BY <1>1, <1>2, <1>3, <1>4, <1>5, <1>6, <1>7 DEF PixelNext

\* The invariant from which the properties follow, for every width of a byte
\* and every set of colours (pixelAlphaBlend, drawPoint, getPixel).
THEOREM PixelInvariance == PixelSpec => []PixelInv
<1> QED
  BY InitPixel, NextPixel, PTL DEF PixelSpec

-----------------------------------------------------------------------------
(* What follows of a pixel                                                 *)

\* No blending overflows its byte.
THEOREM PixelTypeCorrect == PixelSpec => []PixelTypeOK
<1>1. PixelInv => PixelTypeOK
  BY DEF PixelInv
<1> QED
  BY <1>1, PixelInvariance, PTL

LEMMA BetweenFollows == PixelInv => BlendsBetween
<1> SUFFICES ASSUME PixelInv, NEW ch \in Channels
             PROVE  IF ch \in drawing \/ drawing = {}
                      THEN pixel[ch] = before[ch]
                      ELSE /\ Between(before[ch], pixel[ch], Goal(ch))
                           /\ Alpha(ColorOf(token)) = Max => pixel[ch] = Goal(ch)
                           /\ Alpha(ColorOf(token)) = 0 => pixel[ch] = before[ch]
  BY DEF BlendsBetween, Goal
<1>1. CASE ch \in drawing \/ drawing = {}
  BY <1>1 DEF PixelInv, Drawn
<1>2. CASE ~(ch \in drawing \/ drawing = {})
  <2>1. before[ch] \in Byte /\ Goal(ch) \in Byte /\ Alpha(ColorOf(token)) \in Byte
    BY ColorType DEF PixelInv, PixelTypeOK, AllTokens, Pixels, Goal
  <2>2. pixel[ch] = Blend(before[ch], Goal(ch), Alpha(ColorOf(token)))
    BY <1>2 DEF PixelInv, Drawn
  <2>3. Between(before[ch], pixel[ch], Goal(ch))
    BY <2>1, <2>2, BlendIsBetween
  <2>4. /\ Alpha(ColorOf(token)) = Max => pixel[ch] = Goal(ch)
        /\ Alpha(ColorOf(token)) = 0 => pixel[ch] = before[ch]
    BY <2>1, <2>2, BlendAtTheEnds
  <2> QED
    BY <1>2, <2>3, <2>4
<1> QED
  BY <1>1, <1>2

\* Whoever reads a pixel that is being drawn finds every channel between the
\* old colour and the new one.
THEOREM ChannelsBetween == PixelSpec => []BlendsBetween
<1> QED
  BY BetweenFollows, PixelInvariance, PTL

LEMMA WholeFollows == PixelInv => WholeUnlessOverlapped
<1> SUFFICES ASSUME PixelInv, busy, reading = {}, ~overlap
             PROVE  loaded = before
  BY DEF WholeUnlessOverlapped
<1>1. loaded \in Pixels /\ before \in Pixels
  BY DEF PixelInv, PixelTypeOK
<1>2. \A ch \in Channels : loaded[ch] = before[ch]
  BY DEF PixelInv, LoadedSoFar
<1> QED
  BY <1>1, <1>2 DEF Pixels

\* A read that no drawing overlaps returns one colour, not a mixture.
THEOREM ReadsWhole == PixelSpec => []WholeUnlessOverlapped
<1> QED
  BY WholeFollows, PixelInvariance, PTL

LEMMA ReadsBackFollows == PixelInv => ReadsBack
<1> SUFFICES ASSUME PixelInv, busy, reading = {}, ~overlap, last.digits = 6
             PROVE  ToRgba(loaded) = <<0, last.word[2], last.word[3], last.word[4]>>
  BY DEF ReadsBack
<1>1. loaded = before
  BY WholeFollows DEF PixelInv, WholeUnlessOverlapped
<1>2. before = Channel(ColorOf(last)) /\ last \in AllTokens
  BY DEF PixelInv, OpaqueLast, PixelTypeOK, AllTokens
<1>3. /\ loaded["red"] = last.word[4]
      /\ loaded["green"] = last.word[3]
      /\ loaded["blue"] = last.word[2]
  BY <1>1, <1>2, ColorType
<1> QED
  BY <1>3 DEF ToRgba

\* An opaque colour that is drawn and read undisturbed comes back as it was.
THEOREM ColourComesBack == PixelSpec => []ReadsBack
<1> QED
  BY ReadsBackFollows, PixelInvariance, PTL

=============================================================================

--------------------------- MODULE HandlesProofs ---------------------------
(***************************************************************************)
(* Proofs about Handles, for any number of objects and resources and any   *)
(* width of an iv.  OneOwner is taken apart into what it says of single    *)
(* fields; an assignment is a destruction followed by a construction, so   *)
(* that three lemmas on the giving back, the taking and the handing on of  *)
(* resources serve all the classes.                                        *)
(***************************************************************************)
EXTENDS Handles, TLAPS

\* The objects ob with fields F, over the heap hp.
Typed(F, ob, hp) ==
  /\ ob \in [Obj -> [F -> Res \cup {Null}] \cup {Dead}]
  /\ hp \in [Res -> Nonce \cup {Free}]

(* What a field points to is in use and was not written over, no two       *)
(* fields point to the same, and what is in use is in a field or was       *)
(* written over.                                                           *)
Sound(F, ob, hp, rep) ==
  /\ \A o \in Obj, f \in F :
       ob[o] # Dead /\ ob[o][f] # Null => hp[ob[o][f]] # Free /\ ob[o][f] \notin rep
  /\ \A o, p \in Obj, f, g \in F :
       ob[o] # Dead /\ ob[p] # Dead /\ ob[o][f] = ob[p][g] /\ ob[o][f] # Null
         => o = p /\ f = g
  /\ \A r \in Res :
       hp[r] # Free => r \in rep \/ \E o \in Obj, f \in F : ob[o] # Dead /\ ob[o][f] = r
  /\ rep \subseteq Res /\ \A r \in rep : hp[r] # Free

(* The BIGNUMs of a program that copies none have ivs of their own, and    *)
(* each is ahead of what was sealed under its iv.                          *)
Ahead ==
  /\ class # "aead" => ~repeated
  /\ class = "aead" /\ events \cap {"copied", "overflow"} = {} =>
       /\ ~repeated
       /\ \A r \in Res : heap[r] # Free => heap[r].iv \in drawn
       /\ \A q, r \in Res :
            heap[q] # Free /\ heap[r] # Free /\ heap[q].iv = heap[r].iv => q = r
       /\ \A x \in sealed :
            /\ x \in Nonce /\ x.iv \in drawn
            /\ \A r \in Res : heap[r] # Free /\ heap[r].iv = x.iv => x.n < heap[r].n

IInv ==
  /\ TypeOK
  /\ "dangling" \notin events => Sound(Fields, obj, heap, replaced)
  /\ Ahead

-----------------------------------------------------------------------------
(* Giving back, taking and handing on *)

(* An object that is destroyed gives back what it owns, and nobody else's. *)
LEMMA Giving ==
  ASSUME NEW F, Dead \notin [F -> Res \cup {Null}], Null \notin Res,
         NEW ob, NEW hp, NEW rep, Typed(F, ob, hp), Sound(F, ob, hp, rep),
         NEW o \in Obj, ob[o] # Dead,
         NEW hq, hq = [r \in Res |-> IF r \in {ob[o][f] : f \in F} \ {Null} THEN Free ELSE hp[r]]
  PROVE  /\ Typed(F, [ob EXCEPT ![o] = Dead], hq)
         /\ Sound(F, [ob EXCEPT ![o] = Dead], hq, rep)
<1> DEFINE oc == [ob EXCEPT ![o] = Dead]
<1>1. Typed(F, oc, hq)
  BY DEF Typed
<1>2. \A p \in Obj : /\ p = o => oc[p] = Dead
                     /\ p # o => oc[p] = ob[p]
  BY DEF Typed
<1>3. \A p \in Obj, f \in F : ob[p] # Dead => ob[p][f] \in Res \cup {Null}
  BY DEF Typed
<1>4. \A r \in Res : /\ (\E f \in F : ob[o][f] = r) => hq[r] = Free
                     /\ (\A f \in F : ob[o][f] # r) => hq[r] = hp[r]
  OBVIOUS
<1> HIDE DEF oc
<1>5. \A p \in Obj, f \in F :
        oc[p] # Dead /\ oc[p][f] # Null => hq[oc[p][f]] # Free /\ oc[p][f] \notin rep
  BY <1>2, <1>3, <1>4 DEF Sound
<1>6. \A p, q \in Obj, f, g \in F :
        oc[p] # Dead /\ oc[q] # Dead /\ oc[p][f] = oc[q][g] /\ oc[p][f] # Null
          => p = q /\ f = g
  BY <1>2 DEF Sound
<1>7. \A r \in Res :
        hq[r] # Free => r \in rep \/ \E p \in Obj, f \in F : oc[p] # Dead /\ oc[p][f] = r
  BY <1>2, <1>4 DEF Sound
<1>8. rep \subseteq Res /\ \A r \in rep : hq[r] # Free
  BY <1>4 DEF Sound
<1> QED
  BY <1>1, <1>5, <1>6, <1>7, <1>8 DEF Sound, oc

(* A new object takes resources that were free, each for one of its fields.*)
LEMMA Taking ==
  ASSUME NEW F, Dead \notin [F -> Res \cup {Null}], Null \notin Res,
         NEW ob, NEW hp, NEW rep, Typed(F, ob, hp), Sound(F, ob, hp, rep),
         NEW o \in Obj, ob[o] = Dead,
         NEW fields \in [F -> Res \cup {Null}],
         \A f \in F : fields[f] # Null => hp[fields[f]] = Free,
         \A f, g \in F : fields[f] = fields[g] /\ f # g => fields[f] = Null,
         NEW hq \in [Res -> Nonce \cup {Free}],
         \A r \in Res : hq[r] # Free <=> hp[r] # Free \/ \E f \in F : fields[f] = r
  PROVE  /\ Typed(F, [ob EXCEPT ![o] = fields], hq)
         /\ Sound(F, [ob EXCEPT ![o] = fields], hq, rep)
<1> DEFINE oc == [ob EXCEPT ![o] = fields]
<1>1. Typed(F, oc, hq)
  BY DEF Typed
<1>2. \A p \in Obj : /\ p = o => oc[p] = fields
                     /\ p # o => oc[p] = ob[p]
  BY DEF Typed
<1>3. /\ \A p \in Obj, f \in F : ob[p] # Dead => ob[p][f] \in Res \cup {Null}
      /\ \A f \in F : fields[f] \in Res \cup {Null}
      /\ fields # Dead
  BY DEF Typed
<1> HIDE DEF oc
<1>4. \A p \in Obj, f \in F :
        oc[p] # Dead /\ oc[p][f] # Null => hq[oc[p][f]] # Free /\ oc[p][f] \notin rep
  BY <1>2, <1>3 DEF Sound
<1>5. \A p, q \in Obj, f, g \in F :
        oc[p] # Dead /\ oc[q] # Dead /\ oc[p][f] = oc[q][g] /\ oc[p][f] # Null
          => p = q /\ f = g
  BY <1>2, <1>3 DEF Sound
<1>6. \A r \in Res :
        hq[r] # Free => r \in rep \/ \E p \in Obj, f \in F : oc[p] # Dead /\ oc[p][f] = r
  BY <1>2, <1>3 DEF Sound
<1>7. rep \subseteq Res /\ \A r \in rep : hq[r] # Free
  BY DEF Sound
<1> QED
  BY <1>1, <1>4, <1>5, <1>6, <1>7 DEF Sound, oc

(* An object made of another one takes its resources and leaves it none.   *)
LEMMA Handing ==
  ASSUME NEW F, Dead \notin [F -> Res \cup {Null}], Null \notin Res,
         NEW ob, NEW hp, NEW rep, Typed(F, ob, hp), Sound(F, ob, hp, rep),
         NEW o \in Obj, ob[o] = Dead, NEW p \in Obj, ob[p] # Dead,
         NEW oc, oc = [ob EXCEPT ![o] = ob[p], ![p] = [f \in F |-> Null]]
  PROVE  Typed(F, oc, hp) /\ Sound(F, oc, hp, rep)
<1> DEFINE nothing == [f \in F |-> Null]
<1>1. nothing \in [F -> Res \cup {Null}]
  OBVIOUS
<1>2. Typed(F, oc, hp)
  BY <1>1 DEF Typed
<1>3. \A q \in Obj : /\ q = o => oc[q] = ob[p]
                     /\ q = p => oc[q] = nothing
                     /\ q # o /\ q # p => oc[q] = ob[q]
  BY DEF Typed
<1>4. \A f \in F : nothing[f] = Null
  OBVIOUS
<1> HIDE DEF nothing
<1>5. \A q \in Obj, f \in F :
        oc[q] # Dead /\ oc[q][f] # Null => hp[oc[q][f]] # Free /\ oc[q][f] \notin rep
  <2> SUFFICES ASSUME NEW q \in Obj, NEW f \in F, oc[q] # Dead, oc[q][f] # Null
               PROVE  hp[oc[q][f]] # Free /\ oc[q][f] \notin rep
    OBVIOUS
  <2>1. PICK s \in Obj : ob[s] # Dead /\ oc[q] = ob[s]
    BY <1>3, <1>4
  <2> QED
    BY <2>1 DEF Sound
<1>6. \A q, s \in Obj, f, g \in F :
        oc[q] # Dead /\ oc[s] # Dead /\ oc[q][f] = oc[s][g] /\ oc[q][f] # Null
          => q = s /\ f = g
  BY <1>3, <1>4 DEF Sound
<1>7. \A r \in Res :
        hp[r] # Free => r \in rep \/ \E q \in Obj, f \in F : oc[q] # Dead /\ oc[q][f] = r
  <2> SUFFICES ASSUME NEW r \in Res, hp[r] # Free, r \notin rep
               PROVE  \E q \in Obj, f \in F : oc[q] # Dead /\ oc[q][f] = r
    OBVIOUS
  <2>1. PICK s \in Obj, f \in F : ob[s] # Dead /\ ob[s][f] = r
    BY DEF Sound
  <2>2. CASE s = p
    <3>1. oc[o] # Dead /\ oc[o][f] = r
      BY <1>3, <2>1, <2>2
    <3> QED
      BY <3>1
  <2>3. CASE s # p
    <3>1. oc[s] # Dead /\ oc[s][f] = r
      BY <1>3, <2>1, <2>3
    <3> QED
      BY <3>1
  <2> QED
    BY <2>2, <2>3
<1> QED
  BY <1>2, <1>5, <1>6, <1>7 DEF Sound

(* Writing to a resource in use changes no owner.                          *)
LEMMA Writing ==
  ASSUME NEW F, NEW ob, NEW hp, NEW rep, Typed(F, ob, hp), Sound(F, ob, hp, rep),
         NEW hq \in [Res -> Nonce \cup {Free}],
         \A r \in Res : hq[r] # Free <=> hp[r] # Free
  PROVE  Typed(F, ob, hq) /\ Sound(F, ob, hq, rep)
<1>1. \A o \in Obj, f \in F : ob[o] # Dead => ob[o][f] \in Res \cup {Null}
  BY DEF Typed
<1>2. QED
  BY <1>1 DEF Typed, Sound

-----------------------------------------------------------------------------
(* The steps *)

LEMMA ClassFacts ==
  ASSUME TypeOK
  PROVE  /\ Typed(Fields, obj, heap)
         /\ Dead \notin [Fields -> Res \cup {Null}]
         /\ Null \notin Res
         /\ class # "aead" => \A f, g \in Fields : f = g
         /\ class = "aead" => Fields = {"m_enc_iv", "m_dec_iv"}
         /\ Nothing \in [Fields -> Res \cup {Null}]
         /\ Held \in Nonce /\ Free \notin Nonce
<1>1. class \in DOMAIN FieldsOf
  BY DEF TypeOK
<1>2. class \in {"fd", "ring", "aead"}
  BY <1>1 DEF FieldsOf
<1>3. /\ class = "fd" => Fields = {"m_fd"}
      /\ class = "ring" => Fields = {"m_base"}
      /\ class = "aead" => Fields = {"m_enc_iv", "m_dec_iv"}
  BY DEF Fields, FieldsOf
<1>4. Dead \notin [Fields -> Res \cup {Null}] /\ Null \notin Res
  BY <1>1, HandlesAssumption DEF Fields
<1>5. Typed(Fields, obj, heap)
  BY DEF TypeOK, Typed
<1>6. Nothing \in [Fields -> Res \cup {Null}]
  BY DEF Nothing
<1>7. Held \in Nonce /\ Free \notin Nonce
  BY HandlesAssumption DEF Held, Nonce
<1>8. QED
  BY <1>2, <1>3, <1>4, <1>5, <1>6, <1>7

\* What a step has to keep of objects and heap.
Kept ==
  /\ class' = class
  /\ Typed(Fields, obj', heap')
  /\ "dangling" \notin events' => Sound(Fields, obj', heap', replaced')

\* What the steps start from.
Before == TypeOK /\ Sound(Fields, obj, heap, replaced)

LEMMA ConstructKept ==
  ASSUME Before, NEW o \in Obj, ConstructEmpty(o) \/ Construct(o)
  PROVE  Kept
<1>1. CASE ConstructEmpty(o)
  <2>1. /\ obj[o] = Dead /\ obj' = [obj EXCEPT ![o] = Nothing]
        /\ UNCHANGED <<class, heap, replaced>>
    BY <1>1 DEF ConstructEmpty, Alive
  <2>2. /\ \A f \in Fields : Nothing[f] = Null
        /\ heap \in [Res -> Nonce \cup {Free}]
    BY DEF Nothing, Before, TypeOK
  <2>3. ~ \E r \in Res, f \in Fields : Nothing[f] = r
    BY <2>2, ClassFacts DEF Before
  <2>4. QED
    BY <2>1, <2>2, <2>3, ClassFacts, Taking DEF Before, Kept
<1>2. CASE Construct(o)
  <2>1. PICK r \in Unused :
          /\ obj' = [obj EXCEPT ![o] = [f \in Fields |-> r]]
          /\ heap' = [heap EXCEPT ![r] = Held]
    BY <1>2 DEF Construct
  <2>2. /\ obj[o] = Dead /\ class # "aead" /\ r \in Res /\ heap[r] = Free
        /\ UNCHANGED <<class, replaced>>
    BY <1>2, <2>1 DEF Construct, Alive, Unused
  <2> DEFINE fields == [f \in Fields |-> r]
  <2>3. /\ fields \in [Fields -> Res \cup {Null}]
        /\ \A f \in Fields : fields[f] = r
    BY <2>2
  <2>4. \A f, g \in Fields : f = g
    BY <2>2, ClassFacts DEF Before
  <2>5. /\ heap' \in [Res -> Nonce \cup {Free}]
        /\ heap'[r] # Free
        /\ \A q \in Res : q # r => heap'[q] = heap[q]
    BY <2>1, <2>2, ClassFacts DEF Before, TypeOK
  <2>6. \E f \in Fields : TRUE
    BY <2>2, <1>2 DEF Before, TypeOK, Fields, FieldsOf
  <2>7. \A q \in Res : heap'[q] # Free <=> heap[q] # Free \/ \E f \in Fields : fields[f] = q
    BY <2>3, <2>5, <2>6
  <2> HIDE DEF fields
  <2>8. /\ Typed(Fields, [obj EXCEPT ![o] = fields], heap')
        /\ Sound(Fields, [obj EXCEPT ![o] = fields], heap', replaced)
    BY <2>2, <2>3, <2>4, <2>5, <2>7, ClassFacts, Taking DEF Before
  <2>9. QED
    BY <2>1, <2>2, <2>8 DEF Kept, fields
<1>3. QED
  BY <1>1, <1>2

(* What o owned is back on the heap, and o can be filled anew.             *)
LEMMA ReleasedFacts ==
  ASSUME Before, NEW o \in Obj, Alive(o)
  PROVE  /\ Typed(Fields, [obj EXCEPT ![o] = Dead], Released(o))
         /\ Sound(Fields, [obj EXCEPT ![o] = Dead], Released(o), replaced)
<1>1. Released(o) =
        [r \in Res |-> IF r \in {obj[o][f] : f \in Fields} \ {Null} THEN Free ELSE heap[r]]
  BY DEF Released, Owned
<1>2. QED
  BY <1>1, ClassFacts, Giving DEF Before, Alive

LEMMA DestroyKept ==
  ASSUME Before, NEW o \in Obj, Destroy(o)
  PROVE  Kept
  BY ReleasedFacts DEF Destroy, Kept

LEMMA MoveKept ==
  ASSUME Before, NEW o \in Obj, NEW p \in Obj, MoveConstruct(o, p) \/ MoveAssign(o, p)
  PROVE  Kept
<1>1. CASE MoveConstruct(o, p)
  <2>1. /\ obj[o] = Dead /\ obj[p] # Dead
        /\ obj' = [obj EXCEPT ![o] = obj[p], ![p] = [f \in Fields |-> Null]]
        /\ UNCHANGED <<class, heap, replaced>>
    BY <1>1 DEF MoveConstruct, Move, Alive, Nothing
  <2>2. QED
    BY <2>1, ClassFacts, Handing DEF Before, Kept
<1>2. CASE MoveAssign(o, p)
  <2> DEFINE ob == [obj EXCEPT ![o] = Dead]
  <2>1. /\ o # p /\ Alive(o) /\ obj[p] # Dead
        /\ obj' = [obj EXCEPT ![o] = obj[p], ![p] = [f \in Fields |-> Null]]
        /\ heap' = Released(o)
        /\ UNCHANGED <<class, replaced>>
    BY <1>2 DEF MoveAssign, Move, Alive, Nothing
  <2>2. Typed(Fields, ob, Released(o)) /\ Sound(Fields, ob, Released(o), replaced)
    BY <2>1, ReleasedFacts
  <2>3. ob[o] = Dead /\ ob[p] = obj[p]
    BY <2>1 DEF Before, TypeOK
  <2>4. obj' = [ob EXCEPT ![o] = ob[p], ![p] = [f \in Fields |-> Null]]
    <3>1. obj \in [Obj -> [Fields -> Res \cup {Null}] \cup {Dead}]
      BY DEF Before, TypeOK
    <3>2. [obj EXCEPT ![o] = obj[p]] = [ob EXCEPT ![o] = obj[p]]
      BY <3>1
    <3>3. QED
      BY <2>1, <2>3, <3>2
  <2> HIDE DEF ob
  <2>5. Dead \notin [Fields -> Res \cup {Null}] /\ Null \notin Res
    BY ClassFacts DEF Before
  <2>6. Typed(Fields, obj', Released(o)) /\ Sound(Fields, obj', Released(o), replaced)
    <3> HIDE DEF Released
    <3>1. ob[p] # Dead
      BY <2>1, <2>3
    <3>2. QED
      BY <2>2, <2>3, <2>4, <2>5, <3>1, Handing
  <2>7. QED
    BY <2>1, <2>6 DEF Kept
<1>3. QED
  BY <1>1, <1>2

(* A copy of p, made over the heap h, takes resources that h has free and  *)
(* writes to no other.                                                     *)
LEMMA CopyFacts ==
  ASSUME Before, NEW ob, NEW h, Typed(Fields, ob, h), Sound(Fields, ob, h, replaced),
         NEW o \in Obj, ob[o] = Dead, NEW p \in Obj, ob[p] # Dead, ob[p] = obj[p],
         NEW fields \in [Fields -> Res \cup {Null}], CopyOf(p, fields, h)
  PROVE  /\ Typed(Fields, [ob EXCEPT ![o] = fields], CopiedHeap(p, fields, h))
         /\ Sound(Fields, [ob EXCEPT ![o] = fields], CopiedHeap(p, fields, h), replaced)
<1> DEFINE hq == CopiedHeap(p, fields, h)
<1>1. /\ \A f \in Fields : fields[f] # Null => h[fields[f]] = Free
      /\ \A f, g \in Fields : fields[f] = fields[g] /\ f # g => fields[f] = Null
  BY DEF CopyOf
<1>2. h \in [Res -> Nonce \cup {Free}]
  BY DEF Typed
<1>3. \A r \in Res :
        /\ hq[r] \in Nonce \cup {Free}
        /\ hq[r] # Free <=> h[r] # Free \/ \E f \in Fields : fields[f] = r
  <2> SUFFICES ASSUME NEW r \in Res
               PROVE  /\ hq[r] \in Nonce \cup {Free}
                      /\ hq[r] # Free <=> h[r] # Free \/ \E f \in Fields : fields[f] = r
    OBVIOUS
  <2>1. CASE \E f \in Fields : fields[f] = r
    <3> DEFINE f == CHOOSE f \in Fields : fields[f] = r
    <3>1. f \in Fields /\ fields[f] = r
      BY <2>1
    <3>2. hq[r] = IF obj[p][f] = Null THEN Held ELSE h[obj[p][f]]
      BY <2>1 DEF CopiedHeap
    <3> HIDE DEF f, hq
    <3>3. obj[p][f] \in Res \cup {Null}
      BY <3>1 DEF Before, TypeOK
    <3>4. obj[p][f] # Null => h[obj[p][f]] # Free
      BY <3>1 DEF Sound
    <3>5. hq[r] \in Nonce \cup {Free} /\ hq[r] # Free
      BY <1>2, <3>2, <3>3, <3>4, ClassFacts DEF Before
    <3>6. QED
      BY <2>1, <3>5
  <2>2. CASE ~ \E f \in Fields : fields[f] = r
    <3>1. hq[r] = h[r]
      BY <2>2 DEF CopiedHeap
    <3>2. QED
      BY <1>2, <2>2, <3>1
  <2>3. QED
    BY <2>1, <2>2
<1>4. hq = [r \in Res |-> hq[r]]
  BY DEF CopiedHeap
<1> HIDE DEF hq
<1>5. hq \in [Res -> Nonce \cup {Free}]
  BY <1>3, <1>4
<1>6. Dead \notin [Fields -> Res \cup {Null}] /\ Null \notin Res
  BY ClassFacts DEF Before
<1>7. /\ Typed(Fields, [ob EXCEPT ![o] = fields], hq)
      /\ Sound(Fields, [ob EXCEPT ![o] = fields], hq, replaced)
  BY <1>1, <1>3, <1>5, <1>6, Taking
<1>8. QED
  BY <1>7 DEF hq

LEMMA CopyKept ==
  ASSUME Before, NEW o \in Obj, NEW p \in Obj,
         CopyConstruct(o, p) \/ CopyAssign(o, p) \/ CopyAssignThrows(o, p)
  PROVE  Kept
<1>1. CASE CopyConstruct(o, p)
  <2>1. /\ obj[o] = Dead /\ obj[p] # Dead /\ Copy(o, p, heap)
    BY <1>1 DEF CopyConstruct, Alive
  <2>2. PICK fields \in [Fields -> Res \cup {Null}] :
          /\ CopyOf(p, fields, heap)
          /\ obj' = [obj EXCEPT ![o] = fields]
          /\ heap' = CopiedHeap(p, fields, heap)
          /\ UNCHANGED <<class, replaced>>
    BY <2>1 DEF Copy
  <2>3. Typed(Fields, obj, heap) /\ Sound(Fields, obj, heap, replaced)
    BY ClassFacts DEF Before
  <2>4. QED
    BY <2>1, <2>2, <2>3, CopyFacts DEF Kept
<1>2. CASE CopyAssign(o, p)
  <2> DEFINE ob == [obj EXCEPT ![o] = Dead]
  <2>1. /\ o # p /\ Alive(o) /\ obj[p] # Dead /\ Copy(o, p, Released(o))
    BY <1>2 DEF CopyAssign, Alive
  <2>2. PICK fields \in [Fields -> Res \cup {Null}] :
          /\ CopyOf(p, fields, Released(o))
          /\ obj' = [obj EXCEPT ![o] = fields]
          /\ heap' = CopiedHeap(p, fields, Released(o))
          /\ UNCHANGED <<class, replaced>>
    BY <2>1 DEF Copy
  <2>3. Typed(Fields, ob, Released(o)) /\ Sound(Fields, ob, Released(o), replaced)
    BY <2>1, ReleasedFacts
  <2>4. ob[o] = Dead /\ ob[p] = obj[p]
    BY <2>1 DEF Before, TypeOK
  <2>5. obj' = [ob EXCEPT ![o] = fields]
    BY <2>2 DEF Before, TypeOK
  <2> HIDE DEF ob
  <2>6. Typed(Fields, obj', heap') /\ Sound(Fields, obj', heap', replaced)
    <3> HIDE DEF Released
    <3>1. ob[p] # Dead
      BY <2>1, <2>4
    <3>2. /\ Typed(Fields, [ob EXCEPT ![o] = fields], CopiedHeap(p, fields, Released(o)))
          /\ Sound(Fields, [ob EXCEPT ![o] = fields], CopiedHeap(p, fields, Released(o)),
                   replaced)
      BY <2>2, <2>3, <2>4, <3>1, CopyFacts
    <3>3. QED
      BY <2>2, <2>5, <3>2
  <2>7. QED
    BY <2>2, <2>6 DEF Kept
<1>3. CASE CopyAssignThrows(o, p)
  <2>1. /\ Alive(o) /\ heap' = Released(o) /\ "dangling" \in events'
        /\ UNCHANGED <<class, obj>>
    BY <1>3 DEF CopyAssignThrows
  <2>2. Typed(Fields, obj, heap')
    BY <2>1, ReleasedFacts, ClassFacts DEF Before, Typed
  <2>3. QED
    BY <2>1, <2>2 DEF Kept
<1>4. QED
  BY <1>1, <1>2, <1>3

(* A BIGNUM takes the place of what the field held, and that is recorded.  *)
LEMMA InitIvKept ==
  ASSUME Before, NEW o \in Obj, NEW f, NEW iv \in Iv, InitIv(o, f, iv)
  PROVE  Kept
<1>1. /\ f \in Fields /\ obj[o] # Dead /\ class' = class
      /\ replaced' = replaced \cup ({obj[o][f]} \ {Null})
  BY DEF InitIv, Alive
<1>2. PICK v \in Res \cup {Null} :
        /\ obj' = [obj EXCEPT ![o][f] = v]
        /\ v # Null => heap[v] = Free /\ heap' = [heap EXCEPT ![v] = [iv |-> iv, n |-> 0]]
        /\ v = Null => heap' = heap
  <2>1. CASE \E r \in Unused : /\ obj' = [obj EXCEPT ![o][f] = r]
                              /\ heap' = [heap EXCEPT ![r] = [iv |-> iv, n |-> 0]]
    BY <2>1, ClassFacts DEF Before, Unused
  <2>2. CASE obj' = [obj EXCEPT ![o][f] = Null] /\ UNCHANGED heap
    BY <2>2
  <2>3. QED
    BY <2>1, <2>2 DEF InitIv
<1>3. /\ obj \in [Obj -> [Fields -> Res \cup {Null}] \cup {Dead}]
      /\ heap \in [Res -> Nonce \cup {Free}]
      /\ Null \notin Res /\ Dead \notin [Fields -> Res \cup {Null}]
      /\ [iv |-> iv, n |-> 0] \in Nonce /\ Free \notin Nonce
  BY ClassFacts DEF Before, TypeOK, Nonce
<1>4. Typed(Fields, obj', heap')
  BY <1>1, <1>2, <1>3 DEF Typed
<1>5. /\ \A p \in Obj : obj'[p] # Dead <=> obj[p] # Dead
      /\ \A p \in Obj, g \in Fields :
           obj[p] # Dead => /\ p = o /\ g = f => obj'[p][g] = v
                            /\ p # o \/ g # f => obj'[p][g] = obj[p][g]
      /\ \A p \in Obj, g \in Fields : obj[p] # Dead => obj[p][g] \in Res \cup {Null}
  BY <1>1, <1>2, <1>3
<1>6. \A r \in Res : heap'[r] # Free <=> heap[r] # Free \/ r = v
  BY <1>2, <1>3
<1>7. \A p \in Obj, g \in Fields :
        obj'[p] # Dead /\ obj'[p][g] # Null
          => heap'[obj'[p][g]] # Free /\ obj'[p][g] \notin replaced'
  <2> SUFFICES ASSUME NEW p \in Obj, NEW g \in Fields, obj'[p] # Dead, obj'[p][g] # Null
               PROVE  heap'[obj'[p][g]] # Free /\ obj'[p][g] \notin replaced'
    OBVIOUS
  <2>1. CASE p = o /\ g = f
    BY <1>1, <1>2, <1>5, <1>6, <2>1 DEF Before, Sound
  <2>2. CASE p # o \/ g # f
    BY <1>1, <1>5, <1>6, <2>2 DEF Before, Sound
  <2>3. QED
    BY <2>1, <2>2
<1>8. \A p, q \in Obj, g, k \in Fields :
        obj'[p] # Dead /\ obj'[q] # Dead /\ obj'[p][g] = obj'[q][k] /\ obj'[p][g] # Null
          => p = q /\ g = k
  BY <1>1, <1>2, <1>5 DEF Before, Sound
<1>9. \A r \in Res :
        heap'[r] # Free =>
          r \in replaced' \/ \E p \in Obj, g \in Fields : obj'[p] # Dead /\ obj'[p][g] = r
  <2> SUFFICES ASSUME NEW r \in Res, heap'[r] # Free, r \notin replaced'
               PROVE  \E p \in Obj, g \in Fields : obj'[p] # Dead /\ obj'[p][g] = r
    OBVIOUS
  <2>1. CASE r = v
    BY <1>1, <1>5, <2>1
  <2>2. CASE r # v
    <3>1. PICK p \in Obj, g \in Fields : obj[p] # Dead /\ obj[p][g] = r
      BY <1>1, <1>6, <2>2 DEF Before, Sound
    <3>2. p # o \/ g # f
      BY <1>1, <1>3, <3>1
    <3>3. QED
      BY <1>5, <3>1, <3>2
  <2>3. QED
    BY <2>1, <2>2
<1>10. replaced' \subseteq Res /\ \A r \in replaced' : heap'[r] # Free
  BY <1>1, <1>5, <1>6 DEF Before, Sound
<1>11. QED
  BY <1>1, <1>4, <1>7, <1>8, <1>9, <1>10 DEF Kept, Sound

LEMMA CounterKept ==
  ASSUME Before, NEW o \in Obj, Decrypt(o) \/ \E ok \in BOOLEAN : Encrypt(o, ok)
  PROVE  Kept
<1>1. PICK f \in Fields :
        /\ obj[o] # Dead /\ obj[o][f] # Null
        /\ heap' = [heap EXCEPT ![obj[o][f]] = Advanced(@)]
        /\ UNCHANGED <<class, obj, replaced>>
  BY ClassFacts DEF Before, Decrypt, Encrypt, Ready, Alive
<1>2. obj[o][f] \in Res /\ heap[obj[o][f]] \in Nonce
  BY <1>1 DEF Before, TypeOK, Sound
<1>3. Advanced(heap[obj[o][f]]) \in Nonce
  BY <1>2 DEF Advanced, Nonce
<1>4. /\ heap' \in [Res -> Nonce \cup {Free}]
      /\ \A r \in Res : heap'[r] # Free <=> heap[r] # Free
  BY <1>1, <1>2, <1>3, ClassFacts DEF Before, TypeOK
<1>5. QED
  BY <1>1, <1>4, ClassFacts, Writing DEF Before, Kept

-----------------------------------------------------------------------------
(* The inductive invariant *)

\* A step of one object, or of two.
Step(o) ==
  \/ ConstructEmpty(o)
  \/ Construct(o)
  \/ Destroy(o)
  \/ \E p \in Obj :
       \/ MoveConstruct(o, p)
       \/ MoveAssign(o, p)
       \/ CopyConstruct(o, p)
       \/ CopyAssign(o, p)
       \/ CopyAssignThrows(o, p)
  \/ \E f \in {"m_enc_iv", "m_dec_iv"}, iv \in Iv : InitIv(o, f, iv)
  \/ \E ok \in BOOLEAN : Encrypt(o, ok)
  \/ Decrypt(o)

LEMMA StepKept ==
  ASSUME Before, NEW o \in Obj, Step(o)
  PROVE  Kept
<1>1. CASE ConstructEmpty(o) \/ Construct(o)
  BY <1>1, ConstructKept
<1>2. CASE Destroy(o)
  BY <1>2, DestroyKept
<1>3. ASSUME NEW p \in Obj, MoveConstruct(o, p) \/ MoveAssign(o, p)
      PROVE  Kept
  BY <1>3, MoveKept
<1>4. ASSUME NEW p \in Obj,
             CopyConstruct(o, p) \/ CopyAssign(o, p) \/ CopyAssignThrows(o, p)
      PROVE  Kept
  BY <1>4, CopyKept
<1>5. ASSUME NEW f \in {"m_enc_iv", "m_dec_iv"}, NEW iv \in Iv, InitIv(o, f, iv)
      PROVE  Kept
  BY <1>5, InitIvKept
<1>6. CASE Decrypt(o) \/ \E ok \in BOOLEAN : Encrypt(o, ok)
  BY <1>6, CounterKept
<1>7. QED
  BY <1>1, <1>2, <1>3, <1>4, <1>5, <1>6 DEF Step

\* The types of what a step has besides objects and heap.
HistoryTyped ==
  /\ ivbuf \in Nonce \cup {Null}
  /\ drawn \subseteq Iv
  /\ sealed \subseteq Nonce \cup {Null}
  /\ repeated \in BOOLEAN
  /\ replaced \subseteq Res
  /\ events \subseteq {"copied", "dangling", "overflow"}

(* A step that seals nothing and draws nothing, and of a program without   *)
(* copies leaves what is in use as it is.                                  *)
LEMMA QuietAhead ==
  ASSUME Ahead, UNCHANGED <<class, nonces>>, events \subseteq events',
         class = "aead" /\ "copied" \notin events' =>
           \A r \in Res : heap'[r] # Free => heap'[r] = heap[r]
  PROVE  Ahead'
<1>1. CASE class = "aead" /\ events' \cap {"copied", "overflow"} = {}
  <2>1. events \cap {"copied", "overflow"} = {}
    BY <1>1
  <2>2. \A r \in Res : heap'[r] # Free => heap'[r] = heap[r]
    BY <1>1
  <2>3. QED
    BY <1>1, <2>1, <2>2 DEF Ahead, nonces
<1>2. CASE class # "aead"
  BY <1>2 DEF Ahead, nonces
<1>3. CASE events' \cap {"copied", "overflow"} # {} /\ class = "aead"
  BY <1>3 DEF Ahead, nonces
<1>4. QED
  BY <1>1, <1>2, <1>3

LEMMA QuietHistory ==
  ASSUME Before, Ahead, Kept, NEW o \in Obj,
         \/ ConstructEmpty(o) \/ Construct(o) \/ Destroy(o)
         \/ \E p \in Obj : MoveConstruct(o, p) \/ MoveAssign(o, p) \/ CopyConstruct(o, p)
                             \/ CopyAssign(o, p) \/ CopyAssignThrows(o, p)
  PROVE  HistoryTyped' /\ Ahead'
<1>1. \A q \in Obj, r \in Res : Released(q)[r] # Free => Released(q)[r] = heap[r]
  BY DEF Released
<1>2. /\ UNCHANGED <<class, nonces, replaced>>
      /\ events \subseteq events'
      /\ events' \subseteq events \cup {"copied", "dangling"}
      /\ class = "aead" /\ "copied" \notin events' =>
           \A r \in Res : heap'[r] # Free => heap'[r] = heap[r]
  <2>1. CASE ConstructEmpty(o)
    BY <2>1 DEF ConstructEmpty
  <2>2. CASE Construct(o)
    BY <2>2 DEF Construct
  <2>3. CASE Destroy(o)
    BY <1>1, <2>3 DEF Destroy
  <2>4. ASSUME NEW p \in Obj, MoveConstruct(o, p) \/ MoveAssign(o, p)
        PROVE  /\ UNCHANGED <<class, nonces, replaced, events>>
               /\ \A r \in Res : heap'[r] # Free => heap'[r] = heap[r]
    BY <1>1, <2>4 DEF MoveConstruct, MoveAssign, Move
  <2>5. ASSUME NEW p \in Obj, CopyConstruct(o, p) \/ CopyAssign(o, p)
        PROVE  UNCHANGED <<class, nonces, replaced>> /\ events' = events \cup {"copied"}
    BY <2>5 DEF CopyConstruct, CopyAssign, Copy
  <2>6. ASSUME NEW p \in Obj, CopyAssignThrows(o, p)
        PROVE  /\ UNCHANGED <<class, nonces, replaced>>
               /\ events' = events \cup {"dangling"} /\ class = "ring"
    BY <2>6 DEF CopyAssignThrows
  <2>7. QED
    BY <2>1, <2>2, <2>3, <2>4, <2>5, <2>6
<1>3. HistoryTyped'
  BY <1>2 DEF Before, TypeOK, HistoryTyped, nonces
<1>4. QED
  BY <1>2, <1>3, QuietAhead

(* The iv of a new BIGNUM is nobody else's, and nothing was sealed with it.*)
LEMMA InitIvHistory ==
  ASSUME Before, Ahead, Kept, NEW o \in Obj, NEW f, NEW iv \in Iv, InitIv(o, f, iv)
  PROVE  HistoryTyped' /\ Ahead'
<1>1. /\ f \in Fields /\ Alive(o) /\ class = "aead" /\ class' = class
      /\ iv \notin drawn /\ drawn' = drawn \cup {iv}
      /\ replaced' = replaced \cup ({obj[o][f]} \ {Null})
      /\ UNCHANGED <<ivbuf, sealed, repeated, events>>
      /\ \/ \E r \in Unused : heap' = [heap EXCEPT ![r] = [iv |-> iv, n |-> 0]]
         \/ heap' = heap
  BY DEF InitIv
<1>2. HistoryTyped'
  <2>1. obj[o][f] \in Res \cup {Null}
    BY <1>1 DEF Before, TypeOK, Alive
  <2>2. QED
    BY <1>1, <2>1 DEF Before, TypeOK, HistoryTyped
<1>3. CASE heap' = heap
  BY <1>1, <1>2, <1>3 DEF Ahead
<1>4. ASSUME NEW r \in Unused, heap' = [heap EXCEPT ![r] = [iv |-> iv, n |-> 0]]
      PROVE  Ahead'
  <2>1. /\ r \in Res /\ heap[r] = Free /\ heap'[r].iv = iv
        /\ \A q \in Res : q # r => heap'[q] = heap[q]
    BY <1>4 DEF Unused, Before, TypeOK
  <2>2. QED
    BY <1>1, <2>1 DEF Ahead
<1>5. QED
  BY <1>1, <1>2, <1>3, <1>4

LEMMA DecryptHistory ==
  ASSUME Before, Ahead, Kept, NEW o \in Obj, Decrypt(o)
  PROVE  HistoryTyped' /\ Ahead'
<1> DEFINE r == obj[o]["m_dec_iv"]
<1>1. /\ class = "aead" /\ Alive(o) /\ r # Null
      /\ heap' = [heap EXCEPT ![r] = Advanced(@)]
      /\ UNCHANGED <<class, obj, nonces, replaced, events>>
  BY DEF Decrypt, Ready
<1>2. r \in Res /\ heap[r] \in Nonce /\ heap[r] # Free
  BY <1>1, ClassFacts DEF Before, TypeOK, Sound, Alive
<1> HIDE DEF r
<1>3. HistoryTyped'
  BY <1>1 DEF Before, TypeOK, HistoryTyped, nonces
<1>4. /\ \A q \in Res : heap'[q] # Free => heap[q] # Free /\ heap'[q].iv = heap[q].iv
      /\ heap'[r].n \in Nat /\ heap'[r].n >= heap[r].n
      /\ \A q \in Res : q # r => heap'[q] = heap[q]
  <2>1. /\ Advanced(heap[r]).iv = heap[r].iv
        /\ Advanced(heap[r]).n \in Nat /\ Advanced(heap[r]).n >= heap[r].n
    BY <1>2 DEF Advanced, Nonce
  <2>2. QED
    BY <1>1, <1>2, <2>1 DEF Before, TypeOK
<1>5. Ahead'
  <2>1. CASE events \cap {"copied", "overflow"} = {}
    <3>1. \A x \in sealed : \A q \in Res :
            heap'[q] # Free /\ heap'[q].iv = x.iv => x.n < heap'[q].n
      <4> SUFFICES ASSUME NEW x \in sealed, NEW q \in Res,
                          heap'[q] # Free, heap'[q].iv = x.iv
                   PROVE  x.n < heap'[q].n
        OBVIOUS
      <4>1. x.n \in Nat /\ x.n < heap[q].n
        BY <1>1, <1>4, <2>1 DEF Ahead, Nonce
      <4>2. QED
        BY <1>2, <1>4, <4>1 DEF Nonce
    <3>2. QED
      BY <1>1, <1>4, <2>1, <3>1 DEF Ahead, nonces
  <2>2. CASE events \cap {"copied", "overflow"} # {}
    BY <1>1, <2>2 DEF Ahead
  <2>3. QED
    BY <2>1, <2>2
<1>6. QED
  BY <1>3, <1>5

(* What is sealed is the counter's value, which nothing was sealed with,   *)
(* and then the counter is ahead of it.                                    *)
LEMMA EncryptHistory ==
  ASSUME Before, Ahead, Kept, NEW o \in Obj, NEW ok \in BOOLEAN, Encrypt(o, ok)
  PROVE  HistoryTyped' /\ Ahead'
<1> DEFINE r == obj[o]["m_enc_iv"]
<1>1. /\ class = "aead" /\ Alive(o) /\ r # Null
      /\ ivbuf' = IF heap[r].n < Limit THEN heap[r] ELSE ivbuf
      /\ heap' = [heap EXCEPT ![r] = Advanced(@)]
      /\ events' = IF heap[r].n < Limit THEN events ELSE events \cup {"overflow"}
      /\ sealed' = IF ok THEN sealed \cup {ivbuf'} ELSE sealed
      /\ repeated' = (repeated \/ (ok /\ ivbuf' \in sealed))
      /\ UNCHANGED <<class, obj, drawn, replaced>>
  BY DEF Encrypt, Ready
<1>2. r \in Res /\ heap[r] \in Nonce /\ heap[r] # Free
  BY <1>1, ClassFacts DEF Before, TypeOK, Sound, Alive
<1> HIDE DEF r
<1>3. HistoryTyped'
  BY <1>1, <1>2 DEF Before, TypeOK, HistoryTyped
<1>4. CASE events' \cap {"copied", "overflow"} # {}
  BY <1>1, <1>3, <1>4 DEF Ahead
<1>5. CASE events' \cap {"copied", "overflow"} = {}
  <2>1. /\ heap[r].n < Limit /\ ivbuf' = heap[r]
        /\ events' = events /\ events \cap {"copied", "overflow"} = {}
    BY <1>1, <1>5
  <2>2. /\ heap[r].n \in Nat /\ heap'[r] # Free
        /\ heap'[r].iv = heap[r].iv /\ heap'[r].n = heap[r].n + 1
        /\ \A q \in Res : q # r => heap'[q] = heap[q]
    BY <1>1, <1>2, <2>1, ClassFacts DEF Advanced, Nonce, Before, TypeOK
  <2>3. /\ ~repeated
        /\ \A q \in Res : heap[q] # Free => heap[q].iv \in drawn
        /\ \A p, q \in Res :
             heap[p] # Free /\ heap[q] # Free /\ heap[p].iv = heap[q].iv => p = q
        /\ \A x \in sealed :
             /\ x \in Nonce /\ x.iv \in drawn
             /\ \A q \in Res : heap[q] # Free /\ heap[q].iv = x.iv => x.n < heap[q].n
    BY <1>1, <2>1 DEF Ahead
  <2>4. heap[r] \notin sealed
    BY <1>2, <2>2, <2>3
  <2>5. ~repeated'
    BY <1>1, <2>1, <2>3, <2>4
  <2>6. /\ \A q \in Res : heap'[q] # Free => heap'[q].iv \in drawn
        /\ \A p, q \in Res :
             heap'[p] # Free /\ heap'[q] # Free /\ heap'[p].iv = heap'[q].iv => p = q
    BY <1>2, <2>2, <2>3
  <2>7. \A x \in sealed' :
          /\ x \in Nonce /\ x.iv \in drawn
          /\ \A q \in Res : heap'[q] # Free /\ heap'[q].iv = x.iv => x.n < heap'[q].n
    <3>1. ASSUME NEW x \in sealed
          PROVE  /\ x \in Nonce /\ x.iv \in drawn
                 /\ \A q \in Res : heap'[q] # Free /\ heap'[q].iv = x.iv => x.n < heap'[q].n
      <4>1. x \in Nonce /\ x.iv \in drawn /\ x.n \in Nat
        BY <2>3 DEF Nonce
      <4>2. ASSUME NEW q \in Res, heap'[q] # Free, heap'[q].iv = x.iv
            PROVE  x.n < heap'[q].n
        <5>1. CASE q = r
          <6>1. x.n < heap[r].n
            BY <1>2, <2>2, <2>3, <4>2, <5>1
          <6>2. QED
            BY <2>2, <4>1, <5>1, <6>1
        <5>2. CASE q # r
          BY <2>2, <2>3, <4>2, <5>2
        <5>3. QED
          BY <5>1, <5>2
      <4>3. QED
        BY <4>1, <4>2
    <3>2. /\ heap[r] \in Nonce /\ heap[r].iv \in drawn
          /\ \A q \in Res : heap'[q] # Free /\ heap'[q].iv = heap[r].iv
                             => heap[r].n < heap'[q].n
      BY <1>2, <2>2, <2>3
    <3>3. sealed' \subseteq sealed \cup {heap[r]}
      BY <1>1, <2>1
    <3>4. QED
      BY <3>1, <3>2, <3>3
  <2>8. QED
    BY <1>1, <1>3, <2>5, <2>6, <2>7 DEF Ahead
<1>6. QED
  BY <1>3, <1>4, <1>5

LEMMA InitInv == Init => IInv
<1> SUFFICES ASSUME Init PROVE IInv
  OBVIOUS
<1>1. TypeOK
  BY DEF Init, TypeOK
<1>2. Sound(Fields, obj, heap, replaced)
  BY DEF Init, Sound
<1>3. Ahead
  BY DEF Init, Ahead
<1>4. QED
  BY <1>1, <1>2, <1>3 DEF IInv

LEMMA StepInv == IInv /\ [Next]_vars => IInv'
<1> SUFFICES ASSUME IInv, [Next]_vars PROVE IInv'
  OBVIOUS
<1>1. CASE UNCHANGED vars
  <2>1. Fields' = Fields
    BY <1>1 DEF vars, Fields
  <2>2. TypeOK'
    BY <1>1, <2>1 DEF vars, nonces, IInv, TypeOK
  <2>3. Ahead'
    BY <1>1 DEF vars, nonces, IInv, Ahead
  <2>4. QED
    BY <1>1, <2>1, <2>2, <2>3 DEF vars, IInv
<1>2. CASE Next
  <2>1. Before /\ Ahead
    BY <1>2 DEF Next, IInv, Before
  <2>2. PICK o \in Obj : Step(o)
    BY <1>2 DEF Next, Step
  <2>3. Kept
    BY <2>1, <2>2, StepKept
  <2>4. HistoryTyped' /\ Ahead'
    <3>1. CASE \/ ConstructEmpty(o) \/ Construct(o) \/ Destroy(o)
               \/ \E p \in Obj :
                    \/ MoveConstruct(o, p) \/ MoveAssign(o, p) \/ CopyConstruct(o, p)
                    \/ CopyAssign(o, p) \/ CopyAssignThrows(o, p)
      BY <2>1, <2>3, <3>1, QuietHistory
    <3>2. CASE \E f \in {"m_enc_iv", "m_dec_iv"}, iv \in Iv : InitIv(o, f, iv)
      BY <2>1, <2>3, <3>2, InitIvHistory
    <3>3. CASE \E ok \in BOOLEAN : Encrypt(o, ok)
      BY <2>1, <2>3, <3>3, EncryptHistory
    <3>4. CASE Decrypt(o)
      BY <2>1, <2>3, <3>4, DecryptHistory
    <3>5. QED
      BY <2>2, <3>1, <3>2, <3>3, <3>4 DEF Step
  <2>5. Fields' = Fields
    BY <2>3 DEF Kept, Fields
  <2>6. TypeOK'
    BY <2>1, <2>3, <2>4, <2>5 DEF Before, Kept, Typed, TypeOK, HistoryTyped
  <2>7. QED
    BY <2>3, <2>4, <2>5, <2>6 DEF Kept, IInv
<1>3. QED
  BY <1>1, <1>2

-----------------------------------------------------------------------------
(* The theorems *)

(* Each resource in use has exactly one owner, except for BIGNUMs that     *)
(* init wrote over and until a copy assignment ran out of memory.          *)
THEOREM SoleOwners == Spec => []OneOwner
<1>1. IInv => OneOwner
  <2> SUFFICES ASSUME IInv PROVE OneOwner
    OBVIOUS
  <2>1. TypeOK /\ Null \notin Res
    BY ClassFacts DEF IInv
  <2>2. CASE "dangling" \notin events
    <3>1. Sound(Fields, obj, heap, replaced)
      BY <2>2 DEF IInv
    <3>2. \A o \in Obj : \A r : r \in Owned(o) <=>
            r # Null /\ \E f \in Fields : obj[o] # Dead /\ obj[o][f] = r
      BY DEF Owned, Alive
    <3>3. \A o, p \in Obj : o # p => Owned(o) \cap Owned(p) = {}
      BY <3>1, <3>2 DEF Sound
    <3>4. (UNION {Owned(o) : o \in Obj}) \cap replaced = {}
      BY <3>1, <3>2 DEF Sound
    <3>5. \A r \in Res : heap[r] # Free <=> r \in replaced \cup UNION {Owned(o) : o \in Obj}
      BY <2>1, <3>1, <3>2 DEF Sound
    <3>6. QED
      BY <2>1, <3>3, <3>4, <3>5 DEF OneOwner
  <2>3. CASE "dangling" \in events
    BY <2>1, <2>3 DEF OneOwner
  <2>4. QED
    BY <2>2, <2>3
<1>2. QED
  BY <1>1, InitInv, StepInv, PTL DEF Spec

(* No nonce is sealed with twice unless an object was copied or a counter  *)
(* outgrew its iv.                                                         *)
THEOREM NoncesStayFresh == Spec => []NoncesFresh
<1>1. IInv => NoncesFresh
  BY ClassFacts DEF IInv, Ahead, NoncesFresh
<1>2. QED
  BY <1>1, InitInv, StepInv, PTL DEF Spec
=============================================================================

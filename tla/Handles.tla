------------------------------- MODULE Handles -------------------------------
(***************************************************************************)
(* The classes of the program that own something outside themselves and    *)
(* hand it on by copies, moves and assignments:                            *)
(*   "fd"    movable_fd and udp: a descriptor; they move, but do not copy  *)
(*   "ring"  ring_buffer: the array behind m_base                          *)
(*   "aead"  aead_iter: two BIGNUMs, the next nonce of either direction    *)
(* A resource that is given back may be handed out again at once.  Objects *)
(* of one class are constructed, handed on, used and destroyed in any      *)
(* order, in one thread.                                                   *)
(***************************************************************************)
EXTENDS Integers, FiniteSets

CONSTANTS
  Obj,    \* the variables of a program, each of which may hold an object
  Res,    \* descriptors, or blocks of the heap
  Iv,     \* the ivs that are drawn for a direction, each once
  Limit,  \* the width of an iv: its counter has no room for Limit and beyond
  Null,   \* nullptr, or an invalid descriptor
  Dead,   \* of a variable that holds no object
  Free    \* of a resource that is not in use

FieldsOf ==
  [fd |-> {"m_fd"}, ring |-> {"m_base"}, aead |-> {"m_enc_iv", "m_dec_iv"}]

ASSUME HandlesAssumption ==
  /\ Limit \in Nat \ {0}
  /\ Null \notin Res
  /\ \A c \in DOMAIN FieldsOf : Dead \notin [FieldsOf[c] -> Res \cup {Null}]
  /\ Free \notin [iv : Iv \cup {Null}, n : Nat]

VARIABLES
  class,     \* which of the classes the objects are of
  obj,       \* Obj -> the resources in the object's fields, or Dead
  heap,      \* Res -> what the resource holds, or Free
  ivbuf,     \* the thread_local iv of encrypt
  drawn,     \* history: the ivs that were drawn
  sealed,    \* history: the nonces that were sealed with
  repeated,  \* history: one was sealed with twice
  replaced,  \* history: BIGNUMs whose pointer init overwrote
  events     \* history: what else is not as it should be

vars == <<class, obj, heap, ivbuf, drawn, sealed, repeated, replaced, events>>
nonces == <<ivbuf, drawn, sealed, repeated>>

Fields == FieldsOf[class]

\* What a resource holds that is no BIGNUM, or nothing of interest yet.
Held == [iv |-> Null, n |-> 0]
Nothing == [f \in Fields |-> Null]
Alive(o) == obj[o] # Dead
Owned(o) == IF Alive(o) THEN {obj[o][f] : f \in Fields} \ {Null} ELSE {}
Unused == {r \in Res : heap[r] = Free}

Init ==
  /\ class \in DOMAIN FieldsOf
  /\ obj = [o \in Obj |-> Dead]
  /\ heap = [r \in Res |-> Free]
  /\ ivbuf = Null
  /\ drawn = {}
  /\ sealed = {}
  /\ repeated = FALSE
  /\ replaced = {}
  /\ events = {}

\* The heap when o has given back what it owns.
Released(o) == [r \in Res |-> IF r \in Owned(o) THEN Free ELSE heap[r]]

-----------------------------------------------------------------------------
(* Construction and destruction *)

\* A default-constructed object, or one made of a descriptor that is invalid.
ConstructEmpty(o) ==
  /\ ~Alive(o)
  /\ class # "ring"
  /\ obj' = [obj EXCEPT ![o] = Nothing]
  /\ UNCHANGED <<class, heap, nonces, replaced, events>>

\* movable_fd(fd), udp(ad) and ring_buffer(n).
Construct(o) ==
  /\ ~Alive(o)
  /\ class # "aead"
  /\ \E r \in Unused :
       /\ obj' = [obj EXCEPT ![o] = [f \in Fields |-> r]]
       /\ heap' = [heap EXCEPT ![r] = Held]
  /\ UNCHANGED <<class, nonces, replaced, events>>

Destroy(o) ==
  /\ Alive(o)
  /\ obj' = [obj EXCEPT ![o] = Dead]
  /\ heap' = Released(o)
  /\ UNCHANGED <<class, nonces, replaced, events>>

-----------------------------------------------------------------------------
(* Moves *)

\* Variant: the source keeps its pointers.
MoveShares(o, p, h) ==
  /\ obj' = [obj EXCEPT ![o] = obj[p]]
  /\ heap' = h
  /\ UNCHANGED <<class, nonces, replaced, events>>

Move(o, p, h) ==
  /\ obj' = [obj EXCEPT ![o] = obj[p], ![p] = Nothing]
  /\ heap' = h
  /\ UNCHANGED <<class, nonces, replaced, events>>

MoveConstruct(o, p) == ~Alive(o) /\ Alive(p) /\ Move(o, p, heap)

\* An assignment of an object to itself returns at once.
MoveAssign(o, p) == o # p /\ Alive(o) /\ Alive(p) /\ Move(o, p, Released(o))

-----------------------------------------------------------------------------
(* Copies *)

\* fields is a copy of p's, in resources that are free in the heap h.  new
\* throws when there is none, and makes an array even of the length of a
\* buffer that was moved from; BN_dup returns NULL, as it does for NULL.
CopyOf(p, fields, h) ==
  /\ \A f \in Fields :
       /\ fields[f] # Null => h[fields[f]] = Free
       /\ class = "ring" => fields[f] # Null
       /\ class = "aead" /\ obj[p][f] = Null => fields[f] = Null
  /\ \A f, g \in Fields : fields[f] = fields[g] /\ f # g => fields[f] = Null

CopiedHeap(p, fields, h) ==
  [r \in Res |->
     IF \E f \in Fields : fields[f] = r
     THEN LET f == CHOOSE f \in Fields : fields[f] = r
          IN  IF obj[p][f] = Null THEN Held ELSE h[obj[p][f]]
     ELSE h[r]]

Copy(o, p, h) ==
  \E fields \in [Fields -> Res \cup {Null}] :
    /\ CopyOf(p, fields, h)
    /\ obj' = [obj EXCEPT ![o] = fields]
    /\ heap' = CopiedHeap(p, fields, h)
    /\ events' = events \cup {"copied"}
    /\ UNCHANGED <<class, nonces, replaced>>

CopyConstruct(o, p) == class # "fd" /\ ~Alive(o) /\ Alive(p) /\ Copy(o, p, heap)

CopyAssign(o, p) ==
  class # "fd" /\ o # p /\ Alive(o) /\ Alive(p) /\ Copy(o, p, Released(o))

\* new throws after free(): m_base still points to the array given back.
CopyAssignThrows(o, p) ==
  /\ class = "ring" /\ o # p /\ Alive(o) /\ Alive(p)
  /\ heap' = Released(o)
  /\ events' = events \cup {"dangling"}
  /\ UNCHANGED <<class, obj, nonces, replaced>>

-----------------------------------------------------------------------------
(* aead_iter *)

\* BN_bin2bn may fail.  A number that is there already is not freed.
InitIv(o, f, iv) ==
  /\ class = "aead" /\ Alive(o)
  /\ f \in Fields /\ iv \in Iv \ drawn
  /\ drawn' = drawn \cup {iv}
  /\ replaced' = replaced \cup ({obj[o][f]} \ {Null})
  /\ \/ \E r \in Unused :
          /\ obj' = [obj EXCEPT ![o][f] = r]
          /\ heap' = [heap EXCEPT ![r] = [iv |-> iv, n |-> 0]]
     \/ obj' = [obj EXCEPT ![o][f] = Null] /\ UNCHANGED heap
  /\ UNCHANGED <<class, ivbuf, sealed, repeated, events>>

\* Variant: the sum is thrown away.
Unadvanced(nonce) == nonce

\* BN_add_word(iv, 1); beyond Limit it makes no difference how far.
Advanced(nonce) == IF nonce.n < Limit THEN [nonce EXCEPT !.n = @ + 1] ELSE nonce

Ready(o, f) == class = "aead" /\ Alive(o) /\ obj[o][f] # Null

\* The counter advances whether or not the aead seals.  The result of
\* BN_bn2binpad is not looked at: for a number that is too wide the buffer keeps
\* the iv of the last call.
Encrypt(o, ok) ==
  /\ Ready(o, "m_enc_iv")
  /\ LET r == obj[o]["m_enc_iv"]
         fits == heap[r].n < Limit
     IN  /\ ivbuf' = IF fits THEN heap[r] ELSE ivbuf
         /\ heap' = [heap EXCEPT ![r] = Advanced(@)]
         /\ events' = IF fits THEN events ELSE events \cup {"overflow"}
         /\ sealed' = IF ok THEN sealed \cup {ivbuf'} ELSE sealed
         /\ repeated' = (repeated \/ (ok /\ ivbuf' \in sealed))
  /\ UNCHANGED <<class, obj, drawn, replaced>>

Decrypt(o) ==
  /\ Ready(o, "m_dec_iv")
  /\ heap' = [heap EXCEPT ![obj[o]["m_dec_iv"]] = Advanced(@)]
  /\ UNCHANGED <<class, obj, nonces, replaced, events>>

-----------------------------------------------------------------------------

\* Once a pointer dangles anything may happen, and nothing more is said.
Next ==
  /\ "dangling" \notin events
  /\ \E o \in Obj :
       \/ ConstructEmpty(o)
       \/ Construct(o)
       \/ Destroy(o)
       \/ \E p \in Obj :
            \/ MoveConstruct(o, p)
            \/ MoveAssign(o, p)
            \/ CopyConstruct(o, p)
            \/ CopyAssign(o, p)
            \/ CopyAssignThrows(o, p)
       \/ \E f \in {"m_enc_iv", "m_dec_iv"}, iv \in Iv : InitIv(o, f, iv)
       \/ \E ok \in BOOLEAN : Encrypt(o, ok)
       \/ Decrypt(o)

Spec == Init /\ [][Next]_vars

-----------------------------------------------------------------------------

Nonce == [iv : Iv \cup {Null}, n : Nat]

(* Every variable holds values of its type.                                *)
TypeOK ==
  /\ class \in DOMAIN FieldsOf
  /\ obj \in [Obj -> [Fields -> Res \cup {Null}] \cup {Dead}]
  /\ heap \in [Res -> Nonce \cup {Free}]
  /\ ivbuf \in Nonce \cup {Null}
  /\ drawn \subseteq Iv
  /\ sealed \subseteq Nonce \cup {Null}
  /\ repeated \in BOOLEAN
  /\ replaced \subseteq Res
  /\ events \subseteq {"copied", "dangling", "overflow"}

(* Each resource in use has exactly one owner, and owners own what is in   *)
(* use: nothing is given back twice, nor under the feet of another object, *)
(* and nothing is lost.  Two exceptions: a BIGNUM that init writes over is *)
(* never freed, and a ring_buffer whose copy assignment runs out of memory *)
(* is left with the array that it gave back.                               *)
OneOwner ==
  /\ TypeOK
  /\ "dangling" \notin events =>
       /\ \A o, p \in Obj : o # p => Owned(o) \cap Owned(p) = {}
       /\ (UNION {Owned(o) : o \in Obj}) \cap replaced = {}
       /\ \A r \in Res : heap[r] # Free <=> r \in replaced \cup UNION {Owned(o) : o \in Obj}

(* However connections are moved, no nonce is sealed with twice, unless an *)
(* object was copied or a counter outgrew its iv.                          *)
NoncesFresh ==
  repeated => events \cap {"copied", "overflow"} # {}
=============================================================================

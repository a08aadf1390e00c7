--------------------------- MODULE AlignedObjects ---------------------------
(***************************************************************************)
(* What ns_aligned_malloc, ns_aligned_realloc and ns_aligned_free promise: *)
(* objects at aligned addresses, each with a size and contents of its own. *)
(* There are no headers, padding or unaligned blocks here.                 *)
(***************************************************************************)
EXTENDS Integers

CONSTANT Values

VARIABLE objects  \* a function from the addresses of the live objects

Init == objects = << >>

Put(live, p, object) == [q \in DOMAIN live \cup {p} |-> IF q = p THEN object ELSE live[q]]
Drop(live, p)        == [q \in DOMAIN live \ {p} |-> live[q]]

Aligned(p, alignment) == alignment \in Nat \ {0} /\ p % alignment = 0

(* An object has a size, an alignment and data, which is indexed from 0 as *)
(* in C.  What a new object holds is not specified.                        *)
Malloc(p, object) ==
  /\ p \notin DOMAIN objects
  /\ Aligned(p, object.alignment)
  /\ objects' = Put(objects, p, object)

(* The object may move; what both sizes hold stays, as does the alignment. *)
Realloc(p, q, object) ==
  /\ p \in DOMAIN objects
  /\ q \notin DOMAIN objects \ {p}
  /\ object.alignment = objects[p].alignment
  /\ Aligned(q, object.alignment)
  /\ \A i \in DOMAIN object.data \cap DOMAIN objects[p].data :
       object.data[i] = objects[p].data[i]
  /\ objects' = Put(Drop(objects, p), q, object)

Free(p) ==
  /\ p \in DOMAIN objects
  /\ objects' = Drop(objects, p)

(* The owner writes into the object. *)
Write(p, i, v) ==
  /\ p \in DOMAIN objects
  /\ i \in DOMAIN objects[p].data
  /\ objects' = [objects EXCEPT ![p].data[i] = v]

(* A step of the program's changes one object only: the others keep size,  *)
(* alignment and contents.                                                 *)
Next ==
  \/ \E p \in DOMAIN objects' : \/ Malloc(p, objects'[p])
                                \/ \E q \in DOMAIN objects : Realloc(q, p, objects'[p])
  \/ \E p \in DOMAIN objects : \/ Free(p)
                               \/ \E i \in DOMAIN objects[p].data, v \in Values : Write(p, i, v)

Spec == Init /\ [][Next]_objects
=============================================================================

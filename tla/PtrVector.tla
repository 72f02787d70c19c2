------------------------------- MODULE PtrVector -------------------------------
(***************************************************************************)
(* The vector of pointers, common/ptr_vector.c, in which the agent and its *)
(* plugins keep the lists that the other modules write as sequences.       *)
(*                                                                         *)
(* A vector is a block of memory of a certain capacity, whose first places *)
(* are taken; the others, and those that realloc adds, hold Junk.  A place *)
(* that is not in the block cannot be written.  freed is the history of    *)
(* the elements the destructor was called with.                            *)
(***************************************************************************)
EXTENDS Naturals, Sequences

CONSTANTS Pointers, NULL, Junk

Elements == Pointers \union {NULL}

Places(capacity) == {i \in Nat : i < capacity}

(* What ptr_helper.c makes of an element that is to be copied.             *)
DefaultCopier == [e \in Elements |-> NULL]

Create ==
  [data |-> [i \in Places(20) |-> Junk], size |-> 0, capacity |-> 20,
   destroys |-> TRUE, copier |-> DefaultCopier, freed |-> << >>]

At(v, off) == IF off < v.size THEN v.data[off] ELSE NULL

AtCopy(v, off) == v.copier[At(v, off)]

(* memmove by one place, of what is in the places from lo to hi - 1.       *)
MovedUp(data, lo, hi) ==
  [i \in DOMAIN data |-> IF lo < i /\ i <= hi THEN data[i - 1] ELSE data[i]]
MovedDown(data, lo, hi) ==
  [i \in DOMAIN data |-> IF lo <= i + 1 /\ i + 1 < hi THEN data[i + 1] ELSE data[i]]

(* The capacity, half of it again: what is not whole of it is cut off.     *)
Larger(capacity) == (3 * capacity) \div 2

WithRoom(v) ==
  IF v.size = v.capacity
  THEN [v EXCEPT !.capacity = Larger(v.capacity),
                 !.data = [i \in Places(Larger(v.capacity)) |-> IF i < v.capacity THEN v.data[i] ELSE Junk]]
  ELSE v

PushBack(v, p) ==
  LET w == WithRoom(v) IN [w EXCEPT !.data = [@ EXCEPT ![w.size] = p], !.size = @ + 1]

PushFront(v, p) ==
  LET w == WithRoom(v)
  IN  [w EXCEPT !.data = [MovedUp(@, 0, w.size) EXCEPT ![0] = p], !.size = @ + 1]

EraseAt(v, off) ==
  IF off < v.size
  THEN [v EXCEPT !.data = MovedDown(@, off + 1, v.size), !.size = @ - 1,
                 !.freed = IF v.destroys THEN Append(@, v.data[off]) ELSE @]
  ELSE v

PopBack(v) == IF v.size > 0 THEN EraseAt(v, v.size - 1) ELSE v

PopFront(v) == IF v.size > 0 THEN EraseAt(v, 0) ELSE v

AsSequence(v) == [i \in 1 .. v.size |-> v.data[i - 1]]

Clear(v) ==
  [v EXCEPT !.size = 0, !.freed = IF v.destroys THEN @ \o AsSequence(v) ELSE @]

(* The loop of a copy, which pushes a copy of each element of v to w.      *)
CopiedTo(v, w) ==
  LET pushed[n \in 0 .. v.size] ==
        IF n = 0 THEN w ELSE PushBack(pushed[n - 1], AtCopy(v, n - 1))
  IN  pushed[v.size]

Copy(v) == [CopiedTo(v, Create) EXCEPT !.destroys = v.destroys, !.copier = v.copier]

Assign(v, other) ==
  CopiedTo(other, [Clear(v) EXCEPT !.destroys = other.destroys, !.copier = other.copier])

(* What the destructor is called with when the vector is destroyed.        *)
Destroyed(v) == Clear(v).freed

-----------------------------------------------------------------------------
(* What a vector is for its users                                          *)

Valid(v) ==
  /\ v = [data |-> v.data, size |-> v.size, capacity |-> v.capacity,
          destroys |-> v.destroys, copier |-> v.copier, freed |-> v.freed]
  /\ v.capacity \in Nat /\ v.capacity >= 2
  /\ v.size \in Nat /\ v.size <= v.capacity
  /\ v.data \in [Places(v.capacity) -> Elements \union {Junk}]
  /\ \A i \in Nat : i < v.size => v.data[i] \in Elements
  /\ v.destroys \in BOOLEAN
  /\ v.copier \in [Elements -> Elements]
  /\ v.freed \in Seq(Elements)

(* The sequence without one of its elements.                               *)
Without(s, n) == [i \in 1 .. Len(s) - 1 |-> IF i < n THEN s[i] ELSE s[i + 1]]

================================================================================

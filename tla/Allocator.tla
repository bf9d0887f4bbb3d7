------------------------------ MODULE Allocator ------------------------------
(***************************************************************************)
(* Allocator (include/allocator.h): one Storage and one PoolStorage for    *)
(* each class.  Everything in the library is reached through the pointers  *)
(* it hands out; they are addresses inside vectors that grow.  A vector    *)
(* that is full moves its elements to a new buffer of twice the size.      *)
(***************************************************************************)
EXTENDS Naturals, Sequences

CONSTANTS
  Classes,      \* the classes C... of the allocator
  Reserve,      \* DEFAULT_RESERVED_SIZE
  PoolSizes,    \* how many objects a pool may hold, 0 for no inputs
  MaxObjects    \* bound: objects, and pools, of a class

ASSUME ReserveAssumption == Reserve \in Nat \ {0}
ASSUME PoolSizesAssumption == PoolSizes \subseteq Nat

VARIABLES
  storage,    \* of every class: the buffer of holder_, its size and capacity
  given,      \* history: of every class, the addresses New has answered
  pools,      \* of every class: the buffers of the vectors in holder_, the
              \* capacity of holder_, and the next buffer that is not in use
  pointers    \* of every class: pointers_holder_

allocVars == <<storage, given, pools, pointers>>

Address == [buffer : Nat, index : Nat]

\* Mutant of AddElem: the vector moves when it becomes full.
AddElemEarly(s) ==
  IF s.size + 1 = s.capacity
    THEN [buffer |-> s.buffer + 1, size |-> s.size + 1, capacity |-> 2 * s.capacity]
    ELSE [s EXCEPT !.size = @ + 1]

AddElem(s) ==
  IF s.size = s.capacity
    THEN [buffer |-> s.buffer + 1, size |-> s.size + 1, capacity |-> 2 * s.capacity]
    ELSE [s EXCEPT !.size = @ + 1]

GetBackPointer(s) == [buffer |-> s.buffer, index |-> s.size]

New(c) ==
  /\ storage[c].size < MaxObjects
  /\ storage' = [storage EXCEPT ![c] = AddElem(@)]
  /\ given' = [given EXCEPT ![c] = Append(@, GetBackPointer(storage'[c]))]
  /\ UNCHANGED <<pools, pointers>>

Larger(p) == IF Len(p.buffers) = p.capacity THEN 2 * p.capacity ELSE p.capacity

\* Mutant of AddPool: a growing holder_ copies its vectors.
AddPoolCopies(p) ==
  LET n == Len(p.buffers)
      moved == IF n = p.capacity THEN [k \in 1 .. n |-> p.fresh + k] ELSE p.buffers
  IN  [buffers |-> Append(moved, p.fresh), capacity |-> Larger(p), fresh |-> p.fresh + n + 1]

\* The vectors in holder_ are moved when it grows: they keep their own buffers.
AddPool(p) ==
  [buffers |-> Append(p.buffers, p.fresh), capacity |-> Larger(p), fresh |-> p.fresh + 1]

\* NewPool and NewPoolAsArray with n arguments; what they answer is the last of
\* pointers_holder_.
NewPool(c, n) ==
  /\ Len(pointers[c]) < MaxObjects
  /\ pools' = [pools EXCEPT ![c] = AddPool(@)]
  /\ pointers' = [pointers EXCEPT ![c] =
       Append(@, [k \in 1 .. n |-> [buffer |-> pools[c].fresh, index |-> k]])]
  /\ UNCHANGED <<storage, given>>

AllocInit ==
  /\ storage = [c \in Classes |-> [buffer |-> 0, size |-> 0, capacity |-> Reserve]]
  /\ given = [c \in Classes |-> << >>]
  /\ pools = [c \in Classes |-> [buffers |-> << >>, capacity |-> Reserve, fresh |-> 0]]
  /\ pointers = [c \in Classes |-> << >>]

AllocNext == \E c \in Classes : New(c) \/ \E n \in PoolSizes : NewPool(c, n)

AllocSpec == AllocInit /\ [][AllocNext]_allocVars

-----------------------------------------------------------------------------
AllocTypeOK ==
  /\ storage \in [Classes -> [buffer : Nat, size : Nat, capacity : Nat]]
  /\ given \in [Classes -> Seq(Address)]
  /\ pools \in [Classes -> [buffers : Seq(Nat), capacity : Nat, fresh : Nat]]
  /\ pointers \in [Classes -> Seq(Seq(Address))]
  /\ \A c \in Classes : /\ Len(given[c]) = storage[c].size
                        /\ storage[c].size <= storage[c].capacity
                        /\ Len(pointers[c]) = Len(pools[c].buffers)
                        /\ Len(pools[c].buffers) <= pools[c].capacity

\* As long as no more objects of a class exist than were reserved, every pointer
\* New has answered for it is the address of its object, however many objects of
\* other classes and how many pools there are (allocator.h:18, 32).
PointersStayWithinReserve ==
  \A c \in Classes : storage[c].size <= Reserve =>
    \A n \in 1 .. Len(given[c]) : given[c][n] = [buffer |-> storage[c].buffer, index |-> n]

\* The arguments of instructions live in pools: their addresses stay for ever,
\* also when there are more pools than were reserved, and no two pools share one.
PoolPointersStay ==
  \A c \in Classes :
    /\ \A p \in 1 .. Len(pointers[c]) : \A k \in 1 .. Len(pointers[c][p]) :
         pointers[c][p][k] = [buffer |-> pools[c].buffers[p], index |-> k]
    /\ \A p, q \in 1 .. Len(pools[c].buffers) :
         pools[c].buffers[p] = pools[c].buffers[q] => p = q
=============================================================================

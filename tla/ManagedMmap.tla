----------------------------- MODULE ManagedMmap -----------------------------
(***************************************************************************)
(* ManagedMmap<T>: the objects through which a process holds its mappings. *)
(* An object is made by mapping a file or by moving from another object,   *)
(* of the same type or of another, and unmaps what it holds when it is     *)
(* destroyed or assigned to.  The client is arbitrary: any object may be   *)
(* moved into any other, in any order, as long as the assertions of the    *)
(* class hold.                                                             *)
(***************************************************************************)
EXTENDS Integers

CONSTANTS
  Object,     \* the variables, members and temporaries that hold a ManagedMmap
  Type,       \* what T can be
  sizeof,     \* for each type
  Address,    \* where the kernel can place a mapping; it reuses them
  Size,       \* sizes of mappings, in pages
  nullptr

ASSUME SizeAssumption == /\ Size \subseteq Nat \ {0}
                         /\ sizeof \in [Type -> Nat]
ASSUME NullAssumption == nullptr \notin Address /\ nullptr \notin Type

VARIABLES
  mapped,          \* the kernel's: the size of the mapping at an address, or 0
  type,            \* the T of an object, nullptr where none is alive
  mmap_ptr_,
  required_size_

vars == <<mapped, type, mmap_ptr_, required_size_>>

TypeOK ==
  /\ mapped \in [Address -> Size \cup {0}]
  /\ type \in [Object -> Type \cup {nullptr}]
  /\ mmap_ptr_ \in [Object -> Address \cup {nullptr}]
  /\ required_size_ \in [Object -> Size \cup {0}]

is_alive(o) == type[o] # nullptr
is_initialized(o) == mmap_ptr_[o] # nullptr /\ required_size_[o] > 0

Init == /\ mapped = [a \in Address |-> 0]
        /\ type = [o \in Object |-> nullptr]
        /\ mmap_ptr_ = [o \in Object |-> nullptr]
        /\ required_size_ = [o \in Object |-> 0]

-----------------------------------------------------------------------------
\* The assertion of every constructor and assignment that changes the type.
Fits(T, size) == size = 0 \/ sizeof[T] <= size

\* What the kernel has mapped after o gave back what it holds.
AfterUnmap(o) == IF is_initialized(o)
                 THEN [mapped EXCEPT ![mmap_ptr_[o]] = 0]
                 ELSE mapped

\* Mutant of Take: other keeps its pointer.
TakeCopy(o, other) ==
  /\ mmap_ptr_' = [mmap_ptr_ EXCEPT ![o] = mmap_ptr_[other]]
  /\ required_size_' = [required_size_ EXCEPT ![o] = required_size_[other]]

\* o takes what other holds, and other is left with nothing.
Take(o, other) ==
  /\ mmap_ptr_' = [mmap_ptr_ EXCEPT ![o] = mmap_ptr_[other], ![other] = nullptr]
  /\ required_size_' = [required_size_ EXCEPT ![o] = required_size_[other], ![other] = 0]

\* The constructor that maps; MAP_FAILED leaves an object that is not initialized.
Construct(o, T, size) ==
  /\ ~is_alive(o)
  /\ Fits(T, size)
  /\ type' = [type EXCEPT ![o] = T]
  /\ \/ \E a \in Address :
          /\ mapped[a] = 0
          /\ mapped' = [mapped EXCEPT ![a] = size]
          /\ mmap_ptr_' = [mmap_ptr_ EXCEPT ![o] = a]
          /\ required_size_' = [required_size_ EXCEPT ![o] = size]
     \/ /\ mmap_ptr_' = [mmap_ptr_ EXCEPT ![o] = nullptr]
        /\ required_size_' = [required_size_ EXCEPT ![o] = 0]
        /\ UNCHANGED mapped

\* The destructor.  The members of a destroyed object are no more.
Destroy(o) ==
  /\ is_alive(o)
  /\ mapped' = AfterUnmap(o)
  /\ type' = [type EXCEPT ![o] = nullptr]
  /\ mmap_ptr_' = [mmap_ptr_ EXCEPT ![o] = nullptr]
  /\ required_size_' = [required_size_ EXCEPT ![o] = 0]

MoveConstruct(o, other) ==
  /\ ~is_alive(o)
  /\ is_alive(other)
  /\ type' = [type EXCEPT ![o] = type[other]]
  /\ Take(o, other)
  /\ UNCHANGED mapped

ConvertConstruct(o, T, other) ==
  /\ ~is_alive(o)
  /\ is_alive(other)
  /\ type[other] # T
  /\ Fits(T, required_size_[other])
  /\ type' = [type EXCEPT ![o] = T]
  /\ Take(o, other)
  /\ UNCHANGED mapped

\* Mutant: an object assigned to itself gives back what it holds.
MoveAssignNoSelfCheck(o, other) ==
  /\ is_alive(o)
  /\ type[other] = type[o]
  /\ mapped' = AfterUnmap(o)
  /\ IF o = other THEN UNCHANGED <<mmap_ptr_, required_size_>> ELSE Take(o, other)
  /\ UNCHANGED type

MoveAssign(o, other) ==
  /\ is_alive(o)
  /\ type[other] = type[o]
  /\ IF o = other
     THEN UNCHANGED <<mapped, mmap_ptr_, required_size_>>
     ELSE mapped' = AfterUnmap(o) /\ Take(o, other)
  /\ UNCHANGED type

\* Mutant: what o holds is forgotten.
ConvertAssignNoUnmap(o, other) ==
  /\ is_alive(o)
  /\ is_alive(other)
  /\ type[other] # type[o]
  /\ Fits(type[o], required_size_[other])
  /\ Take(o, other)
  /\ UNCHANGED <<mapped, type>>

ConvertAssign(o, other) ==
  /\ is_alive(o)
  /\ is_alive(other)
  /\ type[other] # type[o]
  /\ Fits(type[o], required_size_[other])
  /\ mapped' = AfterUnmap(o)
  /\ Take(o, other)
  /\ UNCHANGED type

\* The process ends, whatever it holds: the kernel unmaps everything.
ProcessEnds ==
  /\ mapped' = [a \in Address |-> 0]
  /\ type' = [o \in Object |-> nullptr]
  /\ mmap_ptr_' = [o \in Object |-> nullptr]
  /\ required_size_' = [o \in Object |-> 0]

Next ==
  \/ \E o \in Object, T \in Type, size \in Size : Construct(o, T, size)
  \/ \E o \in Object : Destroy(o)
  \/ \E o, other \in Object : MoveConstruct(o, other)
  \/ \E o, other \in Object, T \in Type : ConvertConstruct(o, T, other)
  \/ \E o, other \in Object : MoveAssign(o, other)
  \/ \E o, other \in Object : ConvertAssign(o, other)
  \/ ProcessEnds

Spec == Init /\ [][Next]_vars

-----------------------------------------------------------------------------
(* Properties                                                              *)

\* What an initialized object points to is mapped, with the size it will pass
\* to munmap, even when the kernel reuses the address of an earlier mapping.
HoldsWhatIsMapped ==
  \A o \in Object : is_initialized(o) => mapped[mmap_ptr_[o]] = required_size_[o]

\* No two objects hold one mapping, so none is unmapped under an object that
\* still uses it, and none is unmapped twice (managed_mmap.h:74, 82, 106, 119).
OneHolder ==
  \A o, p \in Object :
    is_initialized(o) /\ is_initialized(p) /\ mmap_ptr_[o] = mmap_ptr_[p] => o = p

\* No mapping leaks: whatever is mapped, a living object will unmap.
NothingLeaks ==
  \A a \in Address : mapped[a] # 0 =>
    \E o \in Object : is_alive(o) /\ is_initialized(o) /\ mmap_ptr_[o] = a
=============================================================================

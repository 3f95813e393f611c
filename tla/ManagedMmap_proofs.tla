-------------------------- MODULE ManagedMmap_proofs --------------------------
(***************************************************************************)
(* Ownership of the mappings, for any number of objects, addresses, types  *)
(* and sizes.  The three properties are inductive together once it is      *)
(* known that an object that is not alive holds nothing.                   *)
(***************************************************************************)
EXTENDS ManagedMmap, TLAPS

DeadHoldNothing == \A o \in Object : ~is_alive(o) => ~is_initialized(o)

IInv == /\ TypeOK
        /\ HoldsWhatIsMapped
        /\ OneHolder
        /\ NothingLeaks
        /\ DeadHoldNothing

\* Sizes are positive numbers, and 0 is not one of them.
LEMMA Positive ==
  ASSUME NEW n \in Size \cup {0}
  PROVE  n \in Nat /\ (n > 0 <=> n \in Size)
BY SizeAssumption

\* An object is initialized exactly when it holds an address and a size.
LEMMA Initialized ==
  ASSUME TypeOK, NEW o \in Object
  PROVE  is_initialized(o) <=> /\ mmap_ptr_[o] \in Address
                               /\ required_size_[o] \in Size
<1>1. required_size_[o] \in Size \cup {0} /\ mmap_ptr_[o] \in Address \cup {nullptr}
  BY DEF TypeOK
<1>2. required_size_[o] > 0 <=> required_size_[o] \in Size
  BY <1>1, Positive
<1> QED
  BY <1>1, <1>2, NullAssumption DEF is_initialized

\* In the initial state nothing is mapped and no object is alive.
LEMMA InitIInv == Init => IInv
BY SizeAssumption, NullAssumption
   DEF Init, IInv, TypeOK, HoldsWhatIsMapped, OneHolder, NothingLeaks,
       DeadHoldNothing, is_alive, is_initialized

\* Giving back what an object holds unmaps its own mapping and no other.
LEMMA UnmapIInv ==
  ASSUME IInv, NEW o \in Object
  PROVE  /\ AfterUnmap(o) \in [Address -> Size \cup {0}]
         /\ \A p \in Object : is_initialized(p) /\ p # o =>
              AfterUnmap(o)[mmap_ptr_[p]] = required_size_[p]
         /\ \A a \in Address : AfterUnmap(o)[a] # 0 =>
              \E p \in Object : p # o /\ is_alive(p) /\ is_initialized(p) /\ mmap_ptr_[p] = a
<1> USE SizeAssumption, NullAssumption
<1>1. AfterUnmap(o) \in [Address -> Size \cup {0}]
  BY DEF IInv, TypeOK, AfterUnmap
<1>2. ASSUME NEW p \in Object, is_initialized(p), p # o
      PROVE  AfterUnmap(o)[mmap_ptr_[p]] = required_size_[p]
  <2>1. mmap_ptr_[p] \in Address
    BY <1>2, Initialized DEF IInv
  <2>2. is_initialized(o) => mmap_ptr_[p] # mmap_ptr_[o]
    BY <1>2 DEF IInv, OneHolder
  <2> QED
    BY <1>2, <2>1, <2>2 DEF IInv, TypeOK, HoldsWhatIsMapped, AfterUnmap
<1>3. ASSUME NEW a \in Address, AfterUnmap(o)[a] # 0
      PROVE  \E p \in Object : p # o /\ is_alive(p) /\ is_initialized(p) /\ mmap_ptr_[p] = a
  <2>1. mapped[a] # 0 /\ ~(is_initialized(o) /\ mmap_ptr_[o] = a)
    BY <1>3 DEF IInv, TypeOK, AfterUnmap
  <2> QED
    BY <2>1 DEF IInv, NothingLeaks
<1> QED
  BY <1>1, <1>2, <1>3

\* Taking over a mapping keeps it, and moves it from one object to the other.
LEMMA TakeIInv ==
  ASSUME IInv, NEW o \in Object, NEW other \in Object, o # other,
         Take(o, other), mapped' = AfterUnmap(o),
         type' \in [Object -> Type \cup {nullptr}], type'[o] # nullptr,
         is_alive(other),
         \A p \in Object : p # o => type'[p] = type[p]
  PROVE  IInv'
<1> USE SizeAssumption, NullAssumption
<1>1. TypeOK'
  BY UnmapIInv DEF IInv, TypeOK, Take
<1>2. /\ mmap_ptr_'[o] = mmap_ptr_[other] /\ required_size_'[o] = required_size_[other]
      /\ mmap_ptr_'[other] = nullptr /\ required_size_'[other] = 0
      /\ \A p \in Object : p # o /\ p # other =>
           mmap_ptr_'[p] = mmap_ptr_[p] /\ required_size_'[p] = required_size_[p]
  BY DEF IInv, TypeOK, Take
<1>3. /\ is_initialized(o)' <=> is_initialized(other)
      /\ ~is_initialized(other)'
      /\ \A p \in Object : p # o /\ p # other =>
           (is_initialized(p)' <=> is_initialized(p))
  BY <1>2 DEF is_initialized
<1>4. HoldsWhatIsMapped'
  BY <1>2, <1>3, UnmapIInv DEF HoldsWhatIsMapped
<1>5. OneHolder'
  BY <1>2, <1>3 DEF IInv, OneHolder
<1>6. NothingLeaks'
  <2> SUFFICES ASSUME NEW a \in Address, mapped'[a] # 0
               PROVE  \E p \in Object : /\ is_alive(p)' /\ is_initialized(p)'
                                        /\ mmap_ptr_'[p] = a
    BY DEF NothingLeaks
  <2>1. PICK p \in Object : p # o /\ is_alive(p) /\ is_initialized(p) /\ mmap_ptr_[p] = a
    BY UnmapIInv
  <2>2. CASE p = other
    BY <1>2, <1>3, <2>1, <2>2 DEF is_alive
  <2>3. CASE p # other
    BY <1>2, <1>3, <2>1, <2>3 DEF is_alive
  <2> QED
    BY <2>2, <2>3
<1>7. DeadHoldNothing'
  BY <1>2, <1>3 DEF IInv, DeadHoldNothing, is_alive
<1> QED
  BY <1>1, <1>4, <1>5, <1>6, <1>7 DEF IInv

\* An object that is not alive has nothing to give back.
LEMMA DeadUnmapsNothing ==
  ASSUME IInv, NEW o \in Object, ~is_alive(o)
  PROVE  AfterUnmap(o) = mapped
BY DEF IInv, DeadHoldNothing, AfterUnmap

-----------------------------------------------------------------------------
(* What each operation does to the invariant.                              *)

LEMMA ConstructIInv ==
  ASSUME IInv, NEW o \in Object, NEW T \in Type, NEW size \in Size, Construct(o, T, size)
  PROVE  IInv'
<1> USE SizeAssumption, NullAssumption
<1>1. ~is_initialized(o) /\ type[o] = nullptr
  BY DEF IInv, DeadHoldNothing, Construct, is_alive
<1>2. ASSUME NEW a \in Address, mapped[a] = 0, mapped' = [mapped EXCEPT ![a] = size],
             mmap_ptr_' = [mmap_ptr_ EXCEPT ![o] = a],
             required_size_' = [required_size_ EXCEPT ![o] = size],
             type' = [type EXCEPT ![o] = T]
      PROVE  IInv'
  <2>1. TypeOK'
    BY <1>2 DEF IInv, TypeOK
  <2>2. /\ mmap_ptr_'[o] = a /\ required_size_'[o] = size /\ is_initialized(o)'
        /\ \A p \in Object : p # o => /\ mmap_ptr_'[p] = mmap_ptr_[p]
                                      /\ required_size_'[p] = required_size_[p]
                                      /\ is_initialized(p)' <=> is_initialized(p)
    BY <1>2, Positive DEF IInv, TypeOK, is_initialized
  <2>3. \A p \in Object : is_initialized(p) => mmap_ptr_[p] \in Address /\ mmap_ptr_[p] # a
    BY <1>2, Initialized DEF IInv, HoldsWhatIsMapped, is_initialized
  <2>4. HoldsWhatIsMapped'
    BY <1>2, <2>2, <2>3 DEF IInv, TypeOK, HoldsWhatIsMapped
  <2>5. OneHolder'
    BY <2>2, <2>3 DEF IInv, OneHolder
  <2>6. NothingLeaks'
    BY <1>1, <1>2, <2>1, <2>2 DEF IInv, TypeOK, NothingLeaks, is_alive
  <2>7. DeadHoldNothing'
    BY <1>2, <2>2 DEF IInv, TypeOK, DeadHoldNothing, is_alive
  <2> QED
    BY <2>1, <2>4, <2>5, <2>6, <2>7 DEF IInv
<1>3. ASSUME mmap_ptr_' = [mmap_ptr_ EXCEPT ![o] = nullptr],
             required_size_' = [required_size_ EXCEPT ![o] = 0],
             mapped' = mapped, type' = [type EXCEPT ![o] = T]
      PROVE  IInv'
  <2>1. TypeOK'
    BY <1>3 DEF IInv, TypeOK
  <2>2. /\ ~is_initialized(o)'
        /\ \A p \in Object : p # o => /\ mmap_ptr_'[p] = mmap_ptr_[p]
                                      /\ required_size_'[p] = required_size_[p]
                                      /\ type'[p] = type[p]
                                      /\ is_initialized(p)' <=> is_initialized(p)
    BY <1>3 DEF IInv, TypeOK, is_initialized
  <2> QED
    BY <1>1, <1>3, <2>1, <2>2
       DEF IInv, HoldsWhatIsMapped, OneHolder, NothingLeaks, DeadHoldNothing, is_alive
<1> QED
  BY <1>2, <1>3 DEF Construct

LEMMA DestroyIInv ==
  ASSUME IInv, NEW o \in Object, Destroy(o)
  PROVE  IInv'
<1> USE SizeAssumption, NullAssumption
<1>1. TypeOK'
  BY UnmapIInv DEF IInv, TypeOK, Destroy
<1>2. /\ ~is_initialized(o)'
      /\ \A p \in Object : p # o => /\ mmap_ptr_'[p] = mmap_ptr_[p]
                                    /\ required_size_'[p] = required_size_[p]
                                    /\ type'[p] = type[p]
                                    /\ is_initialized(p)' <=> is_initialized(p)
  BY DEF IInv, TypeOK, Destroy, is_initialized
<1>3. HoldsWhatIsMapped'
  BY <1>2, UnmapIInv DEF Destroy, HoldsWhatIsMapped
<1>4. OneHolder'
  BY <1>2 DEF IInv, OneHolder
<1>5. NothingLeaks'
  BY <1>2, UnmapIInv DEF Destroy, NothingLeaks, is_alive
<1>6. DeadHoldNothing'
  BY <1>2 DEF IInv, DeadHoldNothing, is_alive
<1> QED
  BY <1>1, <1>3, <1>4, <1>5, <1>6 DEF IInv

LEMMA ProcessEndsIInv ==
  ASSUME IInv, ProcessEnds
  PROVE  IInv'
BY SizeAssumption, NullAssumption
   DEF ProcessEnds, IInv, TypeOK, HoldsWhatIsMapped, OneHolder, NothingLeaks,
       DeadHoldNothing, is_alive, is_initialized

LEMMA NextIInv ==
  ASSUME IInv, [Next]_vars
  PROVE  IInv'
<1>1. ASSUME NEW o \in Object, NEW T \in Type, NEW size \in Size, Construct(o, T, size)
      PROVE  IInv'
  BY <1>1, ConstructIInv
<1>2. ASSUME NEW o \in Object, Destroy(o)
      PROVE  IInv'
  BY <1>2, DestroyIInv
<1>3. ASSUME NEW o \in Object, NEW other \in Object, MoveConstruct(o, other)
      PROVE  IInv'
  <2>1. o # other /\ mapped' = AfterUnmap(o)
    BY <1>3, DeadUnmapsNothing DEF MoveConstruct
  <2>2. /\ type' \in [Object -> Type \cup {nullptr}] /\ type'[o] # nullptr
        /\ \A p \in Object : p # o => type'[p] = type[p]
    BY <1>3 DEF IInv, TypeOK, MoveConstruct, is_alive
  <2> QED
    BY <1>3, <2>1, <2>2, TakeIInv DEF MoveConstruct
<1>4. ASSUME NEW o \in Object, NEW other \in Object, NEW T \in Type, ConvertConstruct(o, T, other)
      PROVE  IInv'
  <2>1. o # other /\ mapped' = AfterUnmap(o)
    BY <1>4, DeadUnmapsNothing DEF ConvertConstruct
  <2>2. /\ type' \in [Object -> Type \cup {nullptr}] /\ type'[o] # nullptr
        /\ \A p \in Object : p # o => type'[p] = type[p]
    BY <1>4, NullAssumption DEF IInv, TypeOK, ConvertConstruct
  <2> QED
    BY <1>4, <2>1, <2>2, TakeIInv DEF ConvertConstruct
<1>5. ASSUME NEW o \in Object, NEW other \in Object, MoveAssign(o, other)
      PROVE  IInv'
  <2>1. CASE o = other
    BY <1>5, <2>1 DEF MoveAssign, IInv, TypeOK, HoldsWhatIsMapped, OneHolder,
       NothingLeaks, DeadHoldNothing, is_alive, is_initialized
  <2>2. CASE o # other
    BY <1>5, <2>2, TakeIInv DEF MoveAssign, IInv, TypeOK, is_alive
  <2> QED
    BY <2>1, <2>2
<1>6. ASSUME NEW o \in Object, NEW other \in Object, ConvertAssign(o, other)
      PROVE  IInv'
  BY <1>6, TakeIInv DEF ConvertAssign, IInv, TypeOK, is_alive
<1>7. CASE UNCHANGED vars
  BY <1>7 DEF vars, IInv, TypeOK, HoldsWhatIsMapped, OneHolder, NothingLeaks,
     DeadHoldNothing, is_alive, is_initialized
<1> QED
  BY <1>1, <1>2, <1>3, <1>4, <1>5, <1>6, <1>7, ProcessEndsIInv DEF Next

LEMMA Invariance == Spec => []IInv
BY InitIInv, NextIInv, PTL DEF Spec

-----------------------------------------------------------------------------
\* What the kernel has mapped and what the objects hold keep their types.
THEOREM TypeCorrect == Spec => []TypeOK
<1>1. IInv => TypeOK
  BY DEF IInv
<1> QED
  BY <1>1, Invariance, PTL

\* An object that is initialized points to a mapping of the size it holds.
THEOREM InitializedIsMapped == Spec => []HoldsWhatIsMapped
<1>1. IInv => HoldsWhatIsMapped
  BY DEF IInv
<1> QED
  BY <1>1, Invariance, PTL

\* A mapping has one owner, through every chain of moves and conversions.
THEOREM OneOwner == Spec => []OneHolder
<1>1. IInv => OneHolder
  BY DEF IInv
<1> QED
  BY <1>1, Invariance, PTL

\* A mapping always has an owner whose destructor will unmap it.
THEOREM NoMappingLeaks == Spec => []NothingLeaks
<1>1. IInv => NothingLeaks
  BY DEF IInv
<1> QED
  BY <1>1, Invariance, PTL
=============================================================================

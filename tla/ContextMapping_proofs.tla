------------------------- MODULE ContextMapping_proofs -------------------------
(***************************************************************************)
(* The mapping of a process, for any layouts, page size and file sizes.    *)
(* The inductive invariant says, for each point of initialize_span_data,   *)
(* which object holds the one mapping there is, and how large it is.       *)
(***************************************************************************)
EXTENDS ContextMapping, TLAPS

NoHolder == /\ mapped = [a \in Address |-> 0]
            /\ \A o \in Object : mmap_ptr_[o] = nullptr /\ required_size_[o] = 0

\* o holds a mapping of size n, no other object holds one, and there is no other.
OnlyHolder(o, n) ==
  /\ mmap_ptr_[o] \in Address
  /\ required_size_[o] = n
  /\ mapped = [a \in Address |-> IF a = mmap_ptr_[o] THEN n ELSE 0]
  /\ \A p \in Object \ {o} : mmap_ptr_[p] = nullptr /\ required_size_[p] = 0

\* o holds the mapping the context will have.
Kept(o) == OnlyHolder(o, required_size) /\ type[o] = target_size

Holder ==
  /\ pc \in {"none", "fstat", "map_old", "truncate", "map_new", "return_null",
             "leave_null"} => NoHolder
  /\ pc \in {"check", "pass_old"} => OnlyHolder("header", file_size)
  /\ pc = "wrap_old" => OnlyHolder("parameter", file_size)
  /\ pc \in {"drop_old", "recover", "keep"} =>
       OnlyHolder("temp_impl", file_size) /\ type["temp_impl"] = file_layout
  /\ pc = "leave_temp" => IF M!is_alive("span_data_impl")
                          THEN Kept("span_data_impl")
                          ELSE OnlyHolder("temp_impl", file_size)
  /\ pc = "leave_old" => IF M!is_alive("span_data_impl")
                         THEN Kept("span_data_impl")
                         ELSE NoHolder \/ OnlyHolder("header", file_size)
  /\ pc \in {"reset", "pass_new"} => OnlyHolder("header", required_size)
  /\ pc = "wrap_new" => OnlyHolder("parameter", required_size)
  /\ pc \in {"drop_new", "leave_new", "close", "pass_context"} => Kept("span_data_impl")
  /\ pc = "make_context" => Kept("argument")
  /\ pc \in {"drop_argument", "leave", "ready"} => Kept("context")

Layout ==
  /\ pc \in {"check", "pass_old", "reset", "pass_new"} => type["header"] = "Header"
  /\ pc \in {"wrap_old", "wrap_new"} => type["parameter"] = "Header"
  /\ pc \in {"map_old", "check", "pass_old", "wrap_old", "drop_old", "recover", "keep",
             "leave_temp", "leave_old"} =>
       original_size = file_size /\ page_size <= file_size
  /\ pc \in {"pass_old", "wrap_old", "drop_old", "recover", "keep"} =>
       sizeof[file_layout] <= file_size
  /\ pc = "keep" \/ (pc \in {"leave_temp", "leave_old"} /\ M!is_alive("span_data_impl")) =>
       file_layout = target_size /\ file_size = required_size
  /\ pc \in {"map_new", "reset", "pass_new", "wrap_new", "drop_new", "leave_new", "close",
             "pass_context", "make_context", "drop_argument", "leave", "ready"} =>
       file_size = required_size
  /\ pc \in {"pass_new", "wrap_new", "drop_new", "leave_new", "close", "pass_context",
             "make_context", "drop_argument", "leave", "ready"} =>
       file_layout = target_size

\* span_data_impl.has_value()
HasValue ==
  pc \in {"none", "fstat", "map_old", "check", "pass_old", "wrap_old", "drop_old", "recover",
          "keep", "truncate", "map_new", "reset", "pass_new", "wrap_new", "return_null",
          "leave_null", "ready"} => ~M!is_alive("span_data_impl")

Descriptor ==
  pc \in {"none", "pass_context", "make_context", "drop_argument", "leave", "ready",
          "leave_null"} => fd = "closed"

IInv == TypeOK /\ Holder /\ Layout /\ HasValue /\ Descriptor

USE DEF M!is_alive

-----------------------------------------------------------------------------
(* Sizes                                                                   *)

\* Rounding down to a multiple.
LEMMA Division ==
  ASSUME NEW m \in Nat, NEW p \in Nat \ {0}
  PROVE  m \div p \in Nat /\ (m \div p) * p <= m /\ m < (m \div p) * p + p
<1>1. m \div p \in Nat
  OBVIOUS
<1>2. m = (m \div p) * p + (m % p) /\ m % p \in 0 .. (p - 1)
  BY SMTT(20)
<1> QED
  BY <1>1, <1>2

\* Rounding up: the aligned size has room for the layout, in whole pages.
LEMMA AlignedSize ==
  ASSUME NEW L \in MmapSize
  PROVE  /\ get_aligned_size(L) \in Size
         /\ get_aligned_size(L) \in Nat \ {0}
         /\ sizeof[L] <= get_aligned_size(L)
         /\ page_size <= get_aligned_size(L)
<1> DEFINE pages == (sizeof[L] + page_size - 1) \div page_size
<1>1. sizeof[L] \in Nat \ {0} /\ page_size \in Nat \ {0}
  BY LayoutAssumption DEF Type
<1>2. /\ pages \in Nat /\ pages * page_size <= sizeof[L] + page_size - 1
      /\ sizeof[L] + page_size - 1 < pages * page_size + page_size
  <2>1. sizeof[L] + page_size - 1 \in Nat
    BY <1>1
  <2> QED
    BY <1>1, <2>1, Division, Zenon
<1>3. get_aligned_size(L) = pages * page_size
  BY DEF get_aligned_size
<1> HIDE DEF pages
<1>4. PICK r \in Nat : pages = r + 1
  <2>1. pages # 0
    BY <1>1, <1>2
  <2> QED
    BY <1>2, <2>1
<1>5. pages * page_size = r * page_size + page_size /\ r * page_size \in Nat
  BY <1>1, <1>4
<1>6. get_aligned_size(L) \in Size
  BY DEF Size
<1> QED
  BY <1>1, <1>2, <1>3, <1>5, <1>6

LEMMA SizesArePositive == Size \subseteq Nat \ {0}
BY AlignedSize, LayoutAssumption DEF Size

LEMMA FileSizeIsNat ==
  ASSUME TypeOK
  PROVE  file_size \in Nat /\ original_size \in Nat
BY SizesArePositive DEF TypeOK

-----------------------------------------------------------------------------
(* What the operations of ManagedMmap do to the one mapping                *)

LEMMA ConstructHolder ==
  ASSUME TypeOK, NoHolder, NEW o \in Object, NEW T \in Type, NEW n \in Size,
         M!Construct(o, T, n)
  PROVE  /\ M!TypeOK'
         /\ M!is_initialized(o)' => OnlyHolder(o, n)'
         /\ ~M!is_initialized(o)' => NoHolder'
         /\ type'[o] = T
         /\ \A p \in Object : p # o => type'[p] = type[p]
<1>1. n \in Nat /\ n > 0
  BY SizesArePositive
<1>2. M!TypeOK'
  BY DEF TypeOK, M!TypeOK, M!Construct
<1>3. type'[o] = T /\ \A p \in Object : p # o => type'[p] = type[p]
  BY DEF TypeOK, M!TypeOK, M!Construct
<1>4. ASSUME NEW a \in Address, mapped[a] = 0, mapped' = [mapped EXCEPT ![a] = n],
             mmap_ptr_' = [mmap_ptr_ EXCEPT ![o] = a],
             required_size_' = [required_size_ EXCEPT ![o] = n]
      PROVE  M!is_initialized(o)' /\ OnlyHolder(o, n)'
  BY <1>1, <1>4, NullAssumption
     DEF TypeOK, M!TypeOK, NoHolder, OnlyHolder, M!is_initialized
<1>5. ASSUME mmap_ptr_' = [mmap_ptr_ EXCEPT ![o] = nullptr],
             required_size_' = [required_size_ EXCEPT ![o] = 0], mapped' = mapped
      PROVE  ~M!is_initialized(o)' /\ NoHolder'
  BY <1>5 DEF TypeOK, M!TypeOK, NoHolder, M!is_initialized
<1> QED
  BY <1>2, <1>3, <1>4, <1>5 DEF M!Construct

LEMMA MoveHolder ==
  ASSUME TypeOK, NEW o \in Object, NEW p \in Object, NEW n \in Size, OnlyHolder(p, n),
         \/ M!MoveConstruct(o, p)
         \/ \E T \in Type : M!ConvertConstruct(o, T, p)
  PROVE  M!TypeOK' /\ OnlyHolder(o, n)' /\ o # p
<1>1. /\ o # p /\ mapped' = mapped /\ M!Take(o, p)
      /\ type' \in [Object -> Type \cup {nullptr}]
  BY DEF TypeOK, M!TypeOK, M!MoveConstruct, M!ConvertConstruct
<1>2. M!TypeOK'
  BY <1>1 DEF TypeOK, M!TypeOK, M!Take
<1>3. OnlyHolder(o, n)'
  BY <1>1, NullAssumption DEF TypeOK, M!TypeOK, M!Take, OnlyHolder
<1> QED
  BY <1>1, <1>2, <1>3

LEMMA DestroyOther ==
  ASSUME TypeOK, NEW o \in Object, NEW p \in Object, o # p, NEW n \in Size, OnlyHolder(p, n),
         M!Destroy(o)
  PROVE  M!TypeOK' /\ OnlyHolder(p, n)' /\ type' = [type EXCEPT ![o] = nullptr]
<1>1. ~M!is_initialized(o) /\ mapped' = mapped
  BY NullAssumption DEF OnlyHolder, M!is_initialized, M!Destroy, M!AfterUnmap
<1> QED
  BY <1>1 DEF TypeOK, M!TypeOK, M!Destroy, OnlyHolder

LEMMA DestroyHolder ==
  ASSUME TypeOK, NEW o \in Object, M!Destroy(o),
         NoHolder \/ \E n \in Size : OnlyHolder(o, n)
  PROVE  M!TypeOK' /\ NoHolder' /\ type' = [type EXCEPT ![o] = nullptr]
<1>1. CASE NoHolder
  BY <1>1 DEF TypeOK, M!TypeOK, M!Destroy, M!AfterUnmap, M!is_initialized, NoHolder
<1>2. ASSUME NEW n \in Size, OnlyHolder(o, n)
      PROVE  M!TypeOK' /\ NoHolder' /\ type' = [type EXCEPT ![o] = nullptr]
  <2>1. n > 0 /\ n \in Nat
    BY SizesArePositive
  <2>2. mapped' = [mapped EXCEPT ![mmap_ptr_[o]] = 0]
    BY <1>2, <2>1, NullAssumption DEF OnlyHolder, M!is_initialized, M!Destroy, M!AfterUnmap
  <2> QED
    BY <1>2, <2>2 DEF TypeOK, M!TypeOK, M!Destroy, OnlyHolder, NoHolder
<1> QED
  BY <1>1, <1>2

LEMMA EndsHolder ==
  ASSUME M!ProcessEnds
  PROVE  M!TypeOK' /\ NoHolder' /\ ~M!is_alive("span_data_impl")'
BY DEF M!ProcessEnds, M!TypeOK, NoHolder, Object

-----------------------------------------------------------------------------
(* The invariant                                                           *)

LEMMA InitIInv == Init => IInv
<1> SUFFICES ASSUME Init PROVE IInv
  OBVIOUS
<1>1. TypeOK
  BY DEF Init, TypeOK, PC, Size, M!Init, M!TypeOK
<1>2. NoHolder /\ ~M!is_alive("span_data_impl")
  BY DEF Init, M!Init, NoHolder, Object
<1> QED
  BY <1>1, <1>2 DEF Init, IInv, Holder, Layout, HasValue, Descriptor

\* Steps that touch no mapping.
LEMMA MemoryUnchanged ==
  ASSUME IInv,
         \/ \E L \in MmapSize : Open(L)
         \/ Fstat \/ StatOrTruncateFails \/ Check \/ Recover \/ Truncate
         \/ reset_header \/ ReturnNull \/ Close \/ Add \/ UNCHANGED vars
  PROVE  IInv'
<1> USE DEF Goto, memory, file
<1>1. UNCHANGED memory
  BY DEF Open, Fstat, StatOrTruncateFails, Check, Recover, Truncate, reset_header,
     ReturnNull, Close, Add, vars
<1>2. UNCHANGED NoHolder /\ M!TypeOK'
  BY <1>1 DEF NoHolder, IInv, TypeOK, M!TypeOK
<1>3. ASSUME NEW L \in MmapSize, Open(L)
      PROVE  IInv'
  BY <1>1, <1>2, <1>3 DEF Open, IInv, TypeOK, PC, Holder, Layout, HasValue, Descriptor
<1>4. CASE Fstat
  BY <1>1, <1>2, <1>4 DEF Fstat, IInv, TypeOK, PC, Holder, Layout, HasValue, Descriptor
<1>5. CASE StatOrTruncateFails
  BY <1>1, <1>2, <1>5
     DEF StatOrTruncateFails, IInv, TypeOK, PC, Holder, Layout, HasValue, Descriptor
<1>6. CASE Check
  BY <1>1, <1>6
     DEF Check, should_do_recovery, OnlyHolder, IInv, TypeOK, M!TypeOK, PC, Holder, Layout,
         HasValue, Descriptor
<1>7. CASE Recover
  BY <1>1, <1>7
     DEF Recover, required_size, OnlyHolder, IInv, TypeOK, M!TypeOK, PC, Holder, Layout,
         HasValue, Descriptor
<1>8. CASE Truncate
  <2>1. required_size' = required_size /\ required_size \in Size
    BY <1>8, AlignedSize DEF Truncate, required_size, IInv, TypeOK
  <2> QED
    BY <1>1, <1>2, <1>8, <2>1
       DEF Truncate, IInv, TypeOK, PC, Holder, Layout, HasValue, Descriptor
<1>9. CASE reset_header
  <2>1. required_size' = required_size
    BY <1>9 DEF reset_header, required_size
  <2>2. OnlyHolder("header", required_size)'
    BY <1>1, <1>9, <2>1 DEF reset_header, OnlyHolder, IInv, Holder
  <2> QED
    BY <1>1, <1>2, <1>9, <2>1, <2>2
       DEF reset_header, IInv, TypeOK, PC, Holder, Layout, HasValue, Descriptor
<1>10. CASE ReturnNull
  BY <1>1, <1>2, <1>10 DEF ReturnNull, IInv, TypeOK, PC, Holder, Layout, HasValue, Descriptor
<1>11. CASE Close
  BY <1>1, <1>11
     DEF Close, required_size, Kept, OnlyHolder, IInv, TypeOK, M!TypeOK, PC, Holder, Layout,
         HasValue, Descriptor
<1>12. CASE Add
  BY <1>1, <1>12
     DEF Add, required_size, Kept, OnlyHolder, IInv, TypeOK, M!TypeOK, PC, Holder, Layout,
         HasValue, Descriptor
<1>13. CASE UNCHANGED vars
  BY <1>13
     DEF vars, required_size, Kept, NoHolder, OnlyHolder, IInv, TypeOK, M!TypeOK, PC, Holder,
         Layout, HasValue, Descriptor
<1> QED
  BY <1>3, <1>4, <1>5, <1>6, <1>7, <1>8, <1>9, <1>10, <1>11, <1>12, <1>13

\* Steps that make a mapping.
LEMMA MapIInv ==
  ASSUME IInv, NEW from \in {"map_old", "map_new"}, NEW n \in Size, n = file_size,
         Map(from, n, IF from = "map_old" THEN "check" ELSE "reset")
  PROVE  IInv'
<1>1. /\ pc = from /\ M!Construct("header", "Header", n)
      /\ pc' = IF M!is_initialized("header")'
               THEN (IF from = "map_old" THEN "check" ELSE "reset") ELSE "return_null"
      /\ UNCHANGED <<fd, original_size, target_size, file_size, file_layout, has_spans>>
  BY DEF Map, file
<1>2. NoHolder /\ TypeOK /\ "header" \in Object /\ "Header" \in Type
  BY <1>1 DEF IInv, Holder, Object, Type
<1>3. /\ M!TypeOK'
      /\ M!is_initialized("header")' => OnlyHolder("header", n)'
      /\ ~M!is_initialized("header")' => NoHolder'
      /\ type'["header"] = "Header" /\ type'["span_data_impl"] = type["span_data_impl"]
  BY <1>1, <1>2, ConstructHolder DEF Object
<1>4. TypeOK'
  BY <1>1, <1>3 DEF IInv, TypeOK, PC
<1>5. CASE from = "map_old"
  <2>1. OnlyHolder("header", n)' => OnlyHolder("header", file_size)'
    BY <1>1 DEF OnlyHolder
  <2> QED
    BY <1>1, <1>3, <1>4, <1>5, <2>1 DEF IInv, Holder, Layout, HasValue, Descriptor
<1>6. CASE from = "map_new"
  <2>1. n = required_size /\ required_size' = required_size
    BY <1>1, <1>6 DEF IInv, Layout, required_size
  <2>2. OnlyHolder("header", n)' => OnlyHolder("header", required_size)'
    BY <1>1, <2>1 DEF OnlyHolder
  <2> QED
    BY <1>1, <1>3, <1>4, <1>6, <2>1, <2>2 DEF IInv, Holder, Layout, HasValue, Descriptor
<1> QED
  BY <1>5, <1>6

\* The sizes of the mapping on the two ways through the code are sizes.
LEMMA HeldSizes ==
  ASSUME IInv
  PROVE  /\ required_size \in Size
         /\ pc \in {"check", "pass_old", "wrap_old", "drop_old", "recover", "keep",
                   "leave_temp", "leave_old"} => file_size \in Size
BY AlignedSize, FileSizeIsNat, LayoutAssumption DEF IInv, TypeOK, Layout, required_size

\* SpanDataImpl's constructor.
LEMMA PassIInv ==
  ASSUME IInv, Pass
  PROVE  IInv'
<1>1. /\ M!MoveConstruct("parameter", "header")
      /\ UNCHANGED <<fd, original_size, target_size, file_size, file_layout, has_spans>>
      /\ \/ pc = "pass_old" /\ pc' = "wrap_old"
         \/ pc = "pass_new" /\ pc' = "wrap_new"
  BY DEF Pass, Goto, file
<1>2. TypeOK /\ "parameter" \in Object /\ "header" \in Object /\ required_size' = required_size
  BY <1>1 DEF IInv, Object, required_size
<1>3. type'["span_data_impl"] = type["span_data_impl"] /\ type'["parameter"] = "Header"
  BY <1>1, <1>2 DEF IInv, Layout, TypeOK, M!TypeOK, M!MoveConstruct, Object
<1>4. CASE pc = "pass_old"
  <2>1. OnlyHolder("header", file_size) /\ file_size \in Size
    BY <1>4, HeldSizes DEF IInv, Holder
  <2>2. M!TypeOK' /\ OnlyHolder("parameter", file_size)'
    BY <1>1, <1>2, <2>1, MoveHolder DEF OnlyHolder
  <2> QED
    BY <1>1, <1>2, <1>3, <1>4, <2>2 DEF IInv, TypeOK, PC, Holder, Layout, HasValue, Descriptor
<1>5. CASE pc = "pass_new"
  <2>1. OnlyHolder("header", required_size) /\ required_size \in Size
    BY <1>5, HeldSizes DEF IInv, Holder
  <2>2. M!TypeOK' /\ OnlyHolder("parameter", required_size)'
    BY <1>1, <1>2, <2>1, MoveHolder DEF OnlyHolder
  <2> QED
    BY <1>1, <1>2, <1>3, <1>5, <2>2 DEF IInv, TypeOK, PC, Holder, Layout, HasValue, Descriptor
<1> QED
  BY <1>1, <1>4, <1>5

LEMMA WrapIInv ==
  ASSUME IInv, Wrap
  PROVE  IInv'
<1>1. UNCHANGED <<fd, original_size, target_size, file_size, file_layout, has_spans>>
  BY DEF Wrap, file
<1>2. /\ {"parameter", "temp_impl", "span_data_impl"} \subseteq Object
      /\ required_size' = required_size /\ make_data \in Type /\ TypeOK
  BY <1>1 DEF IInv, Object, required_size, make_data, TypeOK, Type
<1>3. ASSUME pc = "wrap_old", pc' = "drop_old",
             M!ConvertConstruct("temp_impl", make_data, "parameter")
      PROVE  IInv'
  <2>1. OnlyHolder("parameter", file_size) /\ file_size \in Size
    BY <1>3, HeldSizes DEF IInv, Holder
  <2>2. M!TypeOK' /\ OnlyHolder("temp_impl", file_size)'
    BY <1>1, <1>2, <1>3, <2>1, MoveHolder DEF OnlyHolder
  <2>3. /\ type'["span_data_impl"] = type["span_data_impl"]
        /\ type'["temp_impl"] = file_layout
    BY <1>2, <1>3 DEF TypeOK, M!TypeOK, M!ConvertConstruct, Object, make_data
  <2> QED
    BY <1>1, <1>2, <1>3, <2>2, <2>3 DEF IInv, TypeOK, PC, Holder, Layout, HasValue, Descriptor
<1>4. ASSUME pc = "wrap_new", pc' = "drop_new",
             M!ConvertConstruct("span_data_impl", make_data, "parameter")
      PROVE  IInv'
  <2>1. OnlyHolder("parameter", required_size) /\ required_size \in Size
    BY <1>4, HeldSizes DEF IInv, Holder
  <2>2. M!TypeOK' /\ OnlyHolder("span_data_impl", required_size)'
    BY <1>1, <1>2, <1>4, <2>1, MoveHolder DEF OnlyHolder
  <2>3. type'["span_data_impl"] = target_size
    BY <1>2, <1>4 DEF IInv, Layout, TypeOK, M!TypeOK, M!ConvertConstruct, Object, make_data
  <2>4. Kept("span_data_impl")'
    BY <1>1, <1>2, <2>2, <2>3 DEF Kept, OnlyHolder
  <2> QED
    BY <1>1, <1>2, <1>4, <2>2, <2>4 DEF IInv, TypeOK, PC, Holder, Layout, HasValue, Descriptor
<1> QED
  BY <1>3, <1>4 DEF Wrap, Goto

\* A step that destroys an object which holds nothing.
LEMMA DropIInv ==
  ASSUME IInv, Drop \/ LeaveNew \/ DropArgument \/ Leave
  PROVE  IInv'
<1>1. UNCHANGED <<fd, original_size, target_size, file_size, file_layout, has_spans>>
  BY DEF Drop, LeaveNew, DropArgument, Leave, file
<1>2. required_size' = required_size /\ required_size \in Size /\ TypeOK
  BY <1>1, HeldSizes DEF IInv, required_size
<1>3. CASE Drop /\ pc = "drop_old"
  <2>1. /\ pc' = "recover" /\ M!Destroy("parameter")
        /\ OnlyHolder("temp_impl", file_size) /\ file_size \in Size
    BY <1>3, HeldSizes DEF Drop, Goto, IInv, Holder
  <2>2. /\ M!TypeOK' /\ OnlyHolder("temp_impl", file_size)'
        /\ type' = [type EXCEPT !["parameter"] = nullptr]
    BY <1>1, <1>2, <2>1, DestroyOther DEF OnlyHolder, Object
  <2>3. /\ type'["span_data_impl"] = type["span_data_impl"]
        /\ type'["temp_impl"] = type["temp_impl"]
    BY <1>2, <2>2 DEF TypeOK, M!TypeOK, Object
  <2> QED
    BY <1>1, <1>2, <1>3, <2>1, <2>2, <2>3
       DEF IInv, TypeOK, PC, Holder, Layout, HasValue, Descriptor
<1>4. ASSUME NEW o \in {"parameter", "header", "argument", "span_data_impl"},
             NEW p \in {"span_data_impl", "context"}, o # p,
             M!Destroy(o), Kept(p),
             \/ pc = "drop_new" /\ pc' = "leave_new" /\ p = "span_data_impl"
             \/ pc = "leave_new" /\ pc' = "close" /\ p = "span_data_impl"
             \/ pc = "drop_argument" /\ pc' = "leave" /\ p = "context"
             \/ pc = "leave" /\ pc' = "ready" /\ o = "span_data_impl" /\ p = "context"
      PROVE  IInv'
  <2>1. /\ M!TypeOK' /\ OnlyHolder(p, required_size)'
        /\ type' = [type EXCEPT ![o] = nullptr]
    BY <1>1, <1>2, <1>4, DestroyOther DEF Kept, OnlyHolder, Object
  <2>2. Kept(p)' /\ (o = "span_data_impl" => ~M!is_alive("span_data_impl")')
    BY <1>1, <1>2, <1>4, <2>1 DEF Kept, TypeOK, M!TypeOK, Object
  <2> QED
    BY <1>1, <1>2, <1>4, <2>1, <2>2
       DEF IInv, TypeOK, PC, Holder, Layout, HasValue, Descriptor
<1>5. CASE (Drop /\ pc # "drop_old") \/ LeaveNew \/ DropArgument \/ Leave
  BY <1>4, <1>5 DEF Drop, LeaveNew, DropArgument, Leave, Goto, IInv, Holder
<1> QED
  BY <1>3, <1>5

\* Between the objects of the two scopes and into the context.
LEMMA HandOverIInv ==
  ASSUME IInv, Keep \/ PassContext \/ MakeContext
  PROVE  IInv'
<1>1. UNCHANGED <<fd, original_size, target_size, file_size, file_layout>> /\ has_spans' \in BOOLEAN
  BY DEF Keep, PassContext, MakeContext, file, IInv, TypeOK
<1>2. required_size' = required_size /\ required_size \in Size /\ TypeOK
  BY <1>1, HeldSizes DEF IInv, required_size
<1>3. ASSUME NEW o \in {"span_data_impl", "argument", "context"},
             NEW p \in {"temp_impl", "span_data_impl", "argument"},
             M!MoveConstruct(o, p), Kept(p)
      PROVE  M!TypeOK' /\ Kept(o)' /\ M!is_alive(o)'
  <2>1. M!TypeOK' /\ OnlyHolder(o, required_size)'
    BY <1>1, <1>2, <1>3, MoveHolder DEF Kept, OnlyHolder, Object
  <2>2. type'[o] = target_size /\ type'[o] # nullptr
    BY <1>2, <1>3, NullAssumption DEF Kept, TypeOK, M!TypeOK, M!MoveConstruct, Object, Type
  <2> QED
    BY <1>1, <2>1, <2>2 DEF Kept
<1>4. CASE Keep
  <2>1. /\ pc = "keep" /\ pc' = "leave_temp" /\ Kept("temp_impl")
        /\ M!MoveConstruct("span_data_impl", "temp_impl")
    BY <1>4 DEF Keep, Goto, IInv, Holder, Layout, Kept
  <2>2. M!TypeOK' /\ Kept("span_data_impl")' /\ M!is_alive("span_data_impl")'
    BY <1>3, <2>1
  <2> QED
    BY <1>1, <1>2, <2>1, <2>2 DEF IInv, TypeOK, PC, Holder, Layout, HasValue, Descriptor
<1>5. CASE PassContext
  <2>1. /\ pc = "pass_context" /\ pc' = "make_context" /\ Kept("span_data_impl")
        /\ M!MoveConstruct("argument", "span_data_impl")
    BY <1>5 DEF PassContext, Goto, IInv, Holder
  <2>2. M!TypeOK' /\ Kept("argument")'
    BY <1>3, <2>1
  <2> QED
    BY <1>1, <1>2, <2>1, <2>2 DEF IInv, TypeOK, PC, Holder, Layout, HasValue, Descriptor
<1>6. CASE MakeContext
  <2>1. /\ pc = "make_context" /\ pc' = "drop_argument" /\ Kept("argument")
        /\ M!MoveConstruct("context", "argument")
    BY <1>6 DEF MakeContext, Goto, IInv, Holder
  <2>2. M!TypeOK' /\ Kept("context")'
    BY <1>3, <2>1
  <2> QED
    BY <1>1, <1>2, <2>1, <2>2 DEF IInv, TypeOK, PC, Holder, Layout, HasValue, Descriptor
<1> QED
  BY <1>4, <1>5, <1>6

\* The ends of the scopes of the first mapping.
LEMMA LeaveIInv ==
  ASSUME IInv, LeaveTemp \/ LeaveOld
  PROVE  IInv'
<1>1. UNCHANGED <<fd, original_size, target_size, file_size, file_layout, has_spans>>
  BY DEF LeaveTemp, LeaveOld, file
<1>2. /\ required_size' = required_size /\ required_size \in Size /\ file_size \in Size
      /\ TypeOK /\ {"header", "temp_impl", "span_data_impl"} \subseteq Object
  BY <1>1, HeldSizes DEF IInv, Object, required_size, LeaveTemp, LeaveOld, Goto
<1>3. ASSUME NEW o \in {"header", "temp_impl"}, M!Destroy(o)
      PROVE  /\ M!TypeOK' /\ type'["span_data_impl"] = type["span_data_impl"]
             /\ Kept("span_data_impl") => Kept("span_data_impl")'
             /\ NoHolder \/ OnlyHolder(o, file_size) => NoHolder'
  <2>1. /\ M!TypeOK' /\ type'["span_data_impl"] = type["span_data_impl"]
        /\ NoHolder \/ OnlyHolder(o, file_size) => NoHolder'
    <3>1. M!TypeOK' /\ type'["span_data_impl"] = type["span_data_impl"]
      BY <1>2, <1>3 DEF TypeOK, M!TypeOK, M!Destroy, M!AfterUnmap, Object
    <3>2. NoHolder \/ OnlyHolder(o, file_size) => NoHolder'
      BY <1>2, <1>3, DestroyHolder
    <3> QED
      BY <3>1, <3>2
  <2>2. Kept("span_data_impl") => Kept("span_data_impl")'
    BY <1>1, <1>2, <1>3, <2>1, DestroyOther DEF Kept, OnlyHolder
  <2> QED
    BY <2>1, <2>2
<1>4. CASE LeaveTemp
  <2>1. pc = "leave_temp" /\ pc' = "leave_old" /\ M!Destroy("temp_impl")
    BY <1>4 DEF LeaveTemp, Goto
  <2> QED
    BY <1>1, <1>2, <1>3, <2>1 DEF IInv, TypeOK, PC, Holder, Layout, HasValue, Descriptor
<1>5. CASE LeaveOld
  <2>1. /\ pc = "leave_old" /\ M!Destroy("header")
        /\ pc' = IF M!is_alive("span_data_impl") THEN "close" ELSE "truncate"
    BY <1>5 DEF LeaveOld
  <2> QED
    BY <1>1, <1>2, <1>3, <2>1 DEF IInv, TypeOK, PC, Holder, Layout, HasValue, Descriptor
<1> QED
  BY <1>4, <1>5

\* The ways back to no context.
LEMMA EndIInv ==
  ASSUME IInv, LeaveNull \/ release_span_data \/ Crash
  PROVE  IInv'
<1>1. UNCHANGED <<original_size, target_size, file_size, file_layout, has_spans>> /\ pc' = "none"
  BY DEF LeaveNull, release_span_data, Crash, Goto, file
<1>2. M!TypeOK' /\ NoHolder' /\ ~M!is_alive("span_data_impl")' /\ fd' = "closed"
  <2>1. CASE LeaveNull \/ release_span_data
    <3>1. PICK o \in {"header", "context"} :
            M!Destroy(o) /\ (NoHolder \/ OnlyHolder(o, required_size))
      BY <2>1 DEF LeaveNull, release_span_data, Goto, IInv, Holder, Kept
    <3>2. /\ M!TypeOK' /\ NoHolder' /\ type' = [type EXCEPT ![o] = nullptr]
      BY <3>1, HeldSizes, DestroyHolder DEF IInv, Object
    <3>3. ~M!is_alive("span_data_impl") /\ fd' = "closed"
      BY <2>1 DEF LeaveNull, release_span_data, Goto, IInv, HasValue, Descriptor
    <3> QED
      BY <3>2, <3>3 DEF IInv, TypeOK, M!TypeOK, Object
  <2>2. CASE Crash
    BY <2>2, EndsHolder DEF Crash
  <2> QED
    BY <2>1, <2>2
<1> QED
  BY <1>1, <1>2 DEF IInv, TypeOK, PC, Holder, Layout, HasValue, Descriptor

LEMMA NextIInv ==
  ASSUME IInv, [Next]_vars
  PROVE  IInv'
<1>1. CASE MapOld \/ MapNew
  <2>1. PICK from \in {"map_old", "map_new"} :
          \/ /\ from = "map_old" /\ Map(from, original_size, "check")
          \/ /\ from = "map_new" /\ Map(from, required_size, "reset")
    BY <1>1 DEF MapOld, MapNew
  <2>2. pc = from
    BY <2>1 DEF Map
  <2>3. /\ from = "map_old" => original_size = file_size
        /\ from = "map_new" => required_size = file_size
        /\ file_size \in Size
    BY <2>2, FileSizeIsNat, HeldSizes, LayoutAssumption DEF IInv, Layout, TypeOK
  <2> QED
    BY <2>1, <2>3, MapIInv
<1> QED
  BY <1>1, MemoryUnchanged, PassIInv, WrapIInv, DropIInv, HandOverIInv, LeaveIInv, EndIInv
     DEF Next

LEMMA Invariance == Spec => []IInv
BY InitIInv, NextIInv, PTL DEF Spec

-----------------------------------------------------------------------------
\* A live holder of a mapping is initialized, and no other object is.
LEMMA HolderIsInitialized ==
  ASSUME NEW o \in Object, NEW n \in Size, OnlyHolder(o, n)
  PROVE  \A p \in Object : M!is_initialized(p) <=> p = o
BY SizesArePositive, NullAssumption DEF OnlyHolder, M!is_initialized

\* The mappings, the descriptor and what is known of the file keep their types.
THEOREM TypeCorrect == Spec => []TypeOK
<1>1. IInv => TypeOK
  BY DEF IInv
<1> QED
  BY <1>1, Invariance, PTL

\* Every way out of initialize_span_data, and release_span_data, leaves the
\* descriptor closed and no mapping but the context's.
THEOREM ReturnsWithNothingElse == Spec => []ReturnsCleanly
<1>1. IInv => ReturnsCleanly
  <2> SUFFICES ASSUME IInv PROVE ReturnsCleanly
    OBVIOUS
  <2>1. pc = "none" => \A a \in Address : mapped[a] = 0
    BY DEF IInv, Holder, NoHolder
  <2>2. ASSUME pc = "ready"
        PROVE  /\ \A o \in Object : Holds(o) <=> o = "context"
               /\ \A a \in Address : mapped[a] # 0 => a = mmap_ptr_["context"]
               /\ type["context"] = target_size
               /\ required_size_["context"] = required_size
    <3>1. Kept("context")
      BY <2>2 DEF IInv, Holder
    <3> QED
      BY <3>1, HeldSizes, HolderIsInitialized DEF Kept, OnlyHolder, Holds, Object
  <2> QED
    BY <2>1, <2>2 DEF IInv, Descriptor, ReturnsCleanly
<1> QED
  BY <1>1, Invariance, PTL

\* No live mapping reaches past the end of the file.
THEOREM NoMappingPastTheEnd == Spec => []MappingsWithinFile
<1>1. IInv => MappingsWithinFile
  <2> SUFFICES ASSUME IInv, NEW a \in Address PROVE mapped[a] <= file_size
    BY DEF MappingsWithinFile
  <2>1. file_size \in Nat
    BY FileSizeIsNat DEF IInv
  <2>2. CASE NoHolder
    BY <2>1, <2>2 DEF NoHolder
  <2>3. CASE \E o \in Object : OnlyHolder(o, file_size)
    BY <2>1, <2>3 DEF OnlyHolder
  <2>4. NoHolder \/ \E o \in Object : OnlyHolder(o, file_size)
    BY DEF IInv, TypeOK, PC, Holder, Layout, Kept, Object
  <2> QED
    BY <2>2, <2>3, <2>4
<1> QED
  BY <1>1, Invariance, PTL

\* No access goes through a mapping that failed, moved away or is too small.
THEOREM EveryAccessIsMapped == Spec => []AccessIsMapped
<1>1. IInv => AccessIsMapped
  <2> SUFFICES ASSUME IInv, NEW o \in Used(pc)
               PROVE  /\ Holds(o)
                      /\ type[o] \in MmapSize => type[o] = file_layout
                      /\ sizeof[IF o = "parameter" THEN file_layout ELSE type[o]] <= required_size_[o]
    BY DEF AccessIsMapped
  <2>1. ASSUME pc \in {"check", "reset"}, o = "header"
        PROVE  /\ Holds(o) /\ type[o] = "Header" /\ sizeof["Header"] <= required_size_[o]
    <3>1. PICK n \in Size : OnlyHolder(o, n) /\ page_size <= n /\ n = required_size_[o]
      BY <2>1, HeldSizes, AlignedSize
         DEF IInv, Holder, Layout, OnlyHolder, required_size, TypeOK
    <3>2. n \in Nat /\ sizeof["Header"] \in Nat
      BY SizesArePositive, LayoutAssumption DEF Type
    <3> QED
      BY <2>1, <3>1, <3>2, HolderIsInitialized, LayoutAssumption
         DEF IInv, Layout, Holds, Object
  <2>2. ASSUME pc \in {"wrap_old", "wrap_new"}, o = "parameter"
        PROVE  Holds(o) /\ type[o] = "Header" /\ sizeof[file_layout] <= required_size_[o]
    <3>1. PICK n \in Size : OnlyHolder(o, n) /\ sizeof[file_layout] <= n /\ n = required_size_[o]
      BY <2>2, HeldSizes, AlignedSize
         DEF IInv, Holder, Layout, OnlyHolder, required_size, TypeOK
    <3> QED
      BY <2>2, <3>1, HolderIsInitialized DEF IInv, Layout, Holds, Object
  <2>3. ASSUME pc \in {"recover", "keep"}, o = "temp_impl"
        PROVE  Holds(o) /\ type[o] = file_layout /\ sizeof[file_layout] <= required_size_[o]
    BY <2>3, HeldSizes, HolderIsInitialized DEF IInv, Holder, Layout, OnlyHolder, Holds, Object
  <2>4. ASSUME pc \in {"drop_argument", "ready"}, o = "context"
        PROVE  Holds(o) /\ type[o] = file_layout /\ sizeof[file_layout] <= required_size_[o]
    BY <2>4, HeldSizes, AlignedSize, HolderIsInitialized
       DEF IInv, Holder, Layout, Kept, OnlyHolder, Holds, Object, required_size, TypeOK
  <2> QED
    BY <2>1, <2>2, <2>3, <2>4, LayoutAssumption DEF Used, IInv, Layout, TypeOK
<1> QED
  BY <1>1, Invariance, PTL

-----------------------------------------------------------------------------
(* The components agree: whatever initialize_span_data does to its         *)
(* mappings, on every path, is an operation ManagedMmap has in that state. *)

\* Steps that make a mapping, over the file as large as it is.
LEMMA MapsAnObject ==
  ASSUME IInv, MapOld \/ MapNew
  PROVE  \E n \in Size : M!Construct("header", "Header", n)
<1>1. CASE MapOld
  BY <1>1, HeldSizes, FileSizeIsNat, LayoutAssumption
     DEF MapOld, Map, IInv, Layout, TypeOK, Size
<1>2. CASE MapNew
  BY <1>2, HeldSizes DEF MapNew, Map
<1> QED
  BY <1>1, <1>2

\* Every step of initialize_span_data and release_span_data is one of
\* ManagedMmap, or leaves the objects and the mappings alone.
LEMMA MemoryStep ==
  ASSUME IInv, [Next]_vars
  PROVE  [M!Next]_(M!vars)
<1> USE DEF Object, Type, Goto
<1>1. CASE \/ \E L \in MmapSize : Open(L)
           \/ Fstat \/ StatOrTruncateFails \/ Check \/ Recover \/ Truncate
           \/ reset_header \/ ReturnNull \/ Close \/ Add \/ UNCHANGED vars
  BY <1>1
     DEF Open, Fstat, StatOrTruncateFails, Check, Recover, Truncate, reset_header,
         ReturnNull, Close, Add, vars, memory, M!vars
<1>2. CASE MapOld \/ MapNew
  BY <1>2, MapsAnObject DEF M!Next
<1>3. CASE Pass \/ Keep \/ PassContext \/ MakeContext
  BY <1>3 DEF Pass, Keep, PassContext, MakeContext, M!Next
<1>4. CASE Wrap
  BY <1>4 DEF Wrap, make_data, IInv, TypeOK, M!Next
<1>5. CASE \/ Drop \/ LeaveTemp \/ LeaveOld \/ LeaveNew \/ LeaveNull \/ DropArgument
           \/ Leave \/ release_span_data
  BY <1>5
     DEF Drop, LeaveTemp, LeaveOld, LeaveNew, LeaveNull, DropArgument, Leave,
         release_span_data, M!Next
<1>6. CASE Crash
  BY <1>6 DEF Crash, M!Next
<1> QED
  BY <1>1, <1>2, <1>3, <1>4, <1>5, <1>6 DEF Next

\* initialize_span_data is a client that keeps to the rules of ManagedMmap: on
\* every path, with any failure and a crash anywhere, each construction, move,
\* conversion and destruction of a mapping is one the class allows there, its
\* assertions on the size of a layout included (initialize.cpp:78-166,
\* managed_mmap.h:73-108).
THEOREM KeepsManagedMmapRules == Spec => M!Spec
<1>1. Init => M!Init
  BY DEF Init
<1>2. IInv /\ [Next]_vars => [M!Next]_(M!vars)
  BY MemoryStep
<1> QED
  BY <1>1, <1>2, Invariance, PTL DEF Spec, M!Spec
=============================================================================

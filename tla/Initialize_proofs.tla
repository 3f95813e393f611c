--------------------------- MODULE Initialize_proofs ---------------------------
(***************************************************************************)
(* initialize_span_data for any layouts, any page size and any sequence of *)
(* sizes, failures and crashes.  The theorems assume CountFirst, as the    *)
(* source has it (SourceCountsFirst): without it a crash inside            *)
(* reset_header leaves the count of one layout in the header of another.   *)
(* InitializationEnds does not depend on it.                               *)
(*                                                                         *)
(* The invariant says at each pc what of the header has been stored        *)
(* (Prepared), where the store is empty (Emptied), what can be in the      *)
(* words of a file that can be read (OwnWords), and what the process still *)
(* knows of the spans it takes off the disk (Remembered).                  *)
(***************************************************************************)
EXTENDS InitializeFair, FiniteSetTheorems, WellFoundedInduction, TLAPS

USE LayoutAssumption

-----------------------------------------------------------------------------
(* Sizes                                                                   *)

LEMMA Division ==
  ASSUME NEW m \in Nat, NEW p \in Nat \ {0}
  PROVE  m \div p \in Nat /\ (m \div p) * p <= m /\ m < (m \div p) * p + p
<1>1. m \div p \in Nat
  OBVIOUS
<1>2. m = (m \div p) * p + (m % p) /\ m % p \in 0 .. (p - 1)
  BY SMTT(20)
<1> QED
  BY <1>1, <1>2

LEMMA LayoutSize ==
  ASSUME NEW L \in MmapSize
  PROVE  get_memory_layout_size(L) \in Nat \ {0}
<1>1. max_spans[L] \in Nat /\ slot_words[L] \in Nat
  OBVIOUS
<1>2. max_spans[L] * slot_words[L] \in Nat
  BY <1>1
<1> QED
  BY <1>2 DEF get_memory_layout_size

\* Rounding up: the aligned size has room for the layout, in whole pages.
LEMMA AlignedSize ==
  ASSUME NEW L \in MmapSize
  PROVE  /\ get_aligned_size(L) \in Nat \ {0}
         /\ get_memory_layout_size(L) <= get_aligned_size(L)
         /\ page_words <= get_aligned_size(L)
<1> DEFINE size == get_memory_layout_size(L)
           pages == (size + page_words - 1) \div page_words
<1>1. size \in Nat \ {0} /\ page_words \in Nat \ {0}
  BY LayoutSize
<1>2. get_aligned_size(L) = pages * page_words
  BY DEF get_aligned_size
<1> HIDE DEF size
<1>3. /\ pages \in Nat /\ pages * page_words <= size + page_words - 1
      /\ size + page_words - 1 < pages * page_words + page_words
  <2>1. size + page_words - 1 \in Nat
    BY <1>1
  <2> QED
    BY <1>1, <2>1, Division, Zenon
<1> HIDE DEF pages
<1>4. PICK r \in Nat : pages = r + 1
  <2>1. pages # 0
    BY <1>1, <1>3
  <2> QED
    BY <1>3, <2>1
<1>5. pages * page_words = r * page_words + page_words /\ r * page_words \in Nat
  BY <1>1, <1>4
<1> QED
  BY <1>1, <1>2, <1>3, <1>5 DEF size

LEMMA LeastElement ==
  ASSUME NEW S \in SUBSET Nat, S # {}
  PROVE  \E x \in S : \A y \in S : x <= y
<1> DEFINE Less == OpToRel(<, Nat)
<1>1. IsWellFoundedOn(Less, Nat)
  BY NatLessThanWellFounded
<1>2. PICK x \in S : \A y \in S : <<y, x>> \notin Less
  <2> HIDE DEF Less
  <2> QED
    BY <1>1, WFMin
<1>3. \A y \in S : y < x => <<y, x>> \in Less
  BY DEF OpToRel
<1> HIDE DEF Less
<1>4. \A y \in S : ~(y < x)
  BY <1>2, <1>3
<1> QED
  BY <1>4

LEMMA CommonBound ==
  ASSUME NEW a \in Nat, NEW b \in Nat
  PROVE  \E c \in Nat : a <= c /\ b <= c
<1>1. a + b \in Nat /\ a <= a + b /\ b <= a + b
  OBVIOUS
<1> QED
  BY <1>1

LEMMA Transitive ==
  ASSUME NEW a \in Nat, NEW b \in Nat, NEW c \in Nat, a <= b, b <= c
  PROVE  a <= c
OBVIOUS

\* Finitely many sizes have a bound: if those numbered up to some k had none,
\* neither had those up to k - 1.
LEMMA FiniteIsBounded ==
  ASSUME NEW S, IsFiniteSet(S), NEW size \in [S -> Nat]
  PROVE  \E b \in Nat : \A L \in S : size[L] <= b
<1> DEFINE count == Cardinality(S)
<1>0. count \in Nat
  BY FS_CardinalityType
<1>1. PICK f \in [1 .. count -> S] : \A L \in S : \E i \in 1 .. count : f[i] = L
  <2>1. PICK g \in Bijection(1 .. Cardinality(S), S) : TRUE
    BY FS_CardinalityType DEF ExistsBijection
  <2> QED
    BY <2>1 DEF Bijection, Surjection
<1> HIDE DEF count
<1> DEFINE Bounds(b, k) == \A i \in 1 .. count : i <= k => size[f[i]] <= b
           Unbounded == {k \in 0 .. count : ~\E b \in Nat : Bounds(b, k)}
<1>2. ASSUME NEW k \in Unbounded PROVE k - 1 \in Unbounded
  <2>0. k \in 0 .. count /\ ~\E b \in Nat : Bounds(b, k)
    OBVIOUS
  <2>1. k # 0
    <3>1. Bounds(0, 0)
      OBVIOUS
    <3> QED
      BY <2>0, <3>1
  <2>2. k - 1 \in 0 .. count /\ k \in 1 .. count
    BY <1>0, <2>0, <2>1
  <2>3. size[f[k]] \in Nat /\ \A i \in 1 .. count : size[f[i]] \in Nat
    BY <2>2
  <2>4. ASSUME NEW b \in Nat, Bounds(b, k - 1) PROVE \E c \in Nat : Bounds(c, k)
    <3>1. PICK c \in Nat : b <= c /\ size[f[k]] <= c
      BY <2>3, CommonBound
    <3>2. ASSUME NEW i \in 1 .. count, i <= k PROVE size[f[i]] <= c
      <4>1. i = k \/ i <= k - 1
        BY <1>0, <2>2, <3>2
      <4>2. CASE i <= k - 1
        <5>1. size[f[i]] <= b
          BY <2>4, <4>2
        <5>2. size[f[i]] \in Nat
          BY <2>3
        <5> QED
          BY <3>1, <5>1, <5>2, Transitive
      <4> QED
        BY <3>1, <4>1, <4>2
    <3> QED
      BY <3>2
  <2> HIDE DEF Bounds
  <2> QED
    BY <2>0, <2>2, <2>4
<1>3. Unbounded = {}
  <2>1. Unbounded \in SUBSET Nat
    BY <1>0
  <2> HIDE DEF Unbounded
  <2>2. SUFFICES ASSUME Unbounded # {} PROVE FALSE
    OBVIOUS
  <2>3. PICK k \in Unbounded : \A j \in Unbounded : k <= j
    BY <2>1, <2>2, LeastElement
  <2>4. k - 1 \in Unbounded /\ k \in Nat
    BY <1>2, <2>1
  <2> QED
    BY <2>3, <2>4
<1>4. \E b \in Nat : Bounds(b, count)
  <2>1. count \in 0 .. count
    BY <1>0
  <2> HIDE DEF Bounds
  <2> QED
    BY <1>3, <2>1
<1>5. PICK b \in Nat : \A i \in 1 .. count : size[f[i]] <= b
  BY <1>0, <1>4
<1> QED
  BY <1>1, <1>5

LEMMA LargestIsLargest ==
  ASSUME NEW L \in MmapSize
  PROVE  /\ Largest \in Nat \ {0}
         /\ get_aligned_size(L) <= Largest
<1> DEFINE sizes == {get_aligned_size(K) : K \in MmapSize}
           size == [K \in MmapSize |-> get_aligned_size(K)]
<1>1. size \in [MmapSize -> Nat] /\ sizes \in SUBSET Nat
  BY AlignedSize
<1>2. PICK b \in Nat : \A K \in MmapSize : size[K] <= b
  BY <1>1, FiniteIsBounded
<1>3. \A K \in MmapSize : size[K] = get_aligned_size(K) /\ get_aligned_size(K) \in sizes
  OBVIOUS
\* The least of the bounds that the sizes reach
<1> DEFINE Slack == {b - n : n \in sizes}
<1> HIDE DEF size
<1>4. Slack \in SUBSET Nat /\ Slack # {}
  <2>1. \A n \in sizes : n \in Nat /\ n <= b
    BY <1>1, <1>2, <1>3
  <2>2. sizes # {}
    OBVIOUS
  <2> HIDE DEF sizes
  <2> QED
    BY <2>1, <2>2
<1>5. PICK x \in Slack : \A y \in Slack : x <= y
  <2> HIDE DEF Slack
  <2> QED
    BY <1>4, LeastElement
<1>6. PICK n \in sizes : x = b - n
  <2> HIDE DEF sizes
  <2> QED
    OBVIOUS
<1>7. ASSUME NEW K \in sizes PROVE K <= n
  <2>1. b - K \in Slack
    OBVIOUS
  <2>2. n \in Nat /\ K \in Nat
    BY <1>1
  <2> HIDE DEF sizes, Slack
  <2>3. b - n <= b - K
    BY <1>5, <1>6, <2>1
  <2> QED
    BY <2>2, <2>3
<1>8. Largest \in sizes /\ \A K \in MmapSize : get_aligned_size(K) <= Largest
  BY <1>6, <1>7 DEF Largest
<1> QED
  BY <1>8, AlignedSize

-----------------------------------------------------------------------------
(* Words and slots                                                         *)

LEMMA LayoutFits ==
  ASSUME NEW L \in MmapSize
  PROVE  /\ LayoutWords(L) \subseteq Word
         /\ \A w \in LayoutWords(L) : w \in Nat /\ w < get_memory_layout_size(L)
BY LayoutSize, AlignedSize, LargestIsLargest DEF LayoutWords, Word

LEMMA Product ==
  ASSUME NEW i \in Nat, NEW j \in Nat, NEW k \in Nat, i <= j
  PROVE  i * k \in Nat /\ i * k <= j * k
<1>1. PICK d \in Nat : j = i + d
  <2>1. j - i \in Nat /\ j = i + (j - i)
    OBVIOUS
  <2> QED
    BY <2>1
<1>2. j * k = i * k + d * k
  BY <1>1
<1>3. i * k \in Nat /\ d * k \in Nat
  OBVIOUS
<1> QED
  BY <1>2, <1>3

LEMMA SlotOrder ==
  ASSUME NEW L \in MmapSize, NEW i \in Nat, NEW j \in Nat, i <= j
  PROVE  SlotStart(L, i) \in Nat \ {0} /\ SlotStart(L, i) <= SlotStart(L, j)
<1>1. slot_words[L] \in Nat
  OBVIOUS
<1>2. /\ i * slot_words[L] \in Nat /\ j * slot_words[L] \in Nat
      /\ i * slot_words[L] <= j * slot_words[L]
  BY <1>1, Product
<1> QED
  BY <1>2 DEF SlotStart

LEMMA SlotEnd ==
  ASSUME NEW L \in MmapSize, NEW i \in Nat
  PROVE  /\ SlotStart(L, i + 1) = SlotStart(L, i) + slot_words[L]
         /\ \A w \in SlotWords(L, i) : /\ w \in Nat
                                       /\ SlotStart(L, i) <= w /\ w < SlotStart(L, i + 1)
         /\ SlotStart(L, i) \in SlotWords(L, i)
<1>1. slot_words[L] \in Nat \ {0} /\ SlotStart(L, i) \in Nat
  BY SlotOrder
<1>2. (i + 1) * slot_words[L] = i * slot_words[L] + slot_words[L] /\ i * slot_words[L] \in Nat
  BY <1>1
<1>3. SlotStart(L, i + 1) = SlotStart(L, i) + slot_words[L]
  BY <1>1, <1>2 DEF SlotStart
<1>4. 0 \in 0 .. (slot_words[L] - 1) /\ SlotStart(L, i) + 0 = SlotStart(L, i)
  BY <1>1
<1> QED
  BY <1>1, <1>3, <1>4 DEF SlotWords

\* The slots of a layout are among its words.
LEMMA SlotFits ==
  ASSUME NEW L \in MmapSize, NEW i \in Nat, i < max_spans[L]
  PROVE  /\ SlotWords(L, i) \subseteq LayoutWords(L)
         /\ SlotStart(L, i) \in LayoutWords(L)
<1>1. SlotStart(L, max_spans[L]) = get_memory_layout_size(L)
  BY DEF SlotStart, get_memory_layout_size
<1>2. max_spans[L] \in Nat /\ i + 1 \in Nat /\ i + 1 <= max_spans[L]
  OBVIOUS
<1>3. SlotStart(L, i + 1) <= get_memory_layout_size(L) /\ SlotStart(L, i + 1) \in Nat
  BY <1>1, <1>2, SlotOrder
<1>4. SlotStart(L, i) \in Nat \ {0}
  BY SlotOrder
<1>5. get_memory_layout_size(L) \in Nat
  BY LayoutSize
<1> QED
  BY <1>3, <1>4, <1>5, SlotEnd DEF LayoutWords

-----------------------------------------------------------------------------
(* The order of the stores of reset_header                                 *)

Pos(store) == CHOOSE j \in 1 .. 4 : reset_order[j] = store

\* The count is zero before the header names another layout or version: all
\* that the order of the stores has to ensure.
CountFirst == /\ Pos("reset_count") < Pos("reset_size")
              /\ Pos("reset_count") < Pos("reset_version")

LEMMA PosOfStore ==
  ASSUME NEW store \in ResetStores
  PROVE  Pos(store) \in 1 .. 4 /\ reset_order[Pos(store)] = store
BY ResetOrderAssumption DEF Pos

\* There are as many places as stores, so a store has one place.
LEMMA PosOfPlace ==
  ASSUME NEW i \in 1 .. 4
  PROVE  reset_order[i] \in ResetStores /\ Pos(reset_order[i]) = i
<1>1. reset_order \in [1 .. 4 -> ResetStores]
  BY ResetOrderAssumption
<1>2. \A s, t \in ResetStores : Pos(s) = Pos(t) => s = t
  BY PosOfStore, Zenon
<1>3. /\ Pos("reset_count") # Pos("reset_size") /\ Pos("reset_count") # Pos("reset_version")
      /\ Pos("reset_count") # Pos("reset_signature") /\ Pos("reset_size") # Pos("reset_version")
      /\ Pos("reset_size") # Pos("reset_signature") /\ Pos("reset_version") # Pos("reset_signature")
  BY <1>2 DEF ResetStores
<1>4. \E s \in ResetStores : Pos(s) = i
  <2>1. \A s \in ResetStores : Pos(s) \in 1 .. 4
    BY PosOfStore
  <2>2. /\ Pos("reset_count") \in 1 .. 4 /\ Pos("reset_size") \in 1 .. 4
        /\ Pos("reset_version") \in 1 .. 4 /\ Pos("reset_signature") \in 1 .. 4
    BY <2>1 DEF ResetStores
  <2>3. \/ Pos("reset_count") = i \/ Pos("reset_size") = i
        \/ Pos("reset_version") = i \/ Pos("reset_signature") = i
    BY <1>3, <2>2
  <2> QED
    BY <2>3 DEF ResetStores
<1> QED
  BY <1>1, <1>4, PosOfStore

\* The next store, or none.
LEMMA AfterResetIsNext ==
  ASSUME NEW store \in ResetStores
  PROVE  \/ /\ AfterReset(store) \in ResetStores
            /\ Pos(AfterReset(store)) = Pos(store) + 1
         \/ /\ AfterReset(store) = "remove_all_count"
            /\ \A other \in ResetStores : Pos(other) <= Pos(store)
<1>1. AfterReset(store) = IF Pos(store) = 4 THEN "remove_all_count" ELSE reset_order[Pos(store) + 1]
  BY DEF AfterReset, Pos
<1>2. Pos(store) \in 1 .. 4 /\ \A other \in ResetStores : Pos(other) \in 1 .. 4
  BY PosOfStore
<1>3. CASE Pos(store) = 4
  BY <1>1, <1>2, <1>3
<1>4. CASE Pos(store) # 4
  <2>1. Pos(store) + 1 \in 1 .. 4
    BY <1>2, <1>4
  <2> QED
    BY <1>1, <1>4, <2>1, PosOfPlace
<1> QED
  BY <1>3, <1>4

\* The source zeroes the count first (header.cpp:53).
LEMMA SourceCountsFirst ==
  reset_order = <<"reset_count", "reset_size", "reset_version", "reset_signature">> => CountFirst
<1> SUFFICES ASSUME reset_order = <<"reset_count", "reset_size", "reset_version",
                                    "reset_signature">>
             PROVE  CountFirst
  OBVIOUS
<1>1. /\ reset_order[1] = "reset_count" /\ reset_order[2] = "reset_size"
      /\ reset_order[3] = "reset_version"
  OBVIOUS
<1>2. Pos("reset_count") = 1 /\ Pos("reset_size") = 2 /\ Pos("reset_version") = 3
  BY <1>1, PosOfPlace
<1> QED
  BY <1>2 DEF CountFirst

-----------------------------------------------------------------------------
(* The inductive invariant                                                 *)

\* A new mapping is prepared for the target size, up to the store at pc.
Prepares == pc \in ResetStores \cup {"remove_all_count", "remove_all_words", "ready"}
Stored(store) == pc \in ResetStores => Pos(store) < Pos(pc)

Prepared ==
  /\ pc = "map" \/ Prepares => file_size = required_size
  /\ Prepares =>
    /\ Stored("reset_size") => header.mmap_size = target_size
    /\ Stored("reset_version") => header.version = 2
    /\ Stored("reset_signature") => header.signature

\* Where the store is empty, and which slots of it are zero.
Emptied ==
  /\ (pc \in ResetStores /\ Stored("reset_count")) \/ pc = "remove_all_words"
       \/ (pc = "ready" /\ ~is_recovered)
       => header.active_span_count = 0
  /\ pc = "ready" =>
       \A w \in LayoutWords(header.mmap_size) :
         w >= SlotStart(header.mmap_size, header.active_span_count) => words[w] = Zero

\* What a file that can be read has in the words of its layout.
OwnWord(v) == v # Zero => v[2] = header.mmap_size /\ v[1] \in added \ delivered
OwnWords ==
  /\ ~header.signature => header.active_span_count = 0
  /\ file_size = 0 \/ file_size >= page_words
  /\ header.version = 2 /\ header.active_span_count > 0 =>
       \A w \in LayoutWords(header.mmap_size) : OwnWord(words[w])

\* What the process remembers of the file.
Remembered ==
  /\ pc \in {"none", "opened"} => recovered_spans = {}
  /\ pc # "ready" => ~is_recovered
  /\ is_recovered => recovered_spans = {}
  /\ pc \in {"opened", "truncate"} => original_size = file_size
  /\ pc = "truncate" => recovered_spans = OnDisk
  /\ pc = "map" => recovered_spans \subseteq OnDisk \/ file_size < original_size
  /\ pc \in {"map", "remove_all_count"} \cup ResetStores =>
       OnDisk \subseteq recovered_spans \/ WasCut
  /\ Ids(recovered_spans) \subseteq added \ delivered
  /\ delivered \subseteq added

IInv == TypeOK /\ Prepared /\ Emptied /\ OwnWords /\ Remembered

-----------------------------------------------------------------------------
(* What can be read from the file                                          *)

LEMMA Typed ==
  ASSUME TypeOK
  PROVE  /\ header.mmap_size \in MmapSize /\ target_size \in MmapSize
         /\ header.active_span_count \in Nat
         /\ header.active_span_count <= max_spans[header.mmap_size]
         /\ header.version \in {1, 2} /\ header.signature \in BOOLEAN
         /\ file_size \in Nat /\ original_size \in Nat
         /\ words \in [Word -> Value]
BY DEF TypeOK, Header

LEMMA NothingOnDisk == header.active_span_count = 0 => OnDisk = {}
BY DEF OnDisk, should_do_recovery

LEMMA SameOnDisk == UNCHANGED file => OnDisk' = OnDisk
BY DEF file, OnDisk, should_do_recovery, RecoveredSlots, SpanAt, is_header_valid,
       is_header_version_current

\* A recovered slot is one of the layout, and its mark and id a word of the layout.
LEMMA RecoveredSlot ==
  ASSUME TypeOK, NEW i \in RecoveredSlots
  PROVE  /\ i \in Nat /\ i < header.active_span_count
         /\ i < max_spans[header.mmap_size]
         /\ SlotStart(header.mmap_size, i) \in LayoutWords(header.mmap_size)
         /\ SlotWords(header.mmap_size, i) \subseteq LayoutWords(header.mmap_size)
         /\ words[SlotStart(header.mmap_size, i)] # Zero
<1>1. i \in Nat /\ i < header.active_span_count /\ words[SlotStart(header.mmap_size, i)] # Zero
  BY Typed DEF RecoveredSlots
<1>2. max_spans[header.mmap_size] \in Nat
  BY Typed
<1>3. i < max_spans[header.mmap_size]
  BY <1>1, <1>2, Typed
<1> QED
  BY <1>1, <1>3, Typed, SlotFits

LEMMA OnDiskTyped ==
  ASSUME TypeOK, OwnWords
  PROVE  OnDisk \subseteq RecoveredSpan /\ Ids(OnDisk) \subseteq added \ delivered
<1> SUFFICES ASSUME NEW r \in OnDisk
             PROVE  r \in RecoveredSpan /\ r.span_id \in added \ delivered
  BY DEF Ids
<1>1. should_do_recovery
  BY DEF OnDisk
<1>2. PICK i \in RecoveredSlots : r = SpanAt(header.mmap_size, i)
  BY DEF OnDisk
<1>3. r.span_id = words[SlotStart(header.mmap_size, i)][1] /\ r.whole \in BOOLEAN
      /\ r = [span_id |-> r.span_id, whole |-> r.whole]
  BY <1>2 DEF SpanAt
<1>4. header.version = 2 /\ header.active_span_count > 0
  BY <1>1 DEF should_do_recovery, is_header_version_current
<1>5. OwnWord(words[SlotStart(header.mmap_size, i)])
  BY <1>4, RecoveredSlot DEF OwnWords
<1>6. r.span_id \in added \ delivered
  BY <1>3, <1>5, RecoveredSlot DEF OwnWord
<1>7. r.span_id \in SpanId
  BY <1>6 DEF TypeOK
<1> QED
  BY <1>3, <1>6, <1>7 DEF RecoveredSpan

-----------------------------------------------------------------------------
(* Every step preserves the invariant                                      *)

LEMMA OpenStep ==
  ASSUME IInv, NEW L \in MmapSize, Open(L)
  PROVE  IInv'
<1>1. pc = "none" /\ pc' = "opened" /\ target_size' = L /\ original_size' = file_size
      /\ UNCHANGED <<file_size, header, words, recovered_spans, is_recovered, added, delivered>>
  BY DEF Open, file, history
<1>2. TypeOK'
  BY <1>1 DEF IInv, TypeOK, PC
<1>3. Prepared' /\ Emptied'
  BY <1>1 DEF Prepared, Emptied, Prepares, ResetStores
<1>4. OwnWords'
  BY <1>1 DEF IInv, OwnWords, OwnWord
<1>5. Remembered'
  BY <1>1 DEF IInv, Remembered, ResetStores, Ids
<1> QED
  BY <1>2, <1>3, <1>4, <1>5 DEF IInv

\* The process is gone, the file stays.
LEMMA NoProcessStep ==
  ASSUME IInv, NoProcess, UNCHANGED <<file, history>>
  PROVE  IInv'
<1>1. pc' = "none" /\ original_size' = 0 /\ recovered_spans' = {} /\ is_recovered' = FALSE
      /\ UNCHANGED <<file_size, header, words, target_size, added, delivered>>
  BY DEF NoProcess, file, history
<1>2. TypeOK'
  <2>1. 0 \in 0 .. Largest
    BY LargestIsLargest DEF IInv, TypeOK
  <2> QED
    BY <1>1, <2>1 DEF IInv, TypeOK, PC
<1>3. Prepared' /\ Emptied'
  BY <1>1 DEF Prepared, Emptied, Prepares, ResetStores
<1>4. OwnWords'
  BY <1>1 DEF IInv, OwnWords, OwnWord
<1>5. Remembered'
  BY <1>1 DEF IInv, Remembered, ResetStores, Ids
<1> QED
  BY <1>2, <1>3, <1>4, <1>5 DEF IInv

LEMMA RecoverStep ==
  ASSUME IInv, Recover
  PROVE  IInv'
<1>0. TypeOK /\ OwnWords /\ pc = "opened"
  BY DEF IInv, Recover
<1>1. /\ recovered_spans' = OnDisk
      /\ pc' = IF /\ should_do_recovery
                  /\ header.mmap_size = target_size
                  /\ original_size = required_size
               THEN "remove_all_count" ELSE "truncate"
      /\ UNCHANGED <<file, file_size, header, words, target_size, original_size, is_recovered,
                     added, delivered>>
  BY DEF Recover, file, history
<1>2. pc' = "truncate" \/ /\ pc' = "remove_all_count" /\ should_do_recovery
                          /\ header.mmap_size = target_size /\ original_size = required_size
  BY <1>1
<1>3. OnDisk' = OnDisk
  BY <1>1, SameOnDisk
<1>4. OnDisk \subseteq RecoveredSpan /\ Ids(OnDisk) \subseteq added \ delivered
  BY <1>0, OnDiskTyped
<1>5. TypeOK'
  BY <1>0, <1>1, <1>2, <1>4 DEF TypeOK, PC
<1>6. Prepared'
  BY <1>0, <1>1, <1>2
     DEF IInv, Prepared, Prepares, ResetStores, Remembered, Stored, required_size,
         should_do_recovery, is_header_valid, is_header_version_current
<1>7. Emptied'
  BY <1>2 DEF Emptied, ResetStores
<1>8. OwnWords'
  BY <1>0, <1>1 DEF OwnWords, OwnWord
<1>9. Remembered'
  BY <1>0, <1>1, <1>2, <1>3, <1>4 DEF IInv, Remembered, ResetStores, Ids
<1> QED
  BY <1>5, <1>6, <1>7, <1>8, <1>9 DEF IInv

LEMMA SkipRecoveryStep ==
  ASSUME IInv, SkipRecovery
  PROVE  IInv'
<1>1. /\ pc = "opened" /\ original_size < page_words /\ pc' = "truncate"
      /\ UNCHANGED <<file, file_size, header, words, target_size, original_size, recovered_spans,
                     is_recovered, added, delivered>>
  BY DEF SkipRecovery, file, process, history
<1>2. OnDisk' = OnDisk /\ OnDisk = {} /\ recovered_spans = {}
  <2>1. original_size = file_size /\ recovered_spans = {} /\ file_size \in Nat
    BY <1>1, Typed DEF IInv, Remembered
  <2>2. ~(file_size >= page_words)
    BY <1>1, <2>1
  <2> QED
    BY <1>1, <2>1, <2>2, SameOnDisk DEF OnDisk
<1>3. TypeOK'
  BY <1>1 DEF IInv, TypeOK, PC
<1>4. Prepared' /\ Emptied'
  BY <1>1 DEF Prepared, Emptied, Prepares, ResetStores
<1>5. OwnWords'
  BY <1>1 DEF IInv, OwnWords, OwnWord
<1>6. Remembered'
  BY <1>1, <1>2 DEF IInv, Remembered, ResetStores, Ids
<1> QED
  BY <1>3, <1>4, <1>5, <1>6 DEF IInv

\* What a new size does to the spans that could be read: a size too small for
\* their layout hides them all, any other leaves them, and those that appear
\* with it were cut before.
LEMMA TruncateOnDisk ==
  ASSUME IInv, Truncate
  PROVE  /\ OnDisk' \subseteq OnDisk \/ WasCut
         /\ OnDisk \subseteq OnDisk' \/ required_size < file_size
<1> DEFINE L == header.mmap_size
           layout == get_memory_layout_size(L)
<1>1. /\ file_size' = required_size /\ UNCHANGED <<header, original_size>>
      /\ words' = [w \in Word |-> IF w < required_size THEN words[w] ELSE Zero]
      /\ original_size = file_size
  BY DEF IInv, Truncate, process, Remembered
<1>2. /\ L \in MmapSize /\ layout \in Nat \ {0} /\ file_size \in Nat /\ required_size \in Nat
      /\ page_words <= required_size /\ page_words \in Nat \ {0}
  BY Typed, LayoutSize, AlignedSize DEF IInv, required_size
<1>3. file_size >= layout => file_size >= page_words
  BY <1>2 DEF IInv, OwnWords
<1>4. CASE ~should_do_recovery'
  <2>1. OnDisk' = {}
    BY <1>4 DEF OnDisk
  <2>2. ASSUME ~(required_size < file_size) PROVE OnDisk = {}
    <3>1. ~should_do_recovery
      BY <1>1, <1>2, <1>4, <2>2
         DEF should_do_recovery, is_header_valid, is_header_version_current
    <3> QED
      BY <3>1 DEF OnDisk
  <2> QED
    BY <2>1, <2>2
<1>5. CASE should_do_recovery'
  <2>1. layout <= required_size
    BY <1>1, <1>5 DEF should_do_recovery
  <2>2. \A w \in LayoutWords(L) : words'[w] = words[w]
    <3> TAKE w \in LayoutWords(L)
    <3>1. w \in Word /\ w \in Nat /\ w < layout
      BY <1>2, LayoutFits
    <3> QED
      BY <1>1, <1>2, <2>1, <3>1
  <2>3. \A i \in 0 .. (header.active_span_count - 1) :
          /\ SlotStart(L, i) \in LayoutWords(L)
          /\ \A k \in 0 .. (slot_words[L] - 1) : SlotStart(L, i) + k \in LayoutWords(L)
    <3> TAKE i \in 0 .. (header.active_span_count - 1)
    <3>1. i \in Nat /\ i < max_spans[L]
      <4>1. max_spans[L] \in Nat /\ header.active_span_count \in Nat
            /\ header.active_span_count <= max_spans[L]
        BY <1>2, Typed DEF IInv
      <4> QED
        BY <4>1
    <3> QED
      BY <1>2, <3>1, SlotFits DEF SlotWords
  <2>4. RecoveredSlots' = RecoveredSlots
    BY <1>1, <2>2, <2>3 DEF RecoveredSlots
  <2>5. \A i \in RecoveredSlots : SpanAt(L, i)' = SpanAt(L, i)
    <3> TAKE i \in RecoveredSlots
    <3>1. i \in 0 .. (header.active_span_count - 1)
      BY DEF RecoveredSlots
    <3>2. words'[SlotStart(L, i)] = words[SlotStart(L, i)]
      BY <2>2, <2>3, <3>1
    <3>3. \A k \in 0 .. (slot_words[L] - 1) :
            words'[SlotStart(L, i) + k] = words[SlotStart(L, i) + k]
      BY <2>2, <2>3, <3>1
    <3> QED
      BY <1>1, <3>2, <3>3 DEF SpanAt, SlotStart
  <2>6. OnDisk' = {SpanAt(L, i) : i \in RecoveredSlots}
    <3>1. file_size' >= page_words
      BY <1>1, <1>2
    <3>2. OnDisk' = {SpanAt(header.mmap_size, i)' : i \in RecoveredSlots'}
      BY <1>5, <3>1 DEF OnDisk
    <3> QED
      BY <2>4, <2>5, <3>2
  <2>7. CASE file_size >= layout
    <3>1. should_do_recovery
      BY <1>1, <1>5, <2>7 DEF should_do_recovery, is_header_valid, is_header_version_current
    <3>2. OnDisk = {SpanAt(L, i) : i \in RecoveredSlots}
      BY <1>3, <2>7, <3>1 DEF OnDisk
    <3> QED
      BY <2>6, <3>2
  <2>8. CASE ~(file_size >= layout)
    <3>1. OnDisk = {}
      BY <2>8 DEF OnDisk, should_do_recovery
    <3>2. WasCut
      BY <1>1, <1>2, <2>8 DEF WasCut
    <3> QED
      BY <3>1, <3>2
  <2> QED
    BY <2>7, <2>8
<1> QED
  BY <1>4, <1>5

LEMMA TruncateStep ==
  ASSUME IInv, Truncate
  PROVE  IInv'
<1>0. TypeOK /\ OwnWords /\ pc = "truncate"
  BY DEF IInv, Truncate
<1>1. /\ file_size' = required_size /\ pc' = "map"
      /\ words' = [w \in Word |-> IF w < required_size THEN words[w] ELSE Zero]
      /\ UNCHANGED <<header, target_size, original_size, recovered_spans, is_recovered, added,
                     delivered>>
  BY DEF Truncate, process, history
<1>2. /\ required_size \in Nat /\ required_size <= Largest /\ Largest \in Nat
      /\ page_words <= required_size
  BY <1>0, Typed, AlignedSize, LargestIsLargest DEF required_size
<1>3. \A w \in Word : words'[w] = words[w] \/ words'[w] = Zero
  BY <1>1
<1>4. TypeOK'
  <2>1. words' \in [Word -> Value]
    BY <1>0, <1>1 DEF TypeOK, Value
  <2> QED
    BY <1>0, <1>1, <1>2, <2>1 DEF TypeOK, PC
<1>5. Prepared' /\ Emptied'
  BY <1>1 DEF Prepared, Emptied, Prepares, ResetStores, required_size
<1>6. OwnWords'
  BY <1>0, <1>1, <1>2, <1>3, Typed, LayoutFits DEF OwnWords, OwnWord
<1>7. /\ OnDisk' \subseteq OnDisk \/ WasCut
      /\ OnDisk \subseteq OnDisk' \/ required_size < file_size
  BY TruncateOnDisk
<1>8. original_size = file_size /\ recovered_spans = OnDisk /\ WasCut' = WasCut
  BY <1>0, <1>1 DEF IInv, Remembered, WasCut
<1>9. Remembered'
  BY <1>0, <1>1, <1>7, <1>8 DEF IInv, Remembered, ResetStores, Ids
<1> QED
  BY <1>4, <1>5, <1>6, <1>9 DEF IInv

\* The steps at which the file and what is remembered of it stay as they are.
LEMMA StillRemembered ==
  ASSUME IInv, UNCHANGED <<file, process, history>>,
         pc \in {"map", "remove_all_count"} \cup ResetStores \/ header.active_span_count = 0,
         pc' \in PC \ {"none", "opened", "truncate", "map"}, ~is_recovered
  PROVE  TypeOK' /\ OwnWords' /\ Remembered'
<1>1. UNCHANGED <<file_size, header, words, target_size, original_size, recovered_spans,
                  is_recovered, added, delivered>>
  BY DEF file, process, history
<1>2. OnDisk' = OnDisk /\ WasCut' = WasCut
  BY <1>1, SameOnDisk DEF WasCut
<1>3. OnDisk \subseteq recovered_spans \/ WasCut
  BY NothingOnDisk DEF IInv, Remembered
<1>4. TypeOK'
  BY <1>1 DEF IInv, TypeOK
<1>5. OwnWords'
  BY <1>1 DEF IInv, OwnWords, OwnWord
<1>6. Remembered'
  BY <1>1, <1>2, <1>3 DEF IInv, Remembered, Ids
<1> QED
  BY <1>4, <1>5, <1>6

LEMMA MapStep ==
  ASSUME IInv, Map
  PROVE  IInv'
<1>1. pc = "map" /\ pc' = reset_order[1] /\ UNCHANGED <<file, process, history>>
  BY DEF Map
<1>2. pc' \in ResetStores /\ Pos(pc') = 1
  BY <1>1, PosOfPlace
<1>3. pc' \in PC \ {"none", "opened", "truncate", "map"} /\ ~is_recovered
  BY <1>1, <1>2 DEF IInv, Remembered, PC, ResetStores
<1>4. TypeOK' /\ OwnWords' /\ Remembered'
  BY <1>1, <1>3, StillRemembered
<1>5. file_size = required_size
  BY <1>1 DEF IInv, Prepared
<1>6. ASSUME NEW store \in ResetStores PROVE ~Stored(store)'
  BY <1>2, PosOfStore DEF Stored
<1>7. Prepared'
  BY <1>1, <1>2, <1>5, <1>6 DEF Prepared, ResetStores, required_size, file, process
<1>8. Emptied'
  BY <1>2, <1>6 DEF Emptied, ResetStores
<1> QED
  BY <1>4, <1>7, <1>8 DEF IInv

\* After a store of reset_header, what was stored is what was stored before and
\* this one.
LEMMA StoredNext ==
  ASSUME NEW store \in ResetStores, pc = store, pc' = AfterReset(store)
  PROVE  /\ pc' \in ResetStores \cup {"remove_all_count"}
         /\ \A other \in ResetStores : Stored(other)' => Stored(other) \/ other = store
<1>1. pc' \in ResetStores \cup {"remove_all_count"}
  BY AfterResetIsNext
<1>2. ASSUME NEW other \in ResetStores, Stored(other)'
      PROVE  Stored(other) \/ other = store
  <2>1. Pos(other) <= Pos(store)
    <3>1. CASE pc' = "remove_all_count"
      <4>1. pc' \notin ResetStores
        BY <3>1 DEF ResetStores
      <4> QED
        BY <4>1, AfterResetIsNext
    <3>2. CASE pc' \in ResetStores
      <4>1. Pos(pc') = Pos(store) + 1
        BY <3>2, AfterResetIsNext DEF ResetStores
      <4>2. Pos(other) < Pos(pc')
        BY <1>2, <3>2 DEF Stored
      <4> QED
        BY <4>1, <4>2, PosOfStore
    <3> QED
      BY <1>1, <3>1, <3>2
  <2>2. Pos(other) \in 1 .. 4 /\ Pos(store) \in 1 .. 4
    BY PosOfStore
  <2>3. CASE Pos(other) = Pos(store)
    BY <2>3, PosOfStore
  <2>4. CASE Pos(other) < Pos(store)
    BY <2>4 DEF Stored
  <2> QED
    BY <2>1, <2>2, <2>3, <2>4
<1> QED
  BY <1>1, <1>2

\* A store of reset_header, whichever it is, that leaves a header of which
\* nothing is read that was not read before.
LEMMA ResetStep ==
  ASSUME IInv, NEW store \in ResetStores, pc = store, pc' = AfterReset(store),
         UNCHANGED <<file_size, words, process, history>>,
         header' \in Header,
         header'.active_span_count = 0
           \/ header' = header,
         store = "reset_count" => header'.active_span_count = 0,
         header.active_span_count = 0 => header'.active_span_count = 0,
         store = "reset_size" \/ header'.mmap_size = header.mmap_size,
         store = "reset_size" => header'.mmap_size = target_size,
         store = "reset_version" \/ header'.version = header.version,
         store = "reset_version" => header'.version = 2,
         store = "reset_signature" \/ header'.signature = header.signature,
         store = "reset_signature" => header'.signature
  PROVE  IInv'
<1>1. /\ pc' \in ResetStores \cup {"remove_all_count"}
      /\ \A other \in ResetStores : Stored(other)' => Stored(other) \/ other = store
  BY StoredNext
<1>2. /\ {"reset_count", "reset_size", "reset_version", "reset_signature"} \subseteq ResetStores
      /\ pc \in ResetStores /\ Prepares
  BY DEF ResetStores, Prepares
<1>3. UNCHANGED <<target_size, original_size, recovered_spans, is_recovered, added, delivered>>
  BY DEF process, history
<1>4. TypeOK'
  <2>1. header'.active_span_count <= max_spans[header'.mmap_size]
    <3>1. CASE header' = header
      BY <3>1, Typed DEF IInv
    <3>2. CASE header'.active_span_count = 0
      <4>1. max_spans[header'.mmap_size] \in Nat
        BY DEF Header
      <4> QED
        BY <3>2, <4>1
    <3> QED
      BY <3>1, <3>2
  <2>2. pc' \in PC
    BY <1>1 DEF PC
  <2> QED
    BY <1>3, <2>1, <2>2 DEF IInv, TypeOK
<1>5. Prepared'
  BY <1>1, <1>2, <1>3 DEF IInv, Prepared, required_size
<1>6. Emptied'
  <2>1. pc' # "remove_all_words" /\ pc' # "ready"
    BY <1>1 DEF ResetStores
  <2>2. Stored("reset_count")' => header'.active_span_count = 0
    BY <1>1, <1>2 DEF IInv, Emptied
  <2> QED
    BY <2>1, <2>2 DEF Emptied
<1>7. OwnWords'
  <2>1. CASE header' = header
    BY <1>3, <2>1 DEF IInv, OwnWords, OwnWord
  <2>2. CASE header'.active_span_count = 0
    BY <2>2 DEF IInv, OwnWords
  <2> QED
    BY <2>1, <2>2
<1>8. OnDisk' \subseteq recovered_spans' \/ WasCut'
  <2>1. CASE header' = header
    <3>1. OnDisk' = OnDisk /\ WasCut' = WasCut
      BY <1>3, <2>1, SameOnDisk DEF file, WasCut
    <3> QED
      BY <1>2, <1>3, <3>1 DEF IInv, Remembered
  <2>2. CASE header'.active_span_count = 0
    <3>1. OnDisk' = {}
      BY <2>2 DEF OnDisk, should_do_recovery
    <3> QED
      BY <3>1
  <2> QED
    BY <2>1, <2>2
<1>9. Remembered'
  <2>1. pc' \notin {"none", "opened", "truncate", "map", "ready"} /\ ~is_recovered
    BY <1>1, <1>2 DEF ResetStores, IInv, Remembered
  <2> QED
    BY <1>3, <1>8, <2>1 DEF IInv, Remembered, Ids
<1> QED
  BY <1>4, <1>5, <1>6, <1>7, <1>9 DEF IInv

LEMMA ResetStoresStep ==
  ASSUME IInv, CountFirst, ResetCount \/ ResetSize \/ ResetVersion \/ ResetSignature
  PROVE  IInv'
<1> USE DEF Header
<1>0. /\ {"reset_count", "reset_size", "reset_version", "reset_signature"} \subseteq ResetStores
      /\ header \in Header /\ target_size \in MmapSize
  BY DEF IInv, TypeOK, ResetStores
<1>1. CASE ResetCount
  BY <1>0, <1>1, ResetStep DEF ResetCount
<1>2. CASE ResetSize
  <2>1. header.active_span_count = 0
    BY <1>0, <1>2 DEF ResetSize, CountFirst, IInv, Emptied, Stored
  <2> QED
    BY <1>0, <1>2, <2>1, ResetStep DEF ResetSize
<1>3. CASE ResetVersion
  <2>1. header.active_span_count = 0
    BY <1>0, <1>3 DEF ResetVersion, CountFirst, IInv, Emptied, Stored
  <2> QED
    BY <1>0, <1>3, <2>1, ResetStep DEF ResetVersion
<1>4. CASE ResetSignature
  <2>1. header.active_span_count = 0 \/ header' = header
    BY <1>0, <1>4 DEF ResetSignature, IInv, OwnWords
  <2> QED
    BY <1>0, <1>4, <2>1, ResetStep DEF ResetSignature
<1> QED
  BY <1>1, <1>2, <1>3, <1>4

LEMMA RemoveAllCountStep ==
  ASSUME IInv, RemoveAllCount
  PROVE  IInv'
<1>1. /\ pc = "remove_all_count" /\ pc' = "remove_all_words"
      /\ header' = [header EXCEPT !.active_span_count = 0]
      /\ UNCHANGED <<file_size, words, target_size, original_size, recovered_spans, is_recovered,
                     added, delivered>>
  BY DEF RemoveAllCount, process, history
<1>2. /\ header' \in Header /\ header'.active_span_count = 0
      /\ header'.mmap_size = header.mmap_size /\ header'.version = header.version
      /\ header'.signature = header.signature
  BY <1>1 DEF IInv, TypeOK, Header
<1>3. TypeOK'
  <2>1. max_spans[header'.mmap_size] \in Nat
    BY <1>2 DEF Header
  <2> QED
    BY <1>1, <1>2, <2>1 DEF IInv, TypeOK, PC
<1>4. Prepared'
  BY <1>1, <1>2 DEF IInv, Prepared, Prepares, Stored, required_size, ResetStores
<1>5. Emptied'
  BY <1>1, <1>2 DEF Emptied
<1>6. OwnWords'
  BY <1>1, <1>2 DEF IInv, OwnWords
<1>7. Remembered'
  BY <1>1 DEF IInv, Remembered, ResetStores, Ids
<1> QED
  BY <1>3, <1>4, <1>5, <1>6, <1>7 DEF IInv

LEMMA RemoveAllWordStep ==
  ASSUME IInv, NEW w \in Word, RemoveAllWord(w)
  PROVE  IInv'
<1>1. /\ pc = "remove_all_words" /\ words' = [words EXCEPT ![w] = Zero]
      /\ UNCHANGED <<file_size, header, pc, target_size, original_size, recovered_spans,
                     is_recovered, added, delivered>>
  BY DEF RemoveAllWord, process, history
<1>2. header.active_span_count = 0
  BY <1>1 DEF IInv, Emptied
<1>3. TypeOK'
  <2>1. words' \in [Word -> Value]
    BY <1>1 DEF IInv, TypeOK, Value
  <2> QED
    BY <1>1, <2>1 DEF IInv, TypeOK
<1>4. Prepared'
  BY <1>1 DEF IInv, Prepared, Prepares, Stored, required_size
<1>5. Emptied'
  BY <1>1, <1>2 DEF Emptied
<1>6. OwnWords'
  BY <1>1, <1>2 DEF IInv, OwnWords
<1>7. Remembered'
  BY <1>1 DEF IInv, Remembered, ResetStores, Ids
<1> QED
  BY <1>3, <1>4, <1>5, <1>6, <1>7 DEF IInv

LEMMA RemoveAllDoneStep ==
  ASSUME IInv, RemoveAllDone
  PROVE  IInv'
<1>1. /\ pc = "remove_all_words" /\ pc' = "ready" /\ UNCHANGED <<file, process, history>>
      /\ \A w \in LayoutWords(header.mmap_size) : words[w] = Zero
      /\ UNCHANGED <<file_size, header, words, target_size, is_recovered>>
  BY DEF RemoveAllDone, file, process
<1>2. header.active_span_count = 0 /\ ~is_recovered
  BY <1>1 DEF IInv, Emptied, Remembered
<1>3. TypeOK' /\ OwnWords' /\ Remembered'
  BY <1>1, <1>2, StillRemembered DEF PC
<1>4. Prepared'
  BY <1>1 DEF IInv, Prepared, Prepares, Stored, required_size, ResetStores
<1>5. Emptied'
  BY <1>1, <1>2 DEF Emptied
<1> QED
  BY <1>3, <1>4, <1>5 DEF IInv

LEMMA GetRecoveredSpansStep ==
  ASSUME IInv, get_recovered_spans
  PROVE  IInv'
<1>1. /\ pc = "ready" /\ ~is_recovered /\ is_recovered' = TRUE /\ recovered_spans' = {}
      /\ delivered' = delivered \cup Ids(recovered_spans)
      /\ UNCHANGED <<file_size, header, words, pc, target_size, original_size, added>>
  BY DEF get_recovered_spans, file
<1>2. header.active_span_count = 0
  BY <1>1 DEF IInv, Emptied
<1>3. Ids(recovered_spans) \subseteq added /\ Ids(recovered_spans') = {}
  BY <1>1 DEF IInv, Remembered, Ids
<1>4. TypeOK'
  BY <1>1, <1>3 DEF IInv, TypeOK
<1>5. Prepared'
  BY <1>1 DEF IInv, Prepared, Prepares, Stored, required_size
<1>6. Emptied'
  BY <1>1, <1>2 DEF IInv, Emptied, ResetStores
<1>7. OwnWords'
  BY <1>1, <1>2 DEF IInv, OwnWords
<1>8. Remembered'
  BY <1>1, <1>3 DEF IInv, Remembered, ResetStores
<1> QED
  BY <1>4, <1>5, <1>6, <1>7, <1>8 DEF IInv

\* add writes a slot that was zero, and no other.
LEMMA AddStep ==
  ASSUME IInv, NEW s \in SpanId, Add(s)
  PROVE  /\ IInv'
         /\ \A w \in Word : w < SlotStart(header.mmap_size, header.active_span_count) =>
              words'[w] = words[w]
<1> DEFINE L == header.mmap_size
           n == header.active_span_count
           start == SlotStart(L, n)
<1>1. /\ pc = "ready" /\ is_recovered /\ s \notin added /\ n < max_spans[L]
      /\ words' = [w \in Word |-> IF w \in SlotWords(L, n) THEN <<s, L, w - start>> ELSE words[w]]
      /\ header' = [header EXCEPT !.active_span_count = @ + 1]
      /\ added' = added \cup {s}
      /\ UNCHANGED <<file_size, pc, target_size, original_size, recovered_spans, is_recovered,
                     delivered>>
  BY DEF Add, process
<1>2. /\ L \in MmapSize /\ n \in Nat /\ max_spans[L] \in Nat
      /\ header.version = 2 /\ header.signature /\ start \in Nat
  <2>1. L \in MmapSize /\ n \in Nat
    BY Typed DEF IInv
  <2>2. header.version = 2 /\ header.signature
    BY <1>1 DEF IInv, Prepared, Prepares, Stored, ResetStores
  <2> QED
    BY <2>1, <2>2, SlotOrder
<1>3. /\ header' \in Header /\ header'.active_span_count = n + 1 /\ header'.mmap_size = L
      /\ header'.version = 2 /\ header'.signature
  BY <1>1, <1>2 DEF IInv, TypeOK, Header
<1>4. /\ \A w \in SlotWords(L, n) : w \in Nat /\ start <= w /\ w < SlotStart(L, n + 1)
      /\ SlotStart(L, n + 1) = start + slot_words[L] /\ slot_words[L] \in Nat
  BY <1>2, SlotEnd
<1>5. \A w \in SlotWords(L, n) : w - start \in 0 .. (slot_words[L] - 1)
  BY <1>2, <1>4
<1>6. TypeOK'
  <2>1. words' \in [Word -> Value]
    <3>1. ASSUME NEW w \in SlotWords(L, n) PROVE <<s, L, w - start>> \in Value
      BY <1>2, <1>5, <3>1 DEF Value, WordOf
    <3>2. \A w \in Word : words[w] \in Value
      BY DEF IInv, TypeOK
    <3> HIDE DEF L, n, start
    <3> QED
      BY <1>1, <3>1, <3>2
  <2>2. n + 1 <= max_spans[L]
    BY <1>1, <1>2
  <2> QED
    BY <1>1, <1>3, <2>1, <2>2 DEF IInv, TypeOK
<1>7. Prepared'
  BY <1>1, <1>3 DEF IInv, Prepared, Prepares, Stored, required_size
<1>8. \A w \in Word : words'[w] = IF w \in SlotWords(L, n) THEN <<s, L, w - start>> ELSE words[w]
  BY <1>1
<1>9. Emptied'
  <2>1. ASSUME NEW w \in LayoutWords(L), w >= SlotStart(L, n + 1) PROVE words'[w] = Zero
    <3>1. w \in Word /\ w \in Nat
      BY <1>2, LayoutFits
    <3>2. w \notin SlotWords(L, n)
      BY <1>2, <1>4, <2>1, <3>1
    <3>3. w >= start
      BY <1>2, <1>4, <2>1, <3>1
    <3>4. words[w] = Zero
      BY <1>1, <3>3 DEF IInv, Emptied
    <3> QED
      BY <1>8, <3>1, <3>2, <3>4
  <2> QED
    BY <1>1, <1>3, <2>1 DEF Emptied, ResetStores
<1>10. OwnWords'
  <2>1. ASSUME NEW w \in LayoutWords(L) PROVE OwnWord(words[w])'
    <3>0. w \in Word /\ w \in Nat
      BY <1>2, LayoutFits
    <3>1. CASE w \in SlotWords(L, n)
      <4>1. words'[w] = <<s, L, w - start>>
        BY <1>8, <3>0, <3>1
      <4>2. s \in added' \ delivered'
        BY <1>1 DEF IInv, Remembered
      <4> QED
        BY <1>3, <4>1, <4>2 DEF OwnWord
    <3>2. CASE w \notin SlotWords(L, n)
      <4>1. words'[w] = words[w]
        BY <1>8, <3>0, <3>2
      <4>2. n = 0 => words[w] = Zero
        <5>1. n = 0 => w >= start
          BY <1>2, <3>0 DEF SlotStart, LayoutWords
        <5> QED
          BY <1>1, <5>1 DEF IInv, Emptied
      <4>3. OwnWord(words[w])
        BY <1>2, <4>2 DEF IInv, OwnWords, OwnWord
      <4> QED
        BY <1>1, <1>3, <4>1, <4>3 DEF OwnWord
    <3> QED
      BY <3>1, <3>2
  <2> QED
    BY <1>1, <1>2, <1>3, <2>1 DEF IInv, OwnWords
<1>11. Remembered'
  BY <1>1 DEF IInv, Remembered, ResetStores, Ids
<1>12. ASSUME NEW w \in Word, w < start PROVE words'[w] = words[w]
  <2>1. w \in Int
    BY DEF Word
  <2>2. w \notin SlotWords(L, n)
    BY <1>2, <1>4, <1>12, <2>1
  <2> QED
    BY <1>8, <2>2
<1> QED
  BY <1>6, <1>7, <1>9, <1>10, <1>11, <1>12 DEF IInv

LEMMA InitInvariant == Init => IInv
<1> SUFFICES ASSUME Init PROVE IInv
  OBVIOUS
<1>1. /\ pc = "none" /\ target_size \in MmapSize /\ original_size = 0 /\ recovered_spans = {}
      /\ is_recovered = FALSE /\ added = {} /\ delivered = {}
  BY DEF Init
<1>2. 0 \in 0 .. Largest
  BY <1>1, LargestIsLargest
<1>3. /\ file_size \in 0 .. Largest /\ header \in Header /\ words \in [Word -> Value]
      /\ header.active_span_count <= max_spans[header.mmap_size]
      /\ header.version = 1
      /\ file_size = 0 \/ file_size >= page_words
      /\ ~header.signature => header.active_span_count = 0
  <2>1. CASE NewFile
    <3>1. (CHOOSE L \in MmapSize : TRUE) \in MmapSize
      BY <1>1
    <3>2. header \in Header /\ header.active_span_count = 0 /\ header.version = 1
      BY <2>1, <3>1 DEF NewFile, Header
    <3>3. max_spans[header.mmap_size] \in Nat
      BY <3>2 DEF Header
    <3> QED
      BY <1>2, <2>1, <3>2, <3>3 DEF NewFile, Value
  <2>2. CASE OldFile
    <3>1. PICK L \in MmapSize, s \in SpanId :
            /\ file_size = get_aligned_size(L)
            /\ header = [signature |-> TRUE, version |-> 1, mmap_size |-> L,
                         active_span_count |-> 1]
            /\ words = [w \in Word |-> IF w <= slot_words[L] THEN <<s, OldLayout, 0>> ELSE Zero]
      BY <2>2 DEF OldFile
    <3>2. header \in Header /\ header.signature /\ header.version = 1
          /\ header.active_span_count = 1 /\ header.mmap_size = L
      BY <3>1 DEF Header
    <3>3. <<s, OldLayout, 0>> \in Value /\ Zero \in Value
      BY DEF Value, OldWord
    <3>4. words \in [Word -> Value]
      BY <3>1, <3>3
    <3>5. 1 <= max_spans[L]
      OBVIOUS
    <3>6. file_size \in 0 .. Largest /\ file_size >= page_words
      BY <3>1, AlignedSize, LargestIsLargest
    <3> QED
      BY <3>2, <3>4, <3>5, <3>6
  <2> QED
    BY <2>1, <2>2 DEF Init
<1>4. TypeOK
  BY <1>1, <1>2, <1>3 DEF TypeOK, PC
<1>5. Prepared /\ Emptied
  BY <1>1 DEF Prepared, Emptied, Prepares, ResetStores
<1>6. OwnWords
  BY <1>3 DEF OwnWords
<1>7. Remembered
  BY <1>1 DEF Remembered, ResetStores, Ids
<1> QED
  BY <1>4, <1>5, <1>6, <1>7 DEF IInv

LEMMA NextInvariant ==
  ASSUME CountFirst, IInv, [Next]_vars
  PROVE  IInv'
<1>1. ASSUME NEW L \in MmapSize, Open(L) PROVE IInv'
  BY <1>1, OpenStep
<1>2. CASE Recover
  BY <1>2, RecoverStep
<1>3. CASE SkipRecovery
  BY <1>3, SkipRecoveryStep
<1>4. CASE Truncate
  BY <1>4, TruncateStep
<1>5. CASE Map
  BY <1>5, MapStep
<1>6. CASE ResetCount \/ ResetSize \/ ResetVersion \/ ResetSignature
  BY <1>6, ResetStoresStep
<1>7. CASE RemoveAllCount
  BY <1>7, RemoveAllCountStep
<1>8. ASSUME NEW w \in Word, RemoveAllWord(w) PROVE IInv'
  BY <1>8, RemoveAllWordStep
<1>9. CASE RemoveAllDone
  BY <1>9, RemoveAllDoneStep
<1>10. CASE get_recovered_spans
  BY <1>10, GetRecoveredSpansStep
<1>11. ASSUME NEW s \in SpanId, Add(s) PROVE IInv'
  BY <1>11, AddStep
<1>12. CASE SystemCallFails \/ release_span_data \/ Crash
  BY <1>12, NoProcessStep DEF SystemCallFails, release_span_data, Crash
<1>13. CASE UNCHANGED vars
  <2>1. UNCHANGED <<file, file_size, header, words, pc, target_size, original_size,
                    recovered_spans, is_recovered, added, delivered>>
    BY <1>13 DEF vars, file
  <2>2. OnDisk' = OnDisk
    BY <2>1, SameOnDisk
  <2>3. TypeOK' /\ Prepared' /\ Emptied'
    BY <2>1 DEF IInv, TypeOK, Prepared, Prepares, Stored, required_size, Emptied
  <2>4. OwnWords' /\ Remembered'
    BY <2>1, <2>2 DEF IInv, OwnWords, OwnWord, Remembered, WasCut, Ids
  <2> QED
    BY <2>3, <2>4 DEF IInv
<1> QED
  BY <1>1, <1>2, <1>3, <1>4, <1>5, <1>6, <1>7, <1>8, <1>9, <1>10, <1>11, <1>12, <1>13
     DEF Next, Opens, Initializes

LEMMA Invariant == ASSUME CountFirst PROVE Spec => []IInv
BY InitInvariant, NextInvariant, PTL DEF Spec

-----------------------------------------------------------------------------
(* The theorems                                                            *)

\* The file and the process stay within their types: the count of the header
\* fits its layout, however the sizes follow each other (header.cpp:50).
THEOREM TypeCorrect == ASSUME CountFirst PROVE Spec => []TypeOK
<1>1. IInv => TypeOK
  BY DEF IInv
<1> QED
  BY <1>1, Invariant, PTL

\* What is read from a file was written under the layout it is read with, for
\* any layouts and whatever was interrupted before (header.cpp:50).
THEOREM LayoutsNeverMix == ASSUME CountFirst PROVE Spec => []ReadsOwnLayout
<1>1. ASSUME IInv PROVE ReadsOwnLayout
  <2> SUFFICES ASSUME OnDisk # {}, NEW i \in RecoveredSlots, NEW w \in Word,
                      w \in SlotWords(header.mmap_size, i), words[w] # Zero
               PROVE  words[w][2] = header.mmap_size
    BY DEF ReadsOwnLayout
  <2>1. w \in LayoutWords(header.mmap_size)
    BY <1>1, RecoveredSlot DEF IInv
  <2>2. should_do_recovery
    BY DEF OnDisk
  <2> QED
    BY <1>1, <2>1, <2>2
       DEF IInv, OwnWords, OwnWord, should_do_recovery, is_header_version_current
<1> QED
  BY <1>1, Invariant, PTL

\* A span that was handed over is neither in the file nor in memory any more, in
\* this process or a later one (initialize.h:48).
THEOREM HandedOverAtMostOnce == ASSUME CountFirst PROVE Spec => []AtMostOnce
<1>1. ASSUME IInv PROVE AtMostOnce
  <2>1. Ids(OnDisk) \subseteq added \ delivered /\ Ids(recovered_spans) \subseteq added \ delivered
    BY <1>1, OnDiskTyped DEF IInv, Remembered
  <2> QED
    BY <2>1 DEF AtMostOnce, Ids
<1> QED
  BY <1>1, Invariant, PTL

\* A context has the header and the size it was opened with, and zeros in every
\* slot that is not active (the assertion at raw_span_data.h:111).
THEOREM ContextStartsClean == ASSUME CountFirst PROVE Spec => []StartsClean
<1>1. ASSUME IInv, pc = "ready"
      PROVE  /\ header.signature /\ header.version = 2 /\ header.mmap_size = target_size
             /\ file_size = required_size
  BY <1>1 DEF IInv, Prepared, Prepares, Stored, ResetStores
<1>2. ASSUME IInv, pc = "ready", NEW i \in 0 .. (max_spans[target_size] - 1),
             i >= header.active_span_count, NEW w \in SlotWords(target_size, i)
      PROVE  words[w] = Zero
  <2> DEFINE L == header.mmap_size
             n == header.active_span_count
  <2>1. L = target_size /\ L \in MmapSize /\ n \in Nat
    BY <1>1, <1>2, Typed DEF IInv
  <2>2. i \in Nat /\ i < max_spans[L] /\ n <= i
    <3>1. max_spans[target_size] \in Nat
      BY <2>1
    <3> QED
      BY <1>2, <2>1, <3>1
  <2>3. w \in LayoutWords(L)
    BY <1>2, <2>1, <2>2, SlotFits
  <2>4. SlotStart(L, n) <= SlotStart(L, i) /\ SlotStart(L, n) \in Nat /\ SlotStart(L, i) \in Nat
    BY <2>1, <2>2, SlotOrder
  <2>5. w \in Nat /\ SlotStart(L, i) <= w
    BY <1>2, <2>1, <2>2, SlotEnd
  <2>6. w >= SlotStart(L, n)
    BY <2>4, <2>5
  <2> QED
    BY <1>2, <2>3, <2>6 DEF IInv, Emptied
<1>3. IInv => StartsClean
  BY <1>1, <1>2 DEF StartsClean
<1> QED
  BY <1>3, Invariant, PTL

\* What an initialization that fails has read is still in the file, unless it
\* had made the file smaller (initialize.cpp:119, 141, 149).
THEOREM FailuresKeepSpans == ASSUME CountFirst PROVE Spec => FailureKeepsSpans
<1>1. ASSUME IInv, SystemCallFails
      PROVE  recovered_spans \subseteq OnDisk' \/ file_size < original_size
  <2>1. OnDisk' = OnDisk
    BY <1>1, SameOnDisk DEF SystemCallFails
  <2> QED
    BY <1>1, <2>1 DEF SystemCallFails, IInv, Remembered
<1>2. IInv /\ [Next]_vars =>
        [SystemCallFails =>
           recovered_spans \subseteq OnDisk' \/ file_size < original_size]_vars
  BY <1>1
<1> QED
  BY <1>2, Invariant, PTL DEF Spec, FailureKeepsSpans

\* The spans that can be read stay readable when one is added.
LEMMA AddKeepsOnDisk ==
  ASSUME IInv, NEW s \in SpanId, Add(s)
  PROVE  OnDisk \subseteq OnDisk'
<1> DEFINE L == header.mmap_size
           n == header.active_span_count
<1> SUFFICES ASSUME NEW r \in OnDisk PROVE r \in OnDisk'
  OBVIOUS
<1>1. should_do_recovery /\ file_size >= page_words
  BY DEF OnDisk
<1>2. PICK i \in RecoveredSlots : r = SpanAt(L, i)
  BY <1>1 DEF OnDisk
<1>3. L \in MmapSize /\ n \in Nat /\ i \in Nat /\ i < n /\ i < max_spans[L]
      /\ words[SlotStart(L, i)] # Zero
  BY Typed, RecoveredSlot DEF IInv
<1>4. /\ header'.active_span_count = n + 1 /\ header'.mmap_size = L
      /\ header'.version = header.version /\ header'.signature = header.signature
      /\ UNCHANGED file_size
  BY DEF Add, IInv, TypeOK, Header
<1>5. \A w \in SlotWords(L, i) : words'[w] = words[w]
  <2> TAKE w \in SlotWords(L, i)
  <2>1. i + 1 \in Nat /\ i + 1 <= n
    BY <1>3
  <2>2. /\ w \in Nat /\ w < SlotStart(L, i + 1)
        /\ SlotStart(L, i + 1) \in Nat /\ SlotStart(L, n) \in Nat
        /\ SlotStart(L, i + 1) <= SlotStart(L, n)
    BY <1>3, <2>1, SlotEnd, SlotOrder
  <2>3. w < SlotStart(L, n)
    BY <2>2
  <2>4. w \in Word
    BY <1>3, SlotFits, LayoutFits
  <2> QED
    BY <2>3, <2>4, AddStep
<1>6. words'[SlotStart(L, i)] = words[SlotStart(L, i)]
  BY <1>3, <1>5, SlotEnd
<1>7. \A k \in 0 .. (slot_words[L] - 1) :
        words'[SlotStart(L, i) + k] = words[SlotStart(L, i) + k]
  BY <1>5 DEF SlotWords
<1>8. i \in RecoveredSlots'
  BY <1>3, <1>4, <1>6 DEF RecoveredSlots, SlotStart
<1>9. SpanAt(header.mmap_size, i)' = SpanAt(L, i)
  BY <1>4, <1>6, <1>7 DEF SpanAt, SlotStart
<1>10. should_do_recovery' /\ file_size' >= page_words
  BY <1>1, <1>3, <1>4
     DEF should_do_recovery, is_header_valid, is_header_version_current, get_memory_layout_size
<1> QED
  BY <1>2, <1>8, <1>9, <1>10 DEF OnDisk

\* No step of a process takes a span off the disk that it does not hold in
\* memory, but for files cut short by an earlier one (initialize.cpp:129, 141).
THEOREM SpansLeaveIntoMemory == ASSUME CountFirst PROVE Spec => LeavesDiskIntoMemory
<1> DEFINE Kept == \A r \in OnDisk : r \in OnDisk' \/ r \in recovered_spans' \/ WasCut
<1>1. ASSUME IInv, UNCHANGED file PROVE Kept
  BY <1>1, SameOnDisk
<1>2. ASSUME IInv, UNCHANGED recovered_spans,
             pc \in {"truncate", "map", "remove_all_count", "remove_all_words"} \cup ResetStores
      PROVE  Kept
  <2>1. pc = "remove_all_words" => OnDisk = {}
    BY <1>2, NothingOnDisk DEF IInv, Emptied
  <2>2. pc # "remove_all_words" => OnDisk \subseteq recovered_spans \/ WasCut
    BY <1>2 DEF IInv, Remembered
  <2> QED
    BY <1>2, <2>1, <2>2
<1>3. ASSUME IInv, Next PROVE Kept
  <2>1. CASE UNCHANGED file
    BY <1>3, <2>1, <1>1
  <2>2. CASE Truncate \/ ResetCount \/ ResetSize \/ ResetVersion \/ ResetSignature
             \/ RemoveAllCount \/ \E w \in Word : RemoveAllWord(w)
    <3>1. UNCHANGED recovered_spans
          /\ pc \in {"truncate", "map", "remove_all_count", "remove_all_words"} \cup ResetStores
      BY <2>2 DEF Truncate, ResetCount, ResetSize, ResetVersion, ResetSignature, RemoveAllCount,
                  RemoveAllWord, process, ResetStores
    <3> QED
      BY <1>2, <1>3, <3>1
  <2>3. ASSUME NEW s \in SpanId, Add(s) PROVE Kept
    BY <1>3, <2>3, AddKeepsOnDisk
  <2>4. Opens \/ Recover \/ SkipRecovery \/ Map \/ RemoveAllDone \/ SystemCallFails
          \/ get_recovered_spans \/ release_span_data \/ Crash => UNCHANGED file
    BY DEF Opens, Open, Recover, SkipRecovery, Map, RemoveAllDone, SystemCallFails,
           get_recovered_spans, release_span_data, Crash
  <2> HIDE DEF Kept
  <2> QED
    BY <1>3, <2>1, <2>2, <2>3, <2>4 DEF Next, Initializes
<1>4. IInv /\ [Next]_vars =>
        [\A r \in OnDisk : r \in OnDisk' \/ r \in recovered_spans' \/ WasCut]_vars
  BY <1>3
<1> QED
  BY <1>4, Invariant, PTL DEF Spec, LeavesDiskIntoMemory

\* The specification with fairness allows no other steps, so that all of the
\* above holds of it.
THEOREM FairImplementsSpec == FairSpec => Spec
<1>1. FairInit => Init
  BY DEF FairInit
<1>2. [FairNext]_fairVars => [Next]_vars
  BY DEF FairNext, Interrupted, Uninterrupted, Next, fairVars, vars
<1> QED
  BY <1>1, <1>2, PTL DEF FairSpec, Spec

-----------------------------------------------------------------------------
(* How long an initialization takes, whatever is in the file and in        *)
(* whatever order reset_header stores                                      *)

\* What remove_all has yet to clear.
WordsLeft == {w \in LayoutWords(header.mmap_size) : words[w] # Zero}

\* More steps than an initialization that nothing interrupts has yet to take.
StepsLeft ==
  IF pc = "opened" THEN Largest + 8
  ELSE IF pc = "truncate" THEN Largest + 7
  ELSE IF pc = "map" THEN Largest + 6
  ELSE IF pc \in ResetStores THEN Largest + 6 - Pos(pc)
  ELSE IF pc = "remove_all_count" THEN Largest + 1
  ELSE IF pc = "remove_all_words" THEN Cardinality(WordsLeft) + 1
  ELSE 0

\* Enough of the types: the count of a header does not matter here.
Named ==
  /\ header \in [signature : BOOLEAN, version : {1, 2}, mmap_size : MmapSize,
                 active_span_count : Int]
  /\ target_size \in MmapSize
  /\ words = [w \in Word |-> words[w]]

LEMMA InitNamed == Init => Named
<1> SUFFICES ASSUME Init PROVE Named
  OBVIOUS
<1>1. CASE NewFile
  <2>1. (CHOOSE L \in MmapSize : TRUE) \in MmapSize
    BY <1>1 DEF Init
  <2> QED
    BY <1>1, <2>1 DEF Init, NewFile, Named
<1>2. CASE OldFile
  BY <1>2 DEF Init, OldFile, Named
<1> QED
  BY <1>1, <1>2 DEF Init

LEMMA NextNamed ==
  ASSUME Named, [Next]_vars
  PROVE  Named'
<1> USE DEF Named
<1>1. CASE UNCHANGED vars
  BY <1>1 DEF vars
<1>2. CASE Opens
  BY <1>2 DEF Opens, Open, file
<1>3. CASE \/ Recover \/ SkipRecovery \/ Map \/ RemoveAllDone \/ SystemCallFails
           \/ get_recovered_spans \/ release_span_data \/ Crash
  BY <1>3 DEF Recover, SkipRecovery, Map, RemoveAllDone, SystemCallFails,
              get_recovered_spans, release_span_data, Crash, NoProcess, file, process
<1>4. CASE Truncate
  BY <1>4 DEF Truncate, process
<1>5. CASE ResetCount \/ ResetSize \/ ResetVersion \/ ResetSignature \/ RemoveAllCount
  <2>1. UNCHANGED <<words, target_size>>
    BY <1>5 DEF ResetCount, ResetSize, ResetVersion, ResetSignature, RemoveAllCount, process
  <2>2. \/ header' = [header EXCEPT !.active_span_count = 0]
        \/ header' = [header EXCEPT !.mmap_size = target_size]
        \/ header' = [header EXCEPT !.version = 2]
        \/ header' = [header EXCEPT !.signature = TRUE]
    BY <1>5 DEF ResetCount, ResetSize, ResetVersion, ResetSignature, RemoveAllCount
  <2>3. header' \in [signature : BOOLEAN, version : {1, 2}, mmap_size : MmapSize,
                    active_span_count : Int]
    <3>1. CASE header' = [header EXCEPT !.active_span_count = 0]
      BY <3>1
    <3>2. CASE header' = [header EXCEPT !.mmap_size = target_size]
      BY <3>2
    <3>3. CASE header' = [header EXCEPT !.version = 2]
      BY <3>3
    <3>4. CASE header' = [header EXCEPT !.signature = TRUE]
      BY <3>4
    <3> QED
      BY <2>2, <3>1, <3>2, <3>3, <3>4
  <2>4. words' = [w \in Word |-> words'[w]]
    BY <2>1
  <2> QED
    BY <2>1, <2>3, <2>4
<1>6. CASE \E w \in Word : RemoveAllWord(w)
  BY <1>6 DEF RemoveAllWord, process
<1>7. CASE \E s \in SpanId : Add(s)
  BY <1>7 DEF Add, process
<1> QED
  BY <1>1, <1>2, <1>3, <1>4, <1>5, <1>6, <1>7 DEF Next, Initializes

LEMMA LargestIsNat == ASSUME Named PROVE Largest \in Nat \ {0}
BY LargestIsLargest DEF Named

\* There are fewer words to clear than the largest file has.
LEMMA WordsLeftCounted ==
  ASSUME Named
  PROVE  /\ IsFiniteSet(WordsLeft)
         /\ Cardinality(WordsLeft) \in 0 .. (Largest - 1)
<1>1. Largest \in Nat \ {0}
  BY LargestIsNat
<1>2. IsFiniteSet(Word) /\ Cardinality(Word) = Largest - 1
  <2>1. 1 \in Int /\ Largest - 1 \in Int
    BY <1>1
  <2>2. /\ IsFiniteSet(1 .. (Largest - 1))
        /\ Cardinality(1 .. (Largest - 1)) = IF 1 > Largest - 1 THEN 0 ELSE Largest - 1 - 1 + 1
    BY <2>1, FS_Interval, Zenon
  <2> QED
    BY <1>1, <2>2 DEF Word
<1>3. WordsLeft \subseteq Word
  BY LayoutFits DEF WordsLeft, Named
<1>4. IsFiniteSet(WordsLeft) /\ Cardinality(WordsLeft) <= Cardinality(Word)
  BY <1>2, <1>3, FS_Subset
<1>5. Cardinality(WordsLeft) \in Nat
  BY <1>4, FS_CardinalityType
<1> QED
  BY <1>1, <1>2, <1>4, <1>5

\* Clearing a word leaves one less.
LEMMA ClearsOne ==
  ASSUME Named, NEW w \in Word, RemoveAllWord(w)
  PROVE  Cardinality(WordsLeft') = Cardinality(WordsLeft) - 1
<1>1. /\ w \in LayoutWords(header.mmap_size) /\ words[w] # Zero /\ header' = header
      /\ words' = [words EXCEPT ![w] = Zero]
  BY DEF RemoveAllWord
<1>2. LayoutWords(header.mmap_size) \subseteq Word
  BY LayoutFits DEF Named
<1>3. \A x \in Word : words'[x] = IF x = w THEN Zero ELSE words[x]
  BY <1>1 DEF Named
<1>4. WordsLeft' = WordsLeft \ {w} /\ w \in WordsLeft
  BY <1>1, <1>2, <1>3 DEF WordsLeft
<1> QED
  BY <1>4, WordsLeftCounted, FS_RemoveElement

LEMMA ResetTakesAStep ==
  ASSUME Named, NEW store \in ResetStores, pc = store, pc' = AfterReset(store)
  PROVE  StepsLeft \in 1 .. (Largest + 8) /\ StepsLeft' \in 0 .. (StepsLeft - 1)
<1>1. Largest \in Nat \ {0} /\ Pos(store) \in 1 .. 4
  BY LargestIsNat, PosOfStore
<1>2. StepsLeft = Largest + 6 - Pos(store)
  BY DEF StepsLeft, ResetStores
<1>3. CASE AfterReset(store) \in ResetStores /\ Pos(AfterReset(store)) = Pos(store) + 1
  <2>1. StepsLeft' = Largest + 6 - (Pos(store) + 1) /\ Pos(store) + 1 \in 1 .. 4
    BY <1>3, PosOfStore DEF StepsLeft, ResetStores
  <2> QED
    BY <1>1, <1>2, <2>1
<1>4. CASE AfterReset(store) = "remove_all_count"
  <2>1. StepsLeft' = Largest + 1
    BY <1>4 DEF StepsLeft, ResetStores
  <2> QED
    BY <1>1, <1>2, <2>1
<1> QED
  BY <1>3, <1>4, AfterResetIsNext

LEMMA EachTakesAStep ==
  ASSUME Named, Named', Initializes
  PROVE  StepsLeft \in 1 .. (Largest + 8) /\ StepsLeft' \in 0 .. (StepsLeft - 1)
<1>1. Largest \in Nat \ {0}
  BY LargestIsNat
<1>2. CASE Recover \/ SkipRecovery
  <2>1. pc = "opened" /\ pc' \in {"truncate", "remove_all_count"}
    BY <1>2 DEF Recover, SkipRecovery
  <2>2. StepsLeft = Largest + 8 /\ StepsLeft' \in {Largest + 7, Largest + 1}
    BY <2>1 DEF StepsLeft, ResetStores
  <2> QED
    BY <1>1, <2>2
<1>3. CASE Truncate
  <2>1. StepsLeft = Largest + 7 /\ StepsLeft' = Largest + 6
    BY <1>3 DEF Truncate, StepsLeft
  <2> QED
    BY <1>1, <2>1
<1>4. CASE Map
  <2>1. pc = "map" /\ pc' = reset_order[1] /\ pc' \in ResetStores /\ Pos(pc') = 1
    BY <1>4, PosOfPlace DEF Map
  <2>2. StepsLeft = Largest + 6 /\ StepsLeft' = Largest + 6 - 1
    BY <2>1 DEF StepsLeft, ResetStores
  <2> QED
    BY <1>1, <2>2
<1>5. CASE ResetCount \/ ResetSize \/ ResetVersion \/ ResetSignature
  <2>1. \E store \in ResetStores : pc = store /\ pc' = AfterReset(store)
    BY <1>5 DEF ResetCount, ResetSize, ResetVersion, ResetSignature, ResetStores
  <2> QED
    BY <2>1, ResetTakesAStep
<1>6. CASE RemoveAllCount
  <2>1. StepsLeft = Largest + 1 /\ StepsLeft' = Cardinality(WordsLeft') + 1
    BY <1>6 DEF RemoveAllCount, StepsLeft, ResetStores
  <2>2. (Named => Cardinality(WordsLeft) \in 0 .. (Largest - 1))'
    BY WordsLeftCounted, PTL
  <2>3. Cardinality(WordsLeft') \in 0 .. (Largest - 1)
    BY <2>2
  <2> QED
    BY <1>1, <2>1, <2>3
<1>7. CASE \E w \in Word : RemoveAllWord(w)
  <2>1. Cardinality(WordsLeft') = Cardinality(WordsLeft) - 1
    BY <1>7, ClearsOne
  <2>2. StepsLeft = Cardinality(WordsLeft) + 1 /\ StepsLeft' = Cardinality(WordsLeft') + 1
    BY <1>7 DEF RemoveAllWord, StepsLeft, ResetStores
  <2> QED
    BY <1>1, <2>1, <2>2, WordsLeftCounted
<1>8. CASE RemoveAllDone
  <2>1. StepsLeft = Cardinality(WordsLeft) + 1 /\ StepsLeft' = 0
    BY <1>8 DEF RemoveAllDone, StepsLeft, ResetStores
  <2> QED
    BY <1>1, <2>1, WordsLeftCounted
<1> QED
  BY <1>2, <1>3, <1>4, <1>5, <1>6, <1>7, <1>8 DEF Initializes

\* An initialization that nothing interrupts returns: each of its steps leaves
\* fewer to take, and there are never more than the words of the largest layout
\* and a few, whatever earlier processes left in the file (initialize.cpp:78).
THEOREM InitializationEnds ==
  Spec => [][Initializes => /\ StepsLeft \in 1 .. (Largest + 8)
                            /\ StepsLeft' \in 0 .. (StepsLeft - 1)]_vars
<1>1. Spec => []Named
  BY InitNamed, NextNamed, PTL DEF Spec
<1>2. ASSUME Named, Named', [Next]_vars
      PROVE  [Initializes => /\ StepsLeft \in 1 .. (Largest + 8)
                             /\ StepsLeft' \in 0 .. (StepsLeft - 1)]_vars
  BY <1>2, EachTakesAStep
<1> QED
  BY <1>1, <1>2, PTL DEF Spec
=============================================================================

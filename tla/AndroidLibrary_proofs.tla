------------------------ MODULE AndroidLibrary_proofs ------------------------
(***************************************************************************)
(* Loading, calling and unloading the library, for any number of spans,    *)
(* attributes and references, whatever fails.                              *)
(*                                                                         *)
(* The invariant has three parts.  CacheInv: at each place in JNI_OnLoad   *)
(* which cache holds which global references, and that no reference is     *)
(* held twice or by none.  CallsHaveClasses: while Java may call,          *)
(* g_span_cache is complete.  RecoveryInv: at each JNI call of             *)
(* recover_spans_native which local references there are, and which spans  *)
(* and attributes have been stored, in order.                              *)
(***************************************************************************)
EXTENDS AndroidLibrary, Integers, FiniteSetTheorems, TLAPS

-----------------------------------------------------------------------------
(* The inductive invariant of the cache                                    *)

HoldsNothing(c) == Refs(c) = {} /\ ~cache[c].vm_

\* How far the constructor has got with the local cache.
LocalCache ==
  /\ pc \notin {"find_span", "find_string", "get_method", "move", "destroy", "exited"} =>
       cache["span_cache"] = Empty
  /\ pc \in {"find_span", "find_string", "get_method"} => cache["span_cache"].vm_
  /\ pc = "find_span" => cache["span_cache"].span_class_ = nullptr
  /\ pc \in {"find_span", "find_string"} => cache["span_cache"].string_class_ = nullptr

\* g_span_cache is complete or empty, and which of them the others rely on.
GlobalCache ==
  /\ cache["g_span_cache"] = Empty \/ is_initialized("g_span_cache")
  /\ pc \in {"not_loaded", "find_span", "find_string", "get_method", "move", "unloaded"} =>
       cache["g_span_cache"] = Empty
  /\ pc \in {"register_persistence", "register_mutable", "loaded"} =>
       is_initialized("g_span_cache")
  /\ registered # {} =>
       pc \in {"register_mutable", "loaded", "failed"} /\ is_initialized("g_span_cache")

\* A cache that holds a reference can delete it.
CanDelete == \A c \in Cache : Refs(c) # {} => cache[c].vm_

CacheInv == TypeOK /\ HeldOnce /\ NoneLeaks /\ LocalCache /\ GlobalCache /\ CanDelete

-----------------------------------------------------------------------------
(* The inductive invariant of a recovery                                   *)

\* A native method that runs finds its classes.
CallsHaveClasses ==
  recovery_pc # "java" /\ pc # "exited" => is_initialized("g_span_cache")

RecoveryTypeOK ==
  /\ context \in [is_recovered : BOOLEAN, recovered_spans : Recoverable \cup {<< >>}]
  /\ recovery_pc \in {"java", "new_array", "span", "attributes", "attribute", "value", "store"}
  /\ spans \in Recoverable \cup {<< >>} /\ spans \in Seq(Span)
  /\ next \in 1 .. (Len(spans) + 1)
  /\ i \in 1 .. next
  /\ exception \in BOOLEAN
  /\ refused \subseteq 1 .. (next - 1)
  /\ recovery_pc \in {"attributes", "attribute", "value", "store"} => next <= Len(spans)
  /\ recovery_pc \in {"java", "new_array"} => ~exception /\ refused = {}
  /\ recovery_pc = "new_array" => next = 1 /\ i = 1

\* Which variables may hold a reference, and which must.
MayHold ==
  CASE recovery_pc \in {"java", "new_array"} -> {}
    [] recovery_pc = "span" -> {"spans_array"}
    [] recovery_pc = "attributes" -> {"spans_array", "name"}
    [] recovery_pc = "attribute" -> {"spans_array", "name", "attributes"}
    [] recovery_pc = "value" -> {"spans_array", "name", "attributes", "jkey"}
    [] recovery_pc = "store" -> {"spans_array", "jspan"}

Scoped == held \subseteq MayHold /\ live = Cardinality(held)

\* The array of the spans before next, unless it ends in an exception.
ArrayInv ==
  recovery_pc \notin {"java", "new_array"} /\ ~exception =>
    /\ "spans_array" \in held
    /\ DOMAIN spans_array = 1 .. Len(spans)
    /\ \E place \in Recovery!Places(next - 1) :
         /\ Len(place) = i - 1
         /\ {place[k] : k \in DOMAIN place} = (1 .. (next - 1)) \ refused
         /\ Recovery!HoldsSpans(spans_array, place)

\* The array of the attributes before attribute: those with a key and a value,
\* which are all of them unless it ends in an exception.
AttributesInv ==
  recovery_pc \in {"attribute", "value"} =>
    /\ attribute \in 1 .. (Recovery!count + 1)
    /\ attributes = [k \in 1 .. 2 * Recovery!count |-> attributes[k]]
    /\ \E place \in Recovery!Places(attribute - 1) :
         /\ index = 2 * Len(place)
         /\ Recovery!HoldsPairs(attributes, Recovery!this, place)
    /\ ~exception =>
         /\ index = 2 * (attribute - 1)
         /\ \A k \in 1 .. (attribute - 1) :
              /\ attributes[2 * k - 1] = Recovery!Key(Recovery!this, k)
              /\ attributes[2 * k] = Recovery!Value(Recovery!this, k)

Complete ==
  /\ recovery_pc = "value" => attribute <= Recovery!count
  /\ recovery_pc = "value" /\ ~exception => "jkey" \in held
  /\ recovery_pc = "store" /\ ~exception => jspan = Recovery!Whole(Recovery!this)

RecoveryInv == RecoveryTypeOK /\ Scoped /\ ArrayInv /\ AttributesInv /\ Complete

IInv == CacheInv /\ CallsHaveClasses /\ RecoveryInv

-----------------------------------------------------------------------------
(* The cache                                                               *)

LEMMA CacheInit == Init => CacheInv
BY NullAssumption DEF Init, CacheInv, TypeOK, HeldOnce, NoneLeaks, LocalCache, GlobalCache, CanDelete,
                      Refs, Empty, Cache, JClass, is_initialized

\* A flag of span_cache is set.
CacheObject == [vm_ : BOOLEAN, span_class_ : Ref \cup {nullptr},
                string_class_ : Ref \cup {nullptr}, span_create_ : BOOLEAN]

LEMMA FlagIsSet ==
  ASSUME cache \in [Cache -> CacheObject]
  PROVE  /\ [cache EXCEPT !["span_cache"].vm_ = TRUE] \in [Cache -> CacheObject]
         /\ [cache EXCEPT !["span_cache"].span_create_ = TRUE] \in [Cache -> CacheObject]
<1>1. PICK c \in CacheObject : c = cache["span_cache"]
  BY DEF Cache
<1>2. [c EXCEPT !.vm_ = TRUE] \in CacheObject /\ [c EXCEPT !.span_create_ = TRUE] \in CacheObject
  BY DEF CacheObject
<1>3. \A d \in CacheObject : [cache EXCEPT !["span_cache"] = d] \in [Cache -> CacheObject]
  BY DEF Cache
<1>4. /\ [cache EXCEPT !["span_cache"].vm_ = TRUE]
           = [cache EXCEPT !["span_cache"] = [c EXCEPT !.vm_ = TRUE]]
      /\ [cache EXCEPT !["span_cache"].span_create_ = TRUE]
           = [cache EXCEPT !["span_cache"] = [c EXCEPT !.span_create_ = TRUE]]
  BY <1>1
<1>5. QED BY <1>2, <1>3, <1>4

LEMMA JNI_OnLoadKeeps == ASSUME CacheInv, JNI_OnLoad PROVE CacheInv'
<1> USE NullAssumption DEF CacheInv, JNI_OnLoad, Cache, JClass, Empty, Refs
<1>1. TypeOK'
  <2>1. cache' = cache \/ cache' = [cache EXCEPT !["span_cache"].vm_ = TRUE]
    OBVIOUS
  <2>2. cache' \in [Cache -> CacheObject]
    BY <2>1, FlagIsSet DEF TypeOK, CacheObject
  <2>3. QED BY <2>2 DEF TypeOK, CacheObject
<1>2. HeldOnce'
  BY DEF TypeOK, HeldOnce, LocalCache, GlobalCache, is_initialized
<1>3. NoneLeaks'
  BY DEF TypeOK, HeldOnce, NoneLeaks, LocalCache, GlobalCache, CanDelete, is_initialized
<1>4. LocalCache'
  <2>1. CASE cache' = cache /\ pc' \in {"failed", "move"}
    BY <2>1 DEF LocalCache
  <2>2. CASE cache' = [cache EXCEPT !["span_cache"].vm_ = TRUE] /\ pc' = "find_span"
    <3>1. cache["span_cache"] = Empty /\ "span_cache" \in DOMAIN cache
      BY DEF TypeOK, LocalCache
    <3>2. cache'["span_cache"] = [Empty EXCEPT !.vm_ = TRUE]
      BY <2>2, <3>1
    <3>3. /\ cache'["span_cache"].vm_
          /\ cache'["span_cache"].span_class_ = nullptr
          /\ cache'["span_cache"].string_class_ = nullptr
      BY <3>2
    <3>4. QED BY <2>2, <3>3 DEF LocalCache
  <2>3. QED BY <2>1, <2>2
<1>5. GlobalCache'
  BY DEF TypeOK, GlobalCache, LocalCache, is_initialized
<1>6. CanDelete'
  BY DEF TypeOK, CanDelete, LocalCache, GlobalCache, is_initialized
<1>7. QED BY <1>1, <1>2, <1>3, <1>4, <1>5, <1>6

LEMMA FindSpanKeeps == ASSUME CacheInv, FindSpan PROVE CacheInv'
<1> USE NullAssumption DEF CacheInv, FindSpan, CacheClass, NewGlobalRef, Cache, JClass, Empty, Refs
<1>1. TypeOK'
  BY DEF TypeOK
<1>2. HeldOnce'
  BY DEF TypeOK, HeldOnce, LocalCache, GlobalCache, is_initialized
<1>3. NoneLeaks'
  BY DEF TypeOK, HeldOnce, NoneLeaks, LocalCache, GlobalCache, CanDelete, is_initialized
<1>4. LocalCache'
  BY DEF TypeOK, LocalCache
<1>5. GlobalCache'
  BY DEF TypeOK, GlobalCache, LocalCache, is_initialized
<1>6. CanDelete'
  BY DEF TypeOK, CanDelete, LocalCache, GlobalCache, is_initialized
<1>7. QED BY <1>1, <1>2, <1>3, <1>4, <1>5, <1>6

LEMMA FindStringKeeps == ASSUME CacheInv, FindString PROVE CacheInv'
<1> USE NullAssumption DEF CacheInv, FindString, CacheClass, NewGlobalRef, Cache, JClass, Empty, Refs
<1>1. TypeOK'
  BY DEF TypeOK
<1>2. HeldOnce'
  <2>1. ASSUME NEW r \in Ref, globals[r] = nullptr,
               globals' = [globals EXCEPT ![r] = "String"],
               cache' = [cache EXCEPT !["span_cache"]["string_class_"] = r]
        PROVE  HeldOnce'
    BY <2>1 DEF TypeOK, HeldOnce
  <2>2. CASE UNCHANGED <<globals, cache>>
    BY <2>2 DEF HeldOnce
  <2>3. QED BY <2>1, <2>2
<1>3. NoneLeaks'
  BY DEF TypeOK, HeldOnce, NoneLeaks, LocalCache, GlobalCache, CanDelete, is_initialized
<1>4. LocalCache'
  BY DEF TypeOK, LocalCache
<1>5. GlobalCache'
  BY DEF TypeOK, GlobalCache, LocalCache, is_initialized
<1>6. CanDelete'
  BY DEF TypeOK, CanDelete, LocalCache, GlobalCache, is_initialized
<1>7. QED BY <1>1, <1>2, <1>3, <1>4, <1>5, <1>6

LEMMA GetMethodKeeps == ASSUME CacheInv, GetMethod PROVE CacheInv'
<1> USE NullAssumption DEF CacheInv, GetMethod, Cache, JClass, Empty, Refs
<1>1. TypeOK'
  <2>1. cache' = cache \/ cache' = [cache EXCEPT !["span_cache"].span_create_ = TRUE]
    OBVIOUS
  <2>2. cache' \in [Cache -> CacheObject]
    BY <2>1, FlagIsSet DEF TypeOK, CacheObject
  <2>3. QED BY <2>2 DEF TypeOK, CacheObject
<1>2. HeldOnce'
  BY DEF TypeOK, HeldOnce, LocalCache, GlobalCache, is_initialized
<1>3. NoneLeaks'
  BY DEF TypeOK, HeldOnce, NoneLeaks, LocalCache, GlobalCache, CanDelete, is_initialized
<1>4. LocalCache'
  BY DEF TypeOK, LocalCache
<1>5. GlobalCache'
  BY DEF TypeOK, GlobalCache, LocalCache, is_initialized
<1>6. CanDelete'
  BY DEF TypeOK, CanDelete, LocalCache, GlobalCache, is_initialized
<1>7. QED BY <1>1, <1>2, <1>3, <1>4, <1>5, <1>6

LEMMA MoveKeeps == ASSUME CacheInv, Move PROVE CacheInv'
<1> USE NullAssumption DEF CacheInv, Move, MoveAssign, AfterRelease, Cache, JClass, Empty, Refs
<1>1. TypeOK'
  <2>1. CASE MoveAssign
    <3>1. globals' \in [Ref -> JClass \cup {nullptr}]
      BY <2>1 DEF TypeOK
    <3>2. cache' \in [Cache -> [vm_ : BOOLEAN, span_class_ : Ref \cup {nullptr},
                              string_class_ : Ref \cup {nullptr}, span_create_ : BOOLEAN]]
      BY <2>1 DEF TypeOK
    <3>3. QED BY <3>1, <3>2 DEF TypeOK
  <2>2. CASE UNCHANGED <<globals, cache>>
    BY <2>2 DEF TypeOK
  <2>3. QED BY <2>1, <2>2
<1>2. HeldOnce'
  BY DEF TypeOK, HeldOnce, LocalCache, GlobalCache, is_initialized
<1>3. NoneLeaks'
  BY DEF TypeOK, HeldOnce, NoneLeaks, LocalCache, GlobalCache, CanDelete, is_initialized
<1>4. LocalCache'
  BY DEF TypeOK, LocalCache
<1>5. GlobalCache'
  BY DEF TypeOK, GlobalCache, LocalCache, is_initialized
<1>6. CanDelete'
  BY DEF TypeOK, CanDelete, LocalCache, GlobalCache, is_initialized
<1>7. QED BY <1>1, <1>2, <1>3, <1>4, <1>5, <1>6

LEMMA DestroyLocalKeeps == ASSUME CacheInv, DestroyLocal PROVE CacheInv'
<1> USE NullAssumption DEF CacheInv, DestroyLocal, release, AfterRelease, Cache, JClass, Empty, Refs
<1>1. TypeOK'
  BY DEF TypeOK
<1>2. HeldOnce'
  BY DEF TypeOK, HeldOnce, LocalCache, GlobalCache, is_initialized
<1>3. NoneLeaks'
  BY DEF TypeOK, HeldOnce, NoneLeaks, LocalCache, GlobalCache, CanDelete, is_initialized
<1>4. LocalCache'
  BY DEF TypeOK, LocalCache
<1>5. GlobalCache'
  BY DEF TypeOK, GlobalCache, LocalCache, is_initialized
<1>6. CanDelete'
  BY DEF TypeOK, CanDelete, LocalCache, GlobalCache, is_initialized
<1>7. QED BY <1>1, <1>2, <1>3, <1>4, <1>5, <1>6

LEMMA RegisterPersistenceKeeps == ASSUME CacheInv, RegisterPersistence PROVE CacheInv'
<1> USE NullAssumption DEF CacheInv, RegisterPersistence, register_natives, Cache, JClass, Empty, Refs
<1>1. TypeOK'
  BY DEF TypeOK
<1>2. HeldOnce'
  BY DEF TypeOK, HeldOnce, LocalCache, GlobalCache, is_initialized
<1>3. NoneLeaks'
  BY DEF TypeOK, HeldOnce, NoneLeaks, LocalCache, GlobalCache, CanDelete, is_initialized
<1>4. LocalCache'
  BY DEF TypeOK, LocalCache
<1>5. GlobalCache'
  BY DEF TypeOK, GlobalCache, LocalCache, is_initialized
<1>6. CanDelete'
  BY DEF TypeOK, CanDelete, LocalCache, GlobalCache, is_initialized
<1>7. QED BY <1>1, <1>2, <1>3, <1>4, <1>5, <1>6

LEMMA RegisterMutableKeeps == ASSUME CacheInv, RegisterMutable PROVE CacheInv'
<1> USE NullAssumption DEF CacheInv, RegisterMutable, register_natives, Cache, JClass, Empty, Refs
<1>1. TypeOK'
  BY DEF TypeOK
<1>2. HeldOnce'
  BY DEF TypeOK, HeldOnce, LocalCache, GlobalCache, is_initialized
<1>3. NoneLeaks'
  BY DEF TypeOK, HeldOnce, NoneLeaks, LocalCache, GlobalCache, CanDelete, is_initialized
<1>4. LocalCache'
  BY DEF TypeOK, LocalCache
<1>5. GlobalCache'
  BY DEF TypeOK, GlobalCache, LocalCache, is_initialized
<1>6. CanDelete'
  BY DEF TypeOK, CanDelete, LocalCache, GlobalCache, is_initialized
<1>7. QED BY <1>1, <1>2, <1>3, <1>4, <1>5, <1>6

LEMMA JNI_OnUnloadKeeps == ASSUME CacheInv, JNI_OnUnload PROVE CacheInv'
<1> USE NullAssumption DEF CacheInv, JNI_OnUnload, release, AfterRelease, Cache, JClass, Empty, Refs
<1>1. TypeOK'
  BY DEF TypeOK
<1>2. HeldOnce'
  BY DEF TypeOK, HeldOnce, LocalCache, GlobalCache, is_initialized
<1>3. NoneLeaks'
  BY DEF TypeOK, HeldOnce, NoneLeaks, LocalCache, GlobalCache, CanDelete, is_initialized
<1>4. LocalCache'
  BY DEF TypeOK, LocalCache
<1>5. GlobalCache'
  BY DEF TypeOK, GlobalCache, LocalCache, is_initialized
<1>6. CanDelete'
  BY DEF TypeOK, CanDelete, LocalCache, GlobalCache, is_initialized
<1>7. QED BY <1>1, <1>2, <1>3, <1>4, <1>5, <1>6

LEMMA DestroyStaticKeeps == ASSUME CacheInv, DestroyStatic PROVE CacheInv'
<1> USE NullAssumption DEF CacheInv, DestroyStatic, release, AfterRelease, Cache, JClass, Empty, Refs
<1>1. TypeOK'
  BY DEF TypeOK
<1>2. HeldOnce'
  BY DEF TypeOK, HeldOnce, LocalCache, GlobalCache, is_initialized
<1>3. NoneLeaks'
  BY DEF TypeOK, HeldOnce, NoneLeaks, LocalCache, GlobalCache, CanDelete, is_initialized
<1>4. LocalCache'
  BY DEF TypeOK, LocalCache
<1>5. GlobalCache'
  BY DEF TypeOK, GlobalCache, LocalCache, is_initialized
<1>6. CanDelete'
  BY DEF TypeOK, CanDelete, LocalCache, GlobalCache, is_initialized
<1>7. QED BY <1>1, <1>2, <1>3, <1>4, <1>5, <1>6

-----------------------------------------------------------------------------
(* Places, references and sequences                                        *)

LEMMA PlacesAre ==
  ASSUME NEW n \in Nat, NEW place \in Recovery!Places(n)
  PROVE  /\ place \in Seq(1 .. n)
         /\ Len(place) \in 0 .. n
         /\ DOMAIN place = 1 .. Len(place)
         /\ \A k \in 1 .. Len(place) : place[k] \in 1 .. n
         /\ \A j, k \in 1 .. Len(place) : j < k => place[j] < place[k]
<1>1. PICK m \in 0 .. n : place \in [1 .. m -> 1 .. n]
  BY DEF Recovery!Places
<1>2. place \in Seq(1 .. n) /\ Len(place) = m
  BY <1>1
<1>3. \A j, k \in DOMAIN place : j < k => place[j] < place[k]
  BY DEF Recovery!Places
<1>4. QED BY <1>1, <1>2, <1>3

LEMMA NoPlaces == << >> \in Recovery!Places(0)
<1>1. << >> \in [1 .. 0 -> 1 .. 0]
  OBVIOUS
<1>2. << >> \in UNION {[1 .. m -> 1 .. 0] : m \in 0 .. 0}
  BY <1>1
<1>3. QED BY <1>2 DEF Recovery!Places

LEMMA PlacesGrow ==
  ASSUME NEW n \in Nat, NEW place \in Recovery!Places(n)
  PROVE  place \in Recovery!Places(n + 1)
<1>1. PICK m \in 0 .. n : place \in [1 .. m -> 1 .. n]
  BY DEF Recovery!Places
<1>2. m \in 0 .. (n + 1) /\ place \in [1 .. m -> 1 .. (n + 1)]
  BY <1>1
<1>3. place \in UNION {[1 .. k -> 1 .. (n + 1)] : k \in 0 .. (n + 1)}
  BY <1>2
<1>4. \A j, k \in DOMAIN place : j < k => place[j] < place[k]
  BY DEF Recovery!Places
<1>5. QED BY <1>3, <1>4 DEF Recovery!Places

LEMMA PlacesAppend ==
  ASSUME NEW n \in Nat, NEW place \in Recovery!Places(n)
  PROVE  /\ Append(place, n + 1) \in Recovery!Places(n + 1)
         /\ Len(Append(place, n + 1)) = Len(place) + 1
         /\ \A k \in 1 .. Len(place) : Append(place, n + 1)[k] = place[k]
         /\ Append(place, n + 1)[Len(place) + 1] = n + 1
<1> DEFINE more == Append(place, n + 1)
<1>1. /\ place \in Seq(1 .. n)
      /\ Len(place) \in 0 .. n
      /\ \A k \in 1 .. Len(place) : place[k] \in 1 .. n
      /\ \A j, k \in 1 .. Len(place) : j < k => place[j] < place[k]
  BY PlacesAre
<1>2. /\ more \in [1 .. (Len(place) + 1) -> 1 .. (n + 1)]
      /\ Len(more) = Len(place) + 1
      /\ \A k \in 1 .. Len(place) : more[k] = place[k]
      /\ more[Len(place) + 1] = n + 1
  <2>1. place \in Seq(1 .. (n + 1))
    BY <1>1
  <2>2. more \in Seq(1 .. (n + 1)) /\ Len(more) = Len(place) + 1
    BY <2>1
  <2>3. \A k \in 1 .. Len(place) : more[k] = place[k]
    BY <2>1
  <2>4. more[Len(place) + 1] = n + 1
    BY <2>1
  <2>5. more \in [1 .. Len(more) -> 1 .. (n + 1)]
    <3> HIDE DEF more
    <3>1. QED BY <2>2
  <2>6. QED BY <2>2, <2>3, <2>4, <2>5
<1> HIDE DEF more
<1>3. more \in UNION {[1 .. m -> 1 .. (n + 1)] : m \in 0 .. (n + 1)}
  <2>1. Len(place) + 1 \in 0 .. (n + 1)
    BY <1>1
  <2>2. QED BY <1>2, <2>1
<1>4. \A j, k \in DOMAIN more : j < k => more[j] < more[k]
  <2> TAKE j, k \in DOMAIN more
  <2>1. j \in 1 .. (Len(place) + 1) /\ k \in 1 .. (Len(place) + 1)
    BY <1>2
  <2>2. CASE k \in 1 .. Len(place)
    BY <1>1, <1>2, <2>1, <2>2
  <2>3. CASE k = Len(place) + 1 /\ j \in 1 .. Len(place)
    <3>1. more[j] = place[j] /\ place[j] \in 1 .. n /\ more[k] = n + 1
      BY <1>1, <1>2, <2>3
    <3>2. QED BY <3>1
  <2>4. QED BY <1>1, <2>1, <2>2, <2>3
<1>5. more \in Recovery!Places(n + 1)
  BY <1>3, <1>4 DEF Recovery!Places
<1>6. QED BY <1>2, <1>5 DEF more

LEMMA SameCardinality == \A S : Recovery!Cardinality(S) = Cardinality(S)
BY DEF Recovery!Cardinality, Cardinality

LEMMA VariablesFinite == IsFiniteSet(Recovery!Variable)
<1>1. ASSUME NEW x, NEW y PROVE IsFiniteSet({x, y})
  <2>1. IsFiniteSet({x}) /\ IsFiniteSet({y})
    BY FS_Singleton
  <2>2. IsFiniteSet({x} \cup {y})
    BY <2>1, FS_Union
  <2>3. {x, y} = {x} \cup {y}
    OBVIOUS
  <2>4. QED BY <2>2, <2>3
<1>2. IsFiniteSet({"spans_array", "name"} \cup {"attributes", "jkey"})
  BY <1>1, FS_Union
<1>3. IsFiniteSet(({"spans_array", "name"} \cup {"attributes", "jkey"}) \cup {"jval", "jspan"})
  BY <1>1, <1>2, FS_Union
<1>4. QED BY <1>3 DEF Recovery!Variable

LEMMA RefsCounted ==
  ASSUME held \subseteq Recovery!Variable, live = Cardinality(held),
         NEW made \in SUBSET Recovery!Variable, made \cap held = {},
         NEW destroyed \in SUBSET Recovery!Variable,
         Recovery!LocalRefs(made, destroyed)
  PROVE  held' = (held \cup made) \ destroyed /\ live' = Cardinality(held')
<1>1. IsFiniteSet(Recovery!Variable)
  BY VariablesFinite
<1>2. IsFiniteSet(held) /\ IsFiniteSet(made) /\ IsFiniteSet(held \cup made)
  BY <1>1, FS_Subset, FS_Union
<1>3. Cardinality(held \cup made) = Cardinality(held) + Cardinality(made)
  <2>1. Cardinality(held \cap made) = 0
    BY FS_EmptySet, held \cap made = {}
  <2>2. /\ Cardinality(held \cup made) =
             Cardinality(held) + Cardinality(made) - Cardinality(held \cap made)
        /\ Cardinality(held) \in Nat /\ Cardinality(made) \in Nat
    BY <1>2, FS_Union, FS_CardinalityType
  <2>3. QED BY <2>1, <2>2
<1>4. Cardinality((held \cup made) \ destroyed) =
        Cardinality(held \cup made) - Cardinality((held \cup made) \cap destroyed)
  BY <1>2, FS_Difference
<1>5. /\ Cardinality(held) \in Nat
      /\ Cardinality(made) \in Nat
      /\ Cardinality((held \cup made) \cap destroyed) \in Nat
  <2>1. IsFiniteSet((held \cup made) \cap destroyed)
    BY <1>2, FS_Subset
  <2>2. QED BY <1>2, <2>1, FS_CardinalityType
<1>6. /\ held' = (held \cup made) \ destroyed
      /\ live' = live + Cardinality(made) - Cardinality((held \cup made) \cap destroyed)
  BY SameCardinality DEF Recovery!LocalRefs
<1>7. QED BY <1>3, <1>4, <1>5, <1>6

LEMMA SpanAtNext ==
  ASSUME RecoveryTypeOK, next <= Len(spans)
  PROVE  /\ next \in 1 .. Len(spans)
         /\ Recovery!this \in Span
         /\ attributes_of[Recovery!this] \in Seq(Attribute)
         /\ Recovery!count \in Nat
BY SpansAssumption DEF RecoveryTypeOK, Recovery!this, Recovery!count

\* What a call into the array of the spans leaves alone.
LEMMA ArrayKept ==
  ASSUME ArrayInv, recovery_pc \notin {"java", "new_array"}, exception => exception',
         exception \in BOOLEAN,
         UNCHANGED <<spans, next, spans_array, i, refused>>,
         "spans_array" \in held => "spans_array" \in held'
  PROVE  ArrayInv'
<1>1. CASE exception
  BY <1>1 DEF ArrayInv
<1>2. CASE ~exception
  <2>1. PICK place \in Recovery!Places(next - 1) :
          /\ Len(place) = i - 1
          /\ {place[k] : k \in DOMAIN place} = (1 .. (next - 1)) \ refused
          /\ Recovery!HoldsSpans(spans_array, place)
    BY <1>2 DEF ArrayInv
  <2>2. Recovery!HoldsSpans(spans_array, place)'
    BY <2>1 DEF Recovery!HoldsSpans, Recovery!Whole, Recovery!Key, Recovery!Value
  <2>3. "spans_array" \in held /\ DOMAIN spans_array = 1 .. Len(spans)
    BY <1>2 DEF ArrayInv
  <2>4. QED BY <2>1, <2>2, <2>3 DEF ArrayInv
<1>3. QED BY <1>1, <1>2

LEMMA AttributesKept ==
  ASSUME AttributesInv, recovery_pc \in {"attribute", "value"}, exception => exception',
         exception \in BOOLEAN,
         UNCHANGED <<spans, next, attribute, attributes, index>>
  PROVE  AttributesInv'
BY DEF AttributesInv, Recovery!HoldsPairs, Recovery!Key, Recovery!Value, Recovery!this, Recovery!count

\* A span is given up with an exception pending.
LEMMA GivenUp ==
  ASSUME exception' = TRUE PROVE ArrayInv'
BY DEF ArrayInv

-----------------------------------------------------------------------------
(* The steps of a recovery                                                 *)

LEMMA CallKeeps ==
  ASSUME RecoveryInv, NEW context_ptr, Recovery!Call(context_ptr)
  PROVE  RecoveryInv'
<1> USE DEF RecoveryInv, Recovery!Call
<1>1. RecoveryTypeOK'
  <2>1. spans' \in Seq(Span) /\ spans' \in Recoverable \cup {<< >>}
        /\ context' \in [is_recovered : BOOLEAN, recovered_spans : Recoverable \cup {<< >>}]
    <3>1. << >> \in Seq(Span) /\ Recoverable \subseteq Seq(Span)
      BY SpansAssumption
    <3>2. CASE spans' = << >> /\ UNCHANGED context
      BY <3>1, <3>2 DEF RecoveryTypeOK
    <3>3. CASE /\ spans' = context.recovered_spans
               /\ context' = [is_recovered |-> TRUE, recovered_spans |-> << >>]
      BY <3>1, <3>3 DEF RecoveryTypeOK
    <3>4. QED BY <3>2, <3>3
  <2>2. Len(spans') \in Nat
    BY <2>1
  <2>3. next' = 1 /\ i' = 1 /\ refused' = {} /\ exception' = FALSE
    BY DEF RecoveryTypeOK
  <2>4. QED BY <2>1, <2>2, <2>3 DEF RecoveryTypeOK
<1>2. Scoped'
  BY DEF Scoped, MayHold
<1>3. ArrayInv' /\ AttributesInv' /\ Complete'
  BY DEF ArrayInv, AttributesInv, Complete
<1>4. QED BY <1>1, <1>2, <1>3

LEMMA NewArrayKeeps ==
  ASSUME RecoveryInv, is_initialized("g_span_cache"), Recovery!NewArray
  PROVE  RecoveryInv'
<1> USE DEF RecoveryInv, Recovery!NewArray, Recovery!NothingMade, Recovery!Created, Recovery!Throws
<1>1. RecoveryTypeOK'
  <2>1. Len(spans) \in Nat /\ next = 1 /\ i = 1 /\ refused = {} /\ exception \in BOOLEAN
    BY DEF RecoveryTypeOK
  <2>2. next' \in {1, Len(spans) + 1} /\ exception' \in BOOLEAN
    BY <2>1
  <2>3. QED BY <2>1, <2>2 DEF RecoveryTypeOK
<1>2. CASE Recovery!Created /\ Recovery!LocalRefs({"spans_array"}, {})
           /\ spans_array' = Recovery!Nulls(Len(spans)) /\ UNCHANGED next
  <2>1. held = {} /\ live = Cardinality(held)
    BY DEF Scoped, MayHold
  <2>2. held' = {"spans_array"} /\ live' = Cardinality(held')
    BY <1>2, <2>1, RefsCounted DEF Recovery!Variable
  <2>3. Scoped'
    BY <2>2 DEF Scoped, MayHold
  <2>4. ArrayInv'
    <3>1. next' = 1 /\ i' = 1 /\ refused' = {} /\ spans' = spans /\ Len(spans) \in Nat
      BY <1>2 DEF RecoveryTypeOK
    <3>2. spans_array' = [k \in 1 .. Len(spans) |-> null]
      BY <1>2 DEF Recovery!Nulls
    <3>3. << >> \in Recovery!Places(next' - 1)
      BY <3>1, NoPlaces
    <3>4. Recovery!HoldsSpans(spans_array, << >>)'
      BY <3>1, <3>2 DEF Recovery!HoldsSpans
    <3>5. Len(<< >>) = i' - 1 /\ {<< >>[k] : k \in DOMAIN << >>} = (1 .. (next' - 1)) \ refused'
      BY <3>1
    <3>6. \E place \in Recovery!Places(next' - 1) :
            /\ Len(place) = i' - 1
            /\ {place[k] : k \in DOMAIN place} = (1 .. (next' - 1)) \ refused'
            /\ Recovery!HoldsSpans(spans_array, place)'
      BY <3>3, <3>4, <3>5
    <3>7. DOMAIN spans_array' = 1 .. Len(spans')
      BY <3>1, <3>2
    <3>8. QED BY <2>2, <3>6, <3>7 DEF ArrayInv
  <2>5. AttributesInv' /\ Complete'
    BY DEF AttributesInv, Complete
  <2>6. QED BY <1>1, <2>3, <2>4, <2>5
<1>3. CASE Recovery!NothingMade /\ UNCHANGED <<held, live, spans_array>>
  <2>1. Scoped'
    BY <1>3 DEF Scoped, MayHold
  <2>2. ArrayInv' /\ AttributesInv' /\ Complete'
    BY <1>3 DEF ArrayInv, AttributesInv, Complete
  <2>3. QED BY <1>1, <2>1, <2>2
<1>4. QED BY <1>2, <1>3

LEMMA NewNameKeeps ==
  ASSUME RecoveryInv, is_initialized("g_span_cache"), Recovery!NewName
  PROVE  RecoveryInv'
<1> USE DEF RecoveryInv, Recovery!NewName, Recovery!NothingMade, Recovery!Created, Recovery!Throws
<1>1. held \subseteq {"spans_array"} /\ live = Cardinality(held)
  BY DEF Scoped, MayHold
<1>2. AttributesInv' /\ Complete'
  BY DEF AttributesInv, Complete, Recovery!Skip
<1>3. CASE Recovery!Created /\ Recovery!LocalRefs({"name"}, {})
           /\ recovery_pc' = "attributes" /\ UNCHANGED next
  <2>1. RecoveryTypeOK'
    BY <1>3 DEF RecoveryTypeOK
  <2>2. held' = held \cup {"name"} /\ live' = Cardinality(held')
    <3>1. held \subseteq Recovery!Variable /\ {"name"} \subseteq Recovery!Variable
          /\ {"name"} \cap held = {}
      BY <1>1 DEF Recovery!Variable
    <3>2. held' = (held \cup {"name"}) \ {} /\ live' = Cardinality(held')
      BY <1>1, <1>3, <3>1, RefsCounted
    <3>3. QED BY <3>2
  <2>3. Scoped'
    BY <1>1, <1>3, <2>2 DEF Scoped, MayHold
  <2>4. ArrayInv'
    BY <1>3, <2>2, ArrayKept DEF RecoveryTypeOK
  <2>5. QED BY <1>2, <2>1, <2>3, <2>4
<1>4. CASE Recovery!Throws /\ Recovery!Skip({})
  <2>1. RecoveryTypeOK'
    BY <1>4 DEF RecoveryTypeOK, Recovery!Skip
  <2>2. held' = held /\ live' = Cardinality(held')
    BY <1>1, <1>4, RefsCounted DEF Recovery!Variable, Recovery!Skip
  <2>3. Scoped'
    BY <1>1, <1>4, <2>2 DEF Scoped, MayHold, Recovery!Skip
  <2>4. ArrayInv'
    BY <1>4, GivenUp
  <2>5. QED BY <1>2, <2>1, <2>3, <2>4
<1>5. QED BY <1>3, <1>4

LEMMA NewAttributesKeeps ==
  ASSUME RecoveryInv, Recovery!NewAttributes
  PROVE  RecoveryInv'
<1> USE DEF RecoveryInv, Recovery!NewAttributes, Recovery!Created, Recovery!Throws
<1>1. held \subseteq {"spans_array", "name"} /\ live = Cardinality(held)
  BY DEF Scoped, MayHold
<1>2. Complete'
  BY DEF Complete, Recovery!Skip
<1>3. CASE Recovery!Created /\ Recovery!LocalRefs({"attributes"}, {})
           /\ attributes' = Recovery!Nulls(2 * Recovery!count) /\ index' = 0 /\ attribute' = 1
           /\ recovery_pc' = "attribute" /\ UNCHANGED next
  <2>1. RecoveryTypeOK'
    BY <1>3 DEF RecoveryTypeOK
  <2>2. held' = held \cup {"attributes"} /\ live' = Cardinality(held')
    BY <1>1, <1>3, RefsCounted DEF Recovery!Variable
  <2>3. Scoped'
    BY <1>1, <1>3, <2>2 DEF Scoped, MayHold
  <2>4. ArrayInv'
    BY <1>3, <2>2, ArrayKept DEF RecoveryTypeOK
  <2>5. AttributesInv'
    <3>1. /\ Recovery!count \in Nat
          /\ Recovery!count' = Recovery!count
          /\ Recovery!this' = Recovery!this
      BY <1>3, SpanAtNext DEF RecoveryTypeOK, Recovery!count, Recovery!this
    <3>2. attributes' = [k \in 1 .. 2 * Recovery!count |-> null]
      BY <1>3 DEF Recovery!Nulls
    <3>3. << >> \in Recovery!Places(attribute' - 1)
      BY <1>3, NoPlaces
    <3>4. Recovery!HoldsPairs(attributes', Recovery!this', << >>)
      BY <3>2 DEF Recovery!HoldsPairs
    <3>5. index' = 2 * Len(<< >>)
      BY <1>3
    <3>6. attributes' = [k \in 1 .. 2 * Recovery!count' |-> attributes'[k]]
      BY <3>1, <3>2
    <3>7. QED BY <1>3, <3>1, <3>3, <3>4, <3>5, <3>6 DEF AttributesInv
  <2>6. QED BY <1>2, <2>1, <2>3, <2>4, <2>5
<1>4. CASE Recovery!Throws /\ Recovery!Skip({"name"})
  <2>1. RecoveryTypeOK'
    BY <1>4 DEF RecoveryTypeOK, Recovery!Skip
  <2>2. held' = held \ {"name"} /\ live' = Cardinality(held')
    BY <1>1, <1>4, RefsCounted DEF Recovery!Variable, Recovery!Skip
  <2>3. Scoped'
    BY <1>1, <1>4, <2>2 DEF Scoped, MayHold, Recovery!Skip
  <2>4. ArrayInv' /\ AttributesInv'
    BY <1>4, GivenUp DEF AttributesInv, Recovery!Skip
  <2>5. QED BY <1>2, <2>1, <2>3, <2>4
<1>5. QED BY <1>3, <1>4

LEMMA NewKeyKeeps ==
  ASSUME RecoveryInv, Recovery!NewKey
  PROVE  RecoveryInv'
<1> USE DEF RecoveryInv, Recovery!NewKey, Recovery!Created, Recovery!Throws, Recovery!call
<1>1. /\ held \subseteq {"spans_array", "name", "attributes"} /\ live = Cardinality(held)
      /\ exception \in BOOLEAN
      /\ Recovery!count' = Recovery!count
  BY DEF Scoped, MayHold, RecoveryTypeOK, Recovery!count, Recovery!this
<1>2. RecoveryTypeOK'
  BY DEF RecoveryTypeOK
<1>3. held \subseteq held' /\ held' \subseteq held \cup {"jkey"} /\ live' = Cardinality(held')
  <2>1. CASE Recovery!LocalRefs({"jkey"}, {})
    <3>1. held \subseteq Recovery!Variable /\ {"jkey"} \subseteq Recovery!Variable
          /\ {"jkey"} \cap held = {}
      BY <1>1 DEF Recovery!Variable
    <3>2. held' = (held \cup {"jkey"}) \ {} /\ live' = Cardinality(held')
      BY <1>1, <2>1, <3>1, RefsCounted
    <3>3. QED BY <3>2
  <2>2. CASE UNCHANGED <<held, live>>
    BY <1>1, <2>2
  <2>3. QED BY <2>1, <2>2
<1>4. Scoped'
  BY <1>1, <1>3 DEF Scoped, MayHold
<1>5. ArrayInv' /\ AttributesInv'
  BY <1>1, <1>3, ArrayKept, AttributesKept
<1>6. ~exception' => "jkey" \in held'
  BY DEF Recovery!LocalRefs
<1>7. Complete'
  BY <1>1, <1>6 DEF Complete
<1>8. QED BY <1>2, <1>4, <1>5, <1>7

\* A pair at the end of the array, or an attribute left out.
LEMMA PairsGrow ==
  ASSUME RecoveryTypeOK, AttributesInv, recovery_pc = "value", attribute <= Recovery!count,
         next <= Len(spans),
         \/ /\ attributes' = [attributes EXCEPT
                                ![index + 1] = Recovery!Key(Recovery!this, attribute),
                                ![index + 2] = Recovery!Value(Recovery!this, attribute)]
            /\ index' = index + 2
         \/ UNCHANGED <<attributes, index>> /\ exception' = TRUE,
         exception => exception', exception \in BOOLEAN,
         attribute' = attribute + 1, UNCHANGED <<spans, next>>
  PROVE  AttributesInv'
<1>0. PICK s, n : /\ s = Recovery!this /\ s = Recovery!this'
                  /\ n = Recovery!count /\ n = Recovery!count'
  BY DEF Recovery!count, Recovery!this
<1>1. n \in Nat /\ attribute \in 1 .. n
  BY <1>0, SpanAtNext DEF AttributesInv
<1>2. PICK place \in Recovery!Places(attribute - 1) :
        index = 2 * Len(place) /\ Recovery!HoldsPairs(attributes, s, place)
  BY <1>0 DEF AttributesInv
<1>3. /\ Len(place) \in 0 .. (attribute - 1)
      /\ DOMAIN place = 1 .. Len(place)
  BY <1>1, <1>2, PlacesAre
<1>4. attributes = [k \in 1 .. 2 * n |-> attributes[k]]
  BY <1>0 DEF AttributesInv
<1>5. CASE /\ attributes' = [attributes EXCEPT ![index + 1] = Recovery!Key(s, attribute),
                                               ![index + 2] = Recovery!Value(s, attribute)]
           /\ index' = index + 2
  <2>1. PICK more \in Recovery!Places((attribute - 1) + 1) :
           /\ Len(more) = Len(place) + 1
           /\ \A k \in 1 .. Len(place) : more[k] = place[k]
           /\ more[Len(place) + 1] = (attribute - 1) + 1
    <3>1. attribute - 1 \in Nat
      BY <1>1
    <3>2. QED BY <1>2, <3>1, PlacesAppend
  <2>2. more \in Recovery!Places(attribute' - 1) /\ more[Len(place) + 1] = attribute
    <3>1. (attribute - 1) + 1 = attribute /\ attribute' - 1 = attribute
      BY <1>1
    <3>2. QED BY <2>1, <3>1
  <2>3. DOMAIN more = 1 .. (Len(place) + 1)
    BY <1>1, <2>1, PlacesAre
  <2>4. index' = 2 * Len(more)
    BY <1>2, <1>3, <1>5, <2>1
  <2>5. /\ attributes' = [k \in 1 .. 2 * n |-> attributes'[k]]
        /\ attributes'[index + 1] = Recovery!Key(s, attribute)
        /\ attributes'[index + 2] = Recovery!Value(s, attribute)
        /\ \A k \in 1 .. 2 * n : k # index + 1 /\ k # index + 2 => attributes'[k] = attributes[k]
    <3>1. index + 1 \in 1 .. 2 * n /\ index + 2 \in 1 .. 2 * n /\ index + 1 # index + 2
      BY <1>1, <1>2, <1>3
    <3>2. QED BY <1>4, <1>5, <3>1
  <2>6. Recovery!HoldsPairs(attributes, s, more)'
    <3>1. ASSUME NEW k \in 1 .. Len(place)
          PROVE  /\ attributes'[2 * k - 1] = Recovery!Key(s, more[k])
                 /\ attributes'[2 * k] = Recovery!Value(s, more[k])
      <4>1. /\ attributes[2 * k - 1] = Recovery!Key(s, place[k])
            /\ attributes[2 * k] = Recovery!Value(s, place[k])
        BY <1>2, <1>3 DEF Recovery!HoldsPairs
      <4>2. /\ 2 * k - 1 \in 1 .. 2 * n /\ 2 * k \in 1 .. 2 * n
            /\ 2 * k < index + 1
        BY <1>1, <1>2, <1>3
      <4>3. /\ attributes'[2 * k - 1] = attributes[2 * k - 1]
            /\ attributes'[2 * k] = attributes[2 * k]
        BY <1>2, <1>3, <2>5, <4>2
      <4>4. QED BY <2>1, <4>1, <4>3
    <3>2. /\ attributes'[2 * (Len(place) + 1) - 1] = Recovery!Key(s, attribute)
          /\ attributes'[2 * (Len(place) + 1)] = Recovery!Value(s, attribute)
      <4>1. 2 * (Len(place) + 1) - 1 = index + 1 /\ 2 * (Len(place) + 1) = index + 2
        BY <1>2, <1>3
      <4>2. QED BY <2>5, <4>1
    <3>3. ASSUME NEW k \in DOMAIN attributes', k > 2 * Len(more)
          PROVE  attributes'[k] = null
      <4>1. k \in 1 .. 2 * n
        BY <2>5
      <4>2. k > index + 2 /\ k > 2 * Len(place)
        BY <1>2, <1>3, <2>1, <3>3, <4>1
      <4>3. attributes'[k] = attributes[k]
        BY <1>2, <1>3, <2>5, <4>1, <4>2
      <4>4. k \in DOMAIN attributes
        BY <1>4, <4>1
      <4>5. QED BY <1>2, <4>2, <4>3, <4>4 DEF Recovery!HoldsPairs
    <3>4. ASSUME NEW k \in DOMAIN more
          PROVE  /\ attributes'[2 * k - 1] = Recovery!Key(s, more[k])
                 /\ attributes'[2 * k] = Recovery!Value(s, more[k])
      <4>1. k \in 1 .. Len(place) \/ k = Len(place) + 1
        BY <1>3, <2>3
      <4>2. QED BY <2>2, <3>1, <3>2, <4>1
    <3>5. QED BY <3>3, <3>4 DEF Recovery!HoldsPairs
  <2>7. ASSUME ~exception'
        PROVE  /\ index' = 2 * (attribute' - 1)
               /\ \A k \in 1 .. (attribute' - 1) :
                    /\ attributes'[2 * k - 1] = Recovery!Key(s, k)
                    /\ attributes'[2 * k] = Recovery!Value(s, k)
    <3>1. /\ index = 2 * (attribute - 1)
          /\ \A k \in 1 .. (attribute - 1) : /\ attributes[2 * k - 1] = Recovery!Key(s, k)
                                             /\ attributes[2 * k] = Recovery!Value(s, k)
      BY <1>0, <2>7 DEF AttributesInv
    <3>2. index' = 2 * (attribute' - 1)
      BY <1>1, <1>5, <3>1
    <3>3. ASSUME NEW k \in 1 .. (attribute' - 1)
          PROVE  /\ attributes'[2 * k - 1] = Recovery!Key(s, k)
                 /\ attributes'[2 * k] = Recovery!Value(s, k)
      <4>1. CASE k = attribute
        <5>1. 2 * k - 1 = index + 1 /\ 2 * k = index + 2
          BY <1>1, <3>1, <4>1
        <5>2. QED BY <2>5, <4>1, <5>1
      <4>2. CASE k \in 1 .. (attribute - 1)
        <5>1. /\ 2 * k - 1 \in 1 .. 2 * n /\ 2 * k \in 1 .. 2 * n
              /\ 2 * k # index + 1 /\ 2 * k # index + 2
              /\ 2 * k - 1 # index + 1 /\ 2 * k - 1 # index + 2
          BY <1>1, <3>1, <4>2
        <5>2. /\ attributes'[2 * k - 1] = attributes[2 * k - 1]
              /\ attributes'[2 * k] = attributes[2 * k]
          BY <2>5, <5>1
        <5>3. QED BY <3>1, <4>2, <5>2
      <4>3. k = attribute \/ k \in 1 .. (attribute - 1)
        BY <1>1
      <4>4. QED BY <4>1, <4>2, <4>3
    <3>4. QED BY <3>2, <3>3
  <2>8. attribute' \in 1 .. (n + 1)
    BY <1>1
  <2>9. QED BY <1>0, <2>2, <2>4, <2>5, <2>6, <2>7, <2>8 DEF AttributesInv
<1>6. CASE UNCHANGED <<attributes, index>> /\ exception' = TRUE
  <2>1. place \in Recovery!Places(attribute' - 1)
    <3>1. attribute' - 1 = (attribute - 1) + 1 /\ attribute - 1 \in Nat
      BY <1>1
    <3>2. QED BY <1>2, <3>1, PlacesGrow
  <2>2. attribute' \in 1 .. (n + 1)
    BY <1>1
  <2>3. Recovery!HoldsPairs(attributes, s, place)'
    BY <1>2, <1>6 DEF Recovery!HoldsPairs, Recovery!Key, Recovery!Value
  <2>4. QED BY <1>0, <1>2, <1>4, <1>6, <2>1, <2>2, <2>3 DEF AttributesInv
<1>7. QED BY <1>0, <1>5, <1>6

LEMMA NewValueKeeps ==
  ASSUME RecoveryInv, Recovery!NewValue
  PROVE  RecoveryInv'
<1> USE DEF RecoveryInv
<1>1. PICK made \in {{}, {"jval"}} :
        /\ IF made # {} THEN Recovery!Created ELSE Recovery!Throws
        /\ Recovery!StorePair(made)
        /\ Recovery!LocalRefs(made, {"jkey", "jval"})
  BY DEF Recovery!NewValue
<1>2. /\ recovery_pc = "value" /\ recovery_pc' = "attribute"
      /\ attribute' = attribute + 1
      /\ UNCHANGED <<context, spans, next, spans_array, i, jspan, refused>>
  BY DEF Recovery!NewValue
<1>3. /\ held \subseteq {"spans_array", "name", "attributes", "jkey"} /\ live = Cardinality(held)
      /\ exception \in BOOLEAN /\ next <= Len(spans)
      /\ attribute <= Recovery!count
  BY <1>2 DEF Scoped, MayHold, RecoveryTypeOK, Complete
<1>4. exception' \in BOOLEAN /\ (exception => exception') /\ (made = {} => exception' = TRUE)
  BY <1>1, <1>3 DEF Recovery!Created, Recovery!Throws
<1>5. RecoveryTypeOK'
  BY <1>2, <1>3, <1>4 DEF RecoveryTypeOK
<1>6. held' = (held \cup made) \ {"jkey", "jval"} /\ live' = Cardinality(held')
  <2>1. held \subseteq Recovery!Variable /\ made \subseteq Recovery!Variable
        /\ {"jkey", "jval"} \subseteq Recovery!Variable /\ made \cap held = {}
    BY <1>3 DEF Recovery!Variable
  <2>2. QED BY <1>1, <1>3, <2>1, RefsCounted
<1>7. Scoped'
  BY <1>2, <1>3, <1>6 DEF Scoped, MayHold
<1>8. ArrayInv'
  BY <1>2, <1>3, <1>4, <1>6, ArrayKept
<1>9. AttributesInv'
  <2>1. CASE "jkey" \in held /\ made # {}
    BY <1>1, <1>2, <1>3, <1>4, <2>1, PairsGrow DEF Recovery!StorePair
  <2>2. CASE ~("jkey" \in held /\ made # {})
    <3>1. UNCHANGED <<attributes, index>>
      BY <1>1, <2>2 DEF Recovery!StorePair
    <3>2. exception' = TRUE
      <4>1. "jkey" \notin held => exception
        BY <1>2, <1>3 DEF Complete
      <4>2. QED BY <1>3, <1>4, <2>2, <4>1
    <3>3. QED BY <1>2, <1>3, <1>4, <3>1, <3>2, PairsGrow
  <2>3. QED BY <2>1, <2>2
<1>10. Complete'
  BY <1>2 DEF Complete
<1>11. QED BY <1>5, <1>7, <1>8, <1>9, <1>10

\* An array with all the attributes, and nothing else, is the whole span's.
LEMMA AttributesAreWhole ==
  ASSUME RecoveryTypeOK, AttributesInv, recovery_pc = "attribute", next <= Len(spans),
         attribute > Recovery!count, ~exception
  PROVE  [span |-> Recovery!this, attributes |-> attributes] = Recovery!Whole(Recovery!this)
<1>0. PICK s, n : s = Recovery!this /\ n = Recovery!count
  OBVIOUS
<1>1. n \in Nat /\ attribute = n + 1 /\ n = Len(attributes_of[s])
  BY <1>0, SpanAtNext DEF AttributesInv, Recovery!count
<1>2. attributes = [k \in 1 .. 2 * n |-> attributes[k]]
  BY <1>0 DEF AttributesInv
<1>3. \A k \in 1 .. n : /\ attributes[2 * k - 1] = Recovery!Key(s, k)
                        /\ attributes[2 * k] = Recovery!Value(s, k)
  <2>1. 1 .. n = 1 .. (attribute - 1)
    BY <1>1
  <2>2. QED BY <1>0, <2>1 DEF AttributesInv
<1>4. ASSUME NEW k \in 1 .. 2 * n
      PROVE  attributes[k] = IF k % 2 = 1 THEN Recovery!Key(s, (k + 1) \div 2)
                                          ELSE Recovery!Value(s, k \div 2)
  <2>1. CASE k % 2 = 1
    <3>1. (k + 1) \div 2 \in 1 .. n /\ 2 * ((k + 1) \div 2) - 1 = k
      BY <1>1, <2>1
    <3>2. QED BY <1>3, <2>1, <3>1
  <2>2. CASE k % 2 # 1
    <3>1. k \div 2 \in 1 .. n /\ 2 * (k \div 2) = k
      BY <1>1, <2>2
    <3>2. QED BY <1>3, <2>2, <3>1
  <2>3. QED BY <2>1, <2>2
<1>5. attributes = [k \in 1 .. 2 * n |-> IF k % 2 = 1 THEN Recovery!Key(s, (k + 1) \div 2)
                                                      ELSE Recovery!Value(s, k \div 2)]
  BY <1>2, <1>4
<1>6. QED BY <1>0, <1>1, <1>5 DEF Recovery!Whole

LEMMA CreateSpanKeeps ==
  ASSUME RecoveryInv, Recovery!CreateSpan
  PROVE  RecoveryInv'
<1> USE DEF RecoveryInv
<1>1. /\ recovery_pc = "attribute" /\ attribute > Recovery!count
      /\ UNCHANGED <<context, spans, spans_array, i>>
  BY DEF Recovery!CreateSpan
<1>2. /\ held \subseteq {"spans_array", "name", "attributes"} /\ live = Cardinality(held)
      /\ exception \in BOOLEAN
      /\ next \in 1 .. Len(spans) /\ Len(spans) \in Nat /\ i \in 1 .. next
      /\ refused \subseteq 1 .. (next - 1)
  BY <1>1 DEF Scoped, MayHold, RecoveryTypeOK
<1>3. CASE /\ Recovery!Created
           /\ Recovery!LocalRefs({"jspan"}, {"name", "attributes"})
           /\ jspan' = [span |-> Recovery!this, attributes |-> attributes]
           /\ recovery_pc' = "store"
           /\ UNCHANGED <<next, attribute, attributes, index, refused>>
  <2>1. RecoveryTypeOK'
    BY <1>1, <1>2, <1>3 DEF RecoveryTypeOK, Recovery!Created
  <2>2. held' = (held \cup {"jspan"}) \ {"name", "attributes"} /\ live' = Cardinality(held')
    <3>1. held \subseteq Recovery!Variable /\ {"jspan"} \subseteq Recovery!Variable
          /\ {"name", "attributes"} \subseteq Recovery!Variable /\ {"jspan"} \cap held = {}
      BY <1>2 DEF Recovery!Variable
    <3>2. live = Cardinality(held) /\ Recovery!LocalRefs({"jspan"}, {"name", "attributes"})
      BY <1>2, <1>3
    <3>3. QED BY <3>1, <3>2, RefsCounted
  <2>3. Scoped'
    BY <1>2, <1>3, <2>2 DEF Scoped, MayHold
  <2>4. ArrayInv'
    BY <1>1, <1>2, <1>3, <2>2, ArrayKept DEF Recovery!Created
  <2>5. AttributesInv'
    BY <1>3 DEF AttributesInv
  <2>6. Complete'
    <3>1. Recovery!Whole(Recovery!this)' = Recovery!Whole(Recovery!this)
      BY <1>1, <1>3 DEF Recovery!Whole, Recovery!this, Recovery!Key, Recovery!Value
    <3>2. ~exception' => jspan' = Recovery!Whole(Recovery!this)
      BY <1>1, <1>2, <1>3, AttributesAreWhole DEF Recovery!Created
    <3>3. QED BY <1>3, <3>1, <3>2 DEF Complete
  <2>7. QED BY <2>1, <2>3, <2>4, <2>5, <2>6
<1>4. ASSUME Recovery!Skip({"name", "attributes"}), exception' \in BOOLEAN,
             refused' = refused \/ refused' = refused \cup {next}
      PROVE  RecoveryTypeOK' /\ Scoped' /\ AttributesInv' /\ Complete'
  <2>1. next' = next + 1 /\ recovery_pc' = "span"
    BY <1>4 DEF Recovery!Skip
  <2>2. RecoveryTypeOK'
    <3>1. next' \in 1 .. (Len(spans') + 1) /\ i' \in 1 .. next'
      BY <1>1, <1>2, <2>1
    <3>2. ASSUME NEW j \in refused'
          PROVE  j \in 1 .. (next' - 1)
      <4>1. j \in 1 .. (next - 1) \/ j = next
        BY <1>2, <1>4, <3>2
      <4>2. QED BY <1>2, <2>1, <4>1
    <3>3. QED BY <1>1, <1>4, <2>1, <3>1, <3>2 DEF RecoveryTypeOK
  <2>3. held' = held \ {"name", "attributes"} /\ live' = Cardinality(held')
    <3>1. held \subseteq Recovery!Variable /\ {"name", "attributes"} \subseteq Recovery!Variable
      BY <1>2 DEF Recovery!Variable
    <3>2. Recovery!LocalRefs({}, {"name", "attributes"})
      BY <1>4 DEF Recovery!Skip
    <3>3. held' = (held \cup {}) \ {"name", "attributes"} /\ live' = Cardinality(held')
      BY <1>2, <3>1, <3>2, RefsCounted
    <3>4. QED BY <3>3
  <2>4. Scoped'
    BY <1>2, <2>1, <2>3 DEF Scoped, MayHold
  <2>5. AttributesInv' /\ Complete'
    BY <2>1 DEF AttributesInv, Complete
  <2>6. QED BY <2>2, <2>4, <2>5
<1>5. CASE Recovery!Created /\ refused' = refused \cup {next} /\ Recovery!Skip({"name", "attributes"})
  <2>1. RecoveryTypeOK' /\ Scoped' /\ AttributesInv' /\ Complete'
    BY <1>2, <1>4, <1>5 DEF Recovery!Created
  <2>2. ArrayInv'
    <3> SUFFICES ASSUME ~exception'
                 PROVE  ArrayInv'
      BY DEF ArrayInv
    <3>1. /\ "spans_array" \in held /\ "spans_array" \in held'
          /\ DOMAIN spans_array = 1 .. Len(spans)
          /\ next' = next + 1
      BY <1>1, <1>5 DEF ArrayInv, Recovery!Created, Recovery!Skip, Recovery!LocalRefs
    <3>2. PICK place \in Recovery!Places(next - 1) :
            /\ Len(place) = i - 1
            /\ {place[k] : k \in DOMAIN place} = (1 .. (next - 1)) \ refused
            /\ Recovery!HoldsSpans(spans_array, place)
      BY <1>1, <1>5 DEF ArrayInv, Recovery!Created
    <3>3. place \in Recovery!Places(next' - 1)
      <4>1. next - 1 \in Nat /\ (next - 1) + 1 = next' - 1
        BY <1>2, <3>1
      <4>2. QED BY <3>2, <4>1, PlacesGrow
    <3>4. (1 .. (next - 1)) \ refused = (1 .. (next' - 1)) \ refused'
      BY <1>2, <1>5, <3>1
    <3>5. Recovery!HoldsSpans(spans_array, place)'
      BY <1>1, <3>2 DEF Recovery!HoldsSpans, Recovery!Whole, Recovery!Key, Recovery!Value
    <3>6. QED BY <1>1, <3>1, <3>2, <3>3, <3>4, <3>5 DEF ArrayInv
  <2>3. QED BY <2>1, <2>2
<1>6. CASE Recovery!Throws /\ Recovery!Skip({"name", "attributes"}) /\ UNCHANGED refused
  <2>1. RecoveryTypeOK' /\ Scoped' /\ AttributesInv' /\ Complete'
    BY <1>4, <1>6 DEF Recovery!Throws
  <2>2. ArrayInv'
    BY <1>6, GivenUp DEF Recovery!Throws
  <2>3. QED BY <2>1, <2>2
<1>7. QED BY <1>3, <1>5, <1>6 DEF Recovery!CreateSpan

LEMMA StoreKeeps ==
  ASSUME RecoveryInv, Recovery!Store
  PROVE  RecoveryInv'
<1> USE DEF RecoveryInv
<1>1. /\ recovery_pc = "store" /\ recovery_pc' = "span"
      /\ spans_array' = [spans_array EXCEPT ![i] = jspan]
      /\ i' = i + 1 /\ next' = next + 1
      /\ UNCHANGED <<context, spans, exception, refused>>
  BY DEF Recovery!Store, Recovery!Skip
<1>2. /\ held \subseteq {"spans_array", "jspan"} /\ live = Cardinality(held)
      /\ exception \in BOOLEAN
      /\ next \in 1 .. Len(spans) /\ Len(spans) \in Nat /\ i \in 1 .. next
      /\ refused \subseteq 1 .. (next - 1)
  BY <1>1 DEF Scoped, MayHold, RecoveryTypeOK
<1>3. RecoveryTypeOK'
  BY <1>1, <1>2 DEF RecoveryTypeOK
<1>4. held' = held \ {"jspan"} /\ live' = Cardinality(held')
  <2>1. held \subseteq Recovery!Variable /\ {"jspan"} \subseteq Recovery!Variable
    BY <1>2 DEF Recovery!Variable
  <2>2. Recovery!LocalRefs({}, {"jspan"})
    BY DEF Recovery!Store, Recovery!Skip
  <2>3. held' = (held \cup {}) \ {"jspan"} /\ live' = Cardinality(held')
    BY <1>2, <2>1, <2>2, RefsCounted
  <2>4. QED BY <2>3
<1>5. Scoped'
  BY <1>1, <1>2, <1>4 DEF Scoped, MayHold
<1>6. AttributesInv' /\ Complete'
  BY <1>1 DEF AttributesInv, Complete
<1>7. ArrayInv'
  <2> SUFFICES ASSUME ~exception'
               PROVE  ArrayInv'
    BY DEF ArrayInv
  <2>1. /\ "spans_array" \in held'
        /\ DOMAIN spans_array = 1 .. Len(spans)
        /\ jspan = Recovery!Whole(spans[next])
    BY <1>1, <1>4 DEF ArrayInv, Complete, Recovery!this
  <2>2. PICK place \in Recovery!Places(next - 1) :
          /\ Len(place) = i - 1
          /\ {place[k] : k \in DOMAIN place} = (1 .. (next - 1)) \ refused
          /\ Recovery!HoldsSpans(spans_array, place)
    BY <1>1 DEF ArrayInv
  <2>3. DOMAIN place = 1 .. Len(place) /\ Len(place) \in Nat
    <3>1. next - 1 \in Nat
      BY <1>2
    <3>2. QED BY <2>2, <3>1, PlacesAre
  <2>4. PICK more \in Recovery!Places((next - 1) + 1) :
           /\ Len(more) = Len(place) + 1
           /\ \A k \in 1 .. Len(place) : more[k] = place[k]
           /\ more[Len(place) + 1] = (next - 1) + 1
    <3>1. next - 1 \in Nat
      BY <1>2
    <3>2. QED BY <2>2, <3>1, PlacesAppend
  <2>5. more \in Recovery!Places(next' - 1) /\ more[Len(place) + 1] = next
    <3>1. (next - 1) + 1 = next /\ next' - 1 = next
      BY <1>1, <1>2
    <3>2. QED BY <2>4, <3>1
  <2>6. DOMAIN more = 1 .. (Len(place) + 1)
    <3>1. next' - 1 \in Nat
      BY <1>1, <1>2
    <3>2. QED BY <2>4, <2>5, <3>1, PlacesAre
  <2>7. Len(more) = i' - 1
    BY <1>1, <1>2, <2>2, <2>4
  <2>8. {more[k] : k \in DOMAIN more} = (1 .. (next' - 1)) \ refused'
    <3>1. {more[k] : k \in DOMAIN more} = {place[k] : k \in DOMAIN place} \cup {next}
      BY <2>3, <2>4, <2>5, <2>6
    <3>2. (1 .. (next' - 1)) \ refused' = ((1 .. (next - 1)) \ refused) \cup {next}
      BY <1>1, <1>2
    <3>3. QED BY <2>2, <3>1, <3>2
  <2>9. /\ DOMAIN spans_array' = 1 .. Len(spans)
        /\ spans_array'[i] = jspan
        /\ \A k \in 1 .. Len(spans) : k # i => spans_array'[k] = spans_array[k]
    BY <1>1, <1>2, <2>1
  <2>10. ASSUME NEW k \in DOMAIN more
         PROVE  spans_array'[k] = Recovery!Whole(spans[more[k]])
    <3>1. CASE k \in 1 .. Len(place)
      <4>1. k \in 1 .. Len(spans) /\ k # i
        BY <1>2, <2>2, <3>1
      <4>2. spans_array[k] = Recovery!Whole(spans[place[k]])
        BY <2>2, <2>3, <3>1 DEF Recovery!HoldsSpans
      <4>3. QED BY <2>4, <2>9, <3>1, <4>1, <4>2
    <3>2. CASE k = Len(place) + 1
      <4>1. k = i
        BY <1>2, <2>2, <3>2
      <4>2. QED BY <2>1, <2>5, <2>9, <3>2, <4>1
    <3>3. QED BY <2>3, <2>6, <3>1, <3>2
  <2>11. ASSUME NEW k \in DOMAIN spans_array', k > Len(more)
         PROVE  spans_array'[k] = null
    <3>1. k \in 1 .. Len(spans) /\ k # i /\ k > Len(place)
      BY <1>2, <2>2, <2>3, <2>4, <2>9, <2>11
    <3>2. spans_array[k] = null
      BY <2>1, <2>2, <3>1 DEF Recovery!HoldsSpans
    <3>3. QED BY <2>9, <3>1, <3>2
  <2>12. Recovery!HoldsSpans(spans_array, more)'
    BY <1>1, <2>10, <2>11 DEF Recovery!HoldsSpans, Recovery!Whole, Recovery!Key, Recovery!Value
  <2>13. QED BY <1>1, <2>1, <2>5, <2>7, <2>8, <2>9, <2>12 DEF ArrayInv
<1>8. QED BY <1>3, <1>5, <1>6, <1>7

LEMMA ReturnKeeps ==
  ASSUME RecoveryInv, Recovery!Return
  PROVE  RecoveryInv'
<1> USE DEF RecoveryInv, Recovery!Return
<1>1. RecoveryTypeOK'
  BY DEF RecoveryTypeOK
<1>2. Scoped'
  BY FS_EmptySet DEF Scoped, MayHold
<1>3. ArrayInv' /\ AttributesInv' /\ Complete'
  BY DEF ArrayInv, AttributesInv, Complete
<1>4. QED BY <1>1, <1>2, <1>3

-----------------------------------------------------------------------------
(* The composition                                                         *)

LEMMA RecoveryUndisturbed ==
  ASSUME RecoveryInv, UNCHANGED recovery
  PROVE  RecoveryInv'
<1> USE DEF recovery
<1>1. RecoveryTypeOK' /\ Scoped' /\ Complete'
  BY DEF RecoveryInv, RecoveryTypeOK, Scoped, MayHold, Complete, Recovery!count, Recovery!this,
         Recovery!Whole, Recovery!Key, Recovery!Value
<1>2. ArrayInv'
  <2>1. CASE recovery_pc \in {"java", "new_array"}
    BY <2>1 DEF ArrayInv
  <2>2. CASE recovery_pc \notin {"java", "new_array"}
    BY <2>2, ArrayKept DEF RecoveryInv, RecoveryTypeOK
  <2>3. QED BY <2>1, <2>2
<1>3. AttributesInv'
  BY DEF RecoveryInv, AttributesInv, Recovery!HoldsPairs, Recovery!Key, Recovery!Value,
         Recovery!this, Recovery!count
<1>4. QED BY <1>1, <1>2, <1>3 DEF RecoveryInv

LEMMA NativeKeeps ==
  ASSUME RecoveryInv, is_initialized("g_span_cache"), Recovery!Native
  PROVE  RecoveryInv'
BY NewArrayKeeps, NewNameKeeps, NewAttributesKeeps, NewKeyKeeps, NewValueKeeps, CreateSpanKeeps,
   StoreKeeps, ReturnKeeps
   DEF Recovery!Native

LEMMA CacheStep == ASSUME CacheInv, [Next]_vars PROVE CacheInv'
<1>1. CASE UNCHANGED vars
  BY <1>1 DEF vars, CacheInv, TypeOK, HeldOnce, NoneLeaks, LocalCache, GlobalCache, CanDelete,
              Refs, is_initialized
<1>2. CASE Exited
  BY <1>1, <1>2 DEF Exited
<1>3. QED
  BY <1>1, <1>2, JNI_OnLoadKeeps, FindSpanKeeps, FindStringKeeps, GetMethodKeeps, MoveKeeps,
     DestroyLocalKeeps, RegisterPersistenceKeeps, RegisterMutableKeeps, JNI_OnUnloadKeeps,
     DestroyStaticKeeps
     DEF Next

LEMMA ClassesFound ==
  ASSUME CacheInv
  PROVE  NativesFindTheirClasses
BY NullAssumption DEF CacheInv, GlobalCache, HeldOnce, NativesFindTheirClasses, is_initialized, Cache

\* The cache is only taken away from a process in which no native method runs.
LEMMA ClassesStay ==
  ASSUME CacheInv, CallsHaveClasses, VirtualMachine
  PROVE  CallsHaveClasses'
<1> USE DEF VirtualMachine, recovery
<1> SUFFICES ASSUME recovery_pc # "java", pc' # "exited"
             PROVE  is_initialized("g_span_cache")'
  BY DEF CallsHaveClasses
<1>1. pc # "exited" /\ pc' # "unloaded"
  <2>1. pc' # "unloaded"
    OBVIOUS
  <2>2. Next => pc # "exited" \/ Exited
    BY DEF Next, JNI_OnLoad, FindSpan, FindString, CacheClass, GetMethod, Move, DestroyLocal,
           RegisterPersistence, RegisterMutable, register_natives, JNI_OnUnload, DestroyStatic
  <2>3. ~Exited
    BY DEF Exited, vars
  <2>4. QED BY <2>1, <2>2, <2>3
<1>2. is_initialized("g_span_cache")
  BY <1>1 DEF CallsHaveClasses
<1>3. cache["g_span_cache"] # Empty
  BY <1>2 DEF is_initialized, Empty
<1>4. pc \notin {"move", "unloaded"}
  BY <1>3 DEF CacheInv, GlobalCache
<1>5. cache'["g_span_cache"] = cache["g_span_cache"]
  <2>1. "span_cache" # "g_span_cache" /\ cache = [c \in Cache |-> cache[c]]
    BY DEF CacheInv, TypeOK
  <2>2. ASSUME NEW e, cache' = [cache EXCEPT !["span_cache"] = e]
        PROVE  cache'["g_span_cache"] = cache["g_span_cache"]
    BY <2>1, <2>2 DEF Cache
  <2>3. CASE JNI_OnLoad
    BY <2>1, <2>3 DEF JNI_OnLoad, Cache
  <2>4. CASE FindSpan \/ FindString
    BY <2>1, <2>4 DEF FindSpan, FindString, CacheClass, NewGlobalRef, Cache
  <2>5. CASE GetMethod
    BY <2>1, <2>5 DEF GetMethod, Cache
  <2>6. CASE DestroyLocal
    BY <2>2, <2>6 DEF DestroyLocal, release
  <2>7. CASE RegisterPersistence \/ RegisterMutable
    BY <2>7 DEF RegisterPersistence, RegisterMutable, register_natives
  <2>8. ~Move /\ ~JNI_OnUnload /\ ~DestroyStatic /\ ~Exited
    BY <1>1, <1>4 DEF Move, JNI_OnUnload, DestroyStatic, Exited
  <2>9. QED BY <2>3, <2>4, <2>5, <2>6, <2>7, <2>8 DEF Next
<1>6. QED BY <1>2, <1>5 DEF is_initialized

LEMMA LibraryInitIInv == LibraryInit => IInv
<1> SUFFICES ASSUME LibraryInit PROVE IInv
  OBVIOUS
<1> USE DEF LibraryInit, Recovery!Init
<1>1. CacheInv
  BY CacheInit
<1>2. CallsHaveClasses
  BY DEF CallsHaveClasses
<1>3. RecoveryTypeOK
  <2>1. context \in [is_recovered : BOOLEAN, recovered_spans : Recoverable \cup {<< >>}]
    OBVIOUS
  <2>2. spans = << >> /\ spans \in Seq(Span) /\ Len(spans) = 0
    OBVIOUS
  <2>3. recovery_pc = "java" /\ next = 1 /\ i = 1 /\ exception = FALSE /\ refused = {}
    OBVIOUS
  <2> HIDE DEF LibraryInit, Recovery!Init
  <2>4. next \in 1 .. (Len(spans) + 1) /\ i \in 1 .. next
    BY <2>2, <2>3
  <2>5. QED BY <2>1, <2>2, <2>3, <2>4 DEF RecoveryTypeOK
<1>4. Scoped
  BY FS_EmptySet DEF Scoped, MayHold
<1>5. ArrayInv /\ AttributesInv /\ Complete
  BY DEF ArrayInv, AttributesInv, Complete
<1>6. QED BY <1>1, <1>2, <1>3, <1>4, <1>5 DEF IInv, RecoveryInv

LEMMA LibraryStep == IInv /\ [LibraryNext]_libraryVars => IInv'
<1> SUFFICES ASSUME IInv, [LibraryNext]_libraryVars PROVE IInv'
  OBVIOUS
<1> USE DEF IInv
<1>1. ASSUME UNCHANGED vars PROVE CacheInv'
  BY <1>1, CacheStep
<1>2. CASE UNCHANGED libraryVars
  BY <1>1, <1>2, RecoveryUndisturbed DEF libraryVars, CallsHaveClasses, is_initialized, vars, recovery
<1>3. CASE VirtualMachine
  <2>1. CacheInv'
    BY <1>3, CacheStep DEF VirtualMachine
  <2>2. CallsHaveClasses'
    BY <1>3, ClassesStay
  <2>3. RecoveryInv'
    BY <1>3, RecoveryUndisturbed DEF VirtualMachine
  <2>4. QED BY <2>1, <2>2, <2>3
<1>4. CASE JavaCalls
  <2>1. CacheInv' /\ RecoveryInv'
    BY <1>1, <1>4, CallKeeps DEF JavaCalls
  <2>2. is_initialized("g_span_cache")
    BY <1>4, ClassesFound DEF JavaCalls, NativesFindTheirClasses
  <2>3. CallsHaveClasses'
    BY <1>4, <2>2 DEF JavaCalls, CallsHaveClasses, is_initialized, vars
  <2>4. QED BY <2>1, <2>3
<1>5. CASE NativeMethod
  <2>1. recovery_pc # "java"
    BY <1>5 DEF NativeMethod, Recovery!Native, Recovery!NewArray, Recovery!NewName,
                Recovery!NewAttributes, Recovery!NewKey, Recovery!NewValue, Recovery!CreateSpan,
                Recovery!Store, Recovery!Return, Recovery!Returning
  <2>2. is_initialized("g_span_cache")
    BY <1>5, <2>1 DEF NativeMethod, CallsHaveClasses
  <2>3. CacheInv' /\ RecoveryInv'
    BY <1>1, <1>5, <2>2, NativeKeeps DEF NativeMethod
  <2>4. CallsHaveClasses'
    BY <1>5, <2>2 DEF NativeMethod, CallsHaveClasses, is_initialized, vars
  <2>5. QED BY <2>3, <2>4
<1>6. QED BY <1>2, <1>3, <1>4, <1>5 DEF LibraryNext

LEMMA LibraryInvariant == LibrarySpec => []IInv
<1>1. QED BY LibraryInitIInv, LibraryStep, PTL DEF LibrarySpec

-----------------------------------------------------------------------------
(* Theorems                                                                *)

\* Every variable of the virtual machine's and of a recovery stays in its
\* range, however many spans and global references there are.
THEOREM TypeCorrect == LibrarySpec => [](TypeOK /\ Recovery!TypeOK)
<1>1. IInv => TypeOK
  BY DEF IInv, CacheInv
<1>2. IInv => Recovery!TypeOK
  <2> SUFFICES ASSUME IInv PROVE Recovery!TypeOK
    OBVIOUS
  <2>1. RecoveryTypeOK /\ Scoped /\ AttributesInv
    BY DEF IInv, RecoveryInv
  <2>2. held \subseteq Recovery!Variable
    BY <2>1 DEF RecoveryTypeOK, Scoped, MayHold, Recovery!Variable
  <2>3. live \in Nat
    BY <2>1, <2>2, VariablesFinite, FS_Subset, FS_CardinalityType DEF Scoped
  <2>4. recovery_pc \in {"attribute", "value"} =>
          attribute \in 1 .. (Recovery!count + 1) /\ index \in 0 .. 2 * Recovery!count
    <3> SUFFICES ASSUME recovery_pc \in {"attribute", "value"}
                 PROVE  attribute \in 1 .. (Recovery!count + 1) /\ index \in 0 .. 2 * Recovery!count
      OBVIOUS
    <3>1. attribute \in 1 .. (Recovery!count + 1) /\ Recovery!count \in Nat
      BY <2>1, SpanAtNext DEF AttributesInv, RecoveryTypeOK
    <3>2. PICK place \in Recovery!Places(attribute - 1) : index = 2 * Len(place)
      BY <2>1 DEF AttributesInv
    <3>3. Len(place) \in 0 .. (attribute - 1)
      BY <3>1, <3>2, PlacesAre
    <3>4. QED BY <3>1, <3>2, <3>3
  <2>5. QED BY <2>1, <2>2, <2>3, <2>4 DEF RecoveryTypeOK, Recovery!TypeOK
<1>3. QED BY <1>1, <1>2, LibraryInvariant, PTL

\* No global reference is held by two caches or after it was deleted, whichever
\* calls failed (span_jclass_cache.cpp:66, 75, 106).
THEOREM ReferencesHeldOnce == LibrarySpec => []HeldOnce
<1>1. IInv => HeldOnce
  BY DEF IInv, CacheInv
<1>2. QED BY <1>1, LibraryInvariant, PTL

\* No global reference is left without a cache that will delete it
\* (android_span_data.cpp:79, 315).
THEOREM ReferencesNeverLeak == LibrarySpec => []NoneLeaks
<1>1. IInv => NoneLeaks
  BY DEF IInv, CacheInv
<1>2. QED BY <1>1, LibraryInvariant, PTL

\* A registered native method finds the cache complete and its classes alive
\* (android_span_data.cpp:82, 277, 287).
THEOREM NativesHaveClasses == LibrarySpec => []NativesFindTheirClasses
<1>1. IInv => NativesFindTheirClasses
  BY ClassesFound DEF IInv
<1>2. QED BY <1>1, LibraryInvariant, PTL

\* The local references of a recovery are those its variables hold, and between
\* two spans only the array's, for any number of spans
\* (android_span_data.cpp:91-122, 163, managed_local_ref.h:30).
THEOREM LocalReferencesAreScoped == LibrarySpec => []RefsAreScoped
<1>1. IInv => RefsAreScoped
  BY SameCardinality DEF IInv, RecoveryInv, Scoped, MayHold, RefsAreScoped, Recovery!RefsAreScoped
<1>2. QED BY <1>1, LibraryInvariant, PTL

\* createRecoveredSpan gets keys with their own values, in order, whichever
\* strings could not be created (android_span_data.cpp:109).
THEOREM PairsStayTogether == LibrarySpec => []FactorySeesPairs
<1>1. IInv => FactorySeesPairs
  BY DEF IInv, RecoveryInv, AttributesInv, FactorySeesPairs, Recovery!FactorySeesPairs
<1>2. QED BY <1>1, LibraryInvariant, PTL

\* An array that reaches Java lacks no span but those createRecoveredSpan
\* refused, and no attribute of one, whatever failed when the library was loaded
\* and in the call (android_span_data.cpp:82, 92, 101, 109, 151, 163).
THEOREM RecoveryIsWhole == LibrarySpec => []ArrivesWhole
<1>1. IInv => ArrivesWhole
  <2> SUFFICES ASSUME IInv, Recovery!Returning, ~exception
               PROVE  Recovery!ArrivesWhole
    BY DEF ArrivesWhole, Recovery!ArrivesWhole
  <2>1. RecoveryTypeOK /\ ArrayInv /\ recovery_pc = "span" /\ next > Len(spans)
    BY DEF IInv, RecoveryInv, Recovery!Returning
  <2>2. next - 1 = Len(spans) /\ DOMAIN spans = 1 .. (next - 1)
    BY <2>1 DEF RecoveryTypeOK
  <2>3. QED BY <2>1, <2>2 DEF ArrayInv, Recovery!ArrivesWhole
<1>2. QED BY <1>1, LibraryInvariant, PTL

-----------------------------------------------------------------------------
(* How long a recovery takes, whatever fails in it                         *)

\* The spans the loop has yet to come to, and the return.
SpansLeft == IF recovery_pc = "java" THEN 0 ELSE Len(spans) + 2 - next

AttributesHere == IF next <= Len(spans) THEN Recovery!count ELSE 0

\* The steps the span at next may still take.
StepsLeft ==
  IF recovery_pc = "new_array" THEN 2 * AttributesHere + 4
  ELSE IF recovery_pc = "span" THEN 2 * AttributesHere + 3
  ELSE IF recovery_pc = "attributes" THEN 2 * AttributesHere + 2
  ELSE IF recovery_pc = "attribute" THEN 2 * (AttributesHere + 1 - attribute) + 1
  ELSE IF recovery_pc = "value" THEN 2 * (AttributesHere + 1 - attribute)
  ELSE 0

LEMMA LeftAreNat ==
  ASSUME RecoveryInv
  PROVE  SpansLeft \in Nat /\ StepsLeft \in Nat /\ AttributesHere \in Nat
<1> USE DEF RecoveryInv
<1>1. Len(spans) \in Nat /\ next \in 1 .. (Len(spans) + 1)
  BY DEF RecoveryTypeOK
<1>2. SpansLeft \in Nat
  BY <1>1 DEF SpansLeft
<1>3. AttributesHere \in Nat
  BY SpanAtNext DEF AttributesHere
<1>4. recovery_pc \in {"attribute", "value"} => attribute \in 1 .. (AttributesHere + 1)
  BY DEF RecoveryTypeOK, AttributesInv, AttributesHere
<1>5. StepsLeft \in Nat
  BY <1>3, <1>4 DEF StepsLeft
<1> QED
  BY <1>2, <1>3, <1>5

\* A span that is left, for the next one or for the return.
LEMMA LeavesSpan ==
  ASSUME RecoveryInv, recovery_pc # "java",
         \/ recovery_pc' # "java" /\ spans' = spans /\ next' = next + 1
         \/ recovery_pc' = "java" /\ next = Len(spans) + 1
  PROVE  SpansLeft' < SpansLeft
<1>1. Len(spans) \in Nat /\ next \in 1 .. (Len(spans) + 1)
  BY DEF RecoveryInv, RecoveryTypeOK
<1> QED
  BY <1>1 DEF SpansLeft

LEMMA StaysAtSpan ==
  ASSUME UNCHANGED <<spans, next>>, recovery_pc # "java", recovery_pc' # "java"
  PROVE  SpansLeft' = SpansLeft /\ AttributesHere' = AttributesHere
BY DEF SpansLeft, AttributesHere, Recovery!count, Recovery!this

LEMMA NativeTakesAStep ==
  ASSUME RecoveryInv, Recovery!Native
  PROVE  SpansLeft' < SpansLeft \/ (SpansLeft' = SpansLeft /\ StepsLeft' < StepsLeft)
<1>1. AttributesHere \in Nat
  BY LeftAreNat
<1>2. Len(spans) \in Nat /\ next \in 1 .. (Len(spans) + 1)
  BY DEF RecoveryInv, RecoveryTypeOK
<1>3. recovery_pc \in {"attribute", "value"} =>
        next <= Len(spans) /\ attribute \in 1 .. (AttributesHere + 1)
        /\ AttributesHere = Recovery!count
  BY DEF RecoveryInv, RecoveryTypeOK, AttributesInv, AttributesHere
<1>4. CASE Recovery!NewArray
  <2>1. /\ recovery_pc = "new_array" /\ recovery_pc' = "span" /\ spans' = spans
        /\ next' = next \/ next' = Len(spans) + 1
    BY <1>4 DEF Recovery!NewArray
  <2>2. CASE next' = next
    <3>1. SpansLeft' = SpansLeft /\ AttributesHere' = AttributesHere
      BY <2>1, <2>2, StaysAtSpan
    <3>2. StepsLeft = 2 * AttributesHere + 4 /\ StepsLeft' = 2 * AttributesHere' + 3
      BY <2>1 DEF StepsLeft
    <3> QED
      BY <1>1, <3>1, <3>2
  <2>3. CASE next' # next
    BY <1>2, <2>1, <2>3 DEF SpansLeft
  <2> QED
    BY <2>2, <2>3
<1>5. CASE Recovery!NewName
  <2>1. /\ recovery_pc = "span" /\ spans' = spans
        /\ \/ recovery_pc' = "attributes" /\ next' = next
           \/ recovery_pc' = "span" /\ next' = next + 1
    BY <1>5 DEF Recovery!NewName, Recovery!Skip
  <2>2. CASE recovery_pc' = "attributes" /\ next' = next
    <3>1. SpansLeft' = SpansLeft /\ AttributesHere' = AttributesHere
      BY <2>1, <2>2, StaysAtSpan
    <3>2. StepsLeft = 2 * AttributesHere + 3 /\ StepsLeft' = 2 * AttributesHere' + 2
      BY <2>1, <2>2 DEF StepsLeft
    <3> QED
      BY <1>1, <3>1, <3>2
  <2> QED
    BY <2>1, <2>2, LeavesSpan
<1>6. CASE Recovery!NewAttributes
  <2>1. /\ recovery_pc = "attributes" /\ spans' = spans
        /\ \/ recovery_pc' = "attribute" /\ next' = next /\ attribute' = 1
           \/ recovery_pc' = "span" /\ next' = next + 1
    BY <1>6 DEF Recovery!NewAttributes, Recovery!Skip
  <2>2. CASE recovery_pc' = "attribute" /\ next' = next /\ attribute' = 1
    <3>1. SpansLeft' = SpansLeft /\ AttributesHere' = AttributesHere
      BY <2>1, <2>2, StaysAtSpan
    <3>2. StepsLeft = 2 * AttributesHere + 2
          /\ StepsLeft' = 2 * (AttributesHere' + 1 - attribute') + 1
      BY <2>1, <2>2 DEF StepsLeft
    <3> QED
      BY <1>1, <2>2, <3>1, <3>2
  <2> QED
    BY <2>1, <2>2, LeavesSpan
<1>7. CASE Recovery!NewKey
  <2>1. /\ recovery_pc = "attribute" /\ recovery_pc' = "value"
        /\ UNCHANGED <<spans, next, attribute>>
    BY <1>7 DEF Recovery!NewKey, Recovery!call
  <2>2. SpansLeft' = SpansLeft /\ AttributesHere' = AttributesHere
    BY <2>1, StaysAtSpan
  <2>3. StepsLeft = 2 * (AttributesHere + 1 - attribute) + 1
        /\ StepsLeft' = 2 * (AttributesHere' + 1 - attribute')
    BY <2>1 DEF StepsLeft
  <2> QED
    BY <1>1, <1>3, <2>1, <2>2, <2>3
<1>8. CASE Recovery!NewValue
  <2>1. /\ recovery_pc = "value" /\ recovery_pc' = "attribute"
        /\ UNCHANGED <<spans, next>> /\ attribute' = attribute + 1
    BY <1>8 DEF Recovery!NewValue
  <2>2. SpansLeft' = SpansLeft /\ AttributesHere' = AttributesHere
    BY <2>1, StaysAtSpan
  <2>3. StepsLeft = 2 * (AttributesHere + 1 - attribute)
        /\ StepsLeft' = 2 * (AttributesHere' + 1 - attribute') + 1
    BY <2>1 DEF StepsLeft
  <2>4. StepsLeft' = 2 * (AttributesHere + 1 - (attribute + 1)) + 1
    BY <2>1, <2>2, <2>3
  <2>5. attribute \in Nat
    BY <1>1, <1>3, <2>1
  <2>6. StepsLeft' < StepsLeft
    BY <1>1, <2>3, <2>4, <2>5
  <2> QED
    BY <2>2, <2>6
<1>9. CASE Recovery!CreateSpan
  <2>1. /\ recovery_pc = "attribute" /\ spans' = spans /\ attribute > Recovery!count
        /\ \/ recovery_pc' = "store" /\ next' = next
           \/ recovery_pc' = "span" /\ next' = next + 1
    BY <1>9 DEF Recovery!CreateSpan, Recovery!Skip
  <2>2. CASE recovery_pc' = "store" /\ next' = next
    <3>1. SpansLeft' = SpansLeft
      BY <2>1, <2>2, StaysAtSpan
    <3>2. StepsLeft = 2 * (AttributesHere + 1 - attribute) + 1 /\ StepsLeft' = 0
      BY <2>1, <2>2 DEF StepsLeft
    <3> QED
      BY <1>1, <1>3, <2>1, <3>1, <3>2
  <2> QED
    BY <2>1, <2>2, LeavesSpan
<1>10. CASE Recovery!Store
  BY <1>10, LeavesSpan DEF Recovery!Store, Recovery!Skip
<1>11. CASE Recovery!Return
  BY <1>2, <1>11, LeavesSpan DEF Recovery!Return, Recovery!Returning
<1> QED
  BY <1>4, <1>5, <1>6, <1>7, <1>8, <1>9, <1>10, <1>11 DEF Recovery!Native

\* recover_spans_native comes to its return, however many calls fail: every
\* step of it, those after a failure included, either leaves fewer spans, or
\* leaves as many and has fewer steps to take in this one
\* (android_span_data.cpp:105, 162).
THEOREM RecoveryEnds ==
  LibrarySpec =>
    [][NativeMethod =>
         /\ SpansLeft \in Nat /\ StepsLeft \in Nat
         /\ \/ SpansLeft' < SpansLeft
            \/ SpansLeft' = SpansLeft /\ StepsLeft' < StepsLeft]_libraryVars
<1>1. ASSUME IInv, NativeMethod
      PROVE  /\ SpansLeft \in Nat /\ StepsLeft \in Nat
             /\ \/ SpansLeft' < SpansLeft
                \/ SpansLeft' = SpansLeft /\ StepsLeft' < StepsLeft
  <2>1. RecoveryInv /\ Recovery!Native
    BY <1>1 DEF IInv, NativeMethod
  <2> QED
    BY <2>1, LeftAreNat, NativeTakesAStep
<1>2. IInv /\ [LibraryNext]_libraryVars =>
        [NativeMethod =>
           /\ SpansLeft \in Nat /\ StepsLeft \in Nat
           /\ \/ SpansLeft' < SpansLeft
              \/ SpansLeft' = SpansLeft /\ StepsLeft' < StepsLeft]_libraryVars
  BY <1>1
<1> QED
  BY <1>2, LibraryInvariant, PTL DEF LibrarySpec
=============================================================================

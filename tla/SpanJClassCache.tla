--------------------------- MODULE SpanJClassCache ---------------------------
(***************************************************************************)
(* The cache of JNI global references: it is filled into a local variable  *)
(* when the library is loaded, moved into g_span_cache, released when the  *)
(* library is unloaded and destroyed with the library's static variables.  *)
(* Every JNI call may fail.                                                *)
(*                                                                         *)
(* The virtual machine is modelled as Android's: a library whose           *)
(* JNI_OnLoad failed stays mapped and is not loaded again.                 *)
(***************************************************************************)
CONSTANTS
  Ref,          \* the entries of the table of global references
  nullptr

ASSUME NullAssumption == nullptr \notin Ref \cup {"Span", "String"}

VARIABLES
  globals,      \* the class each global reference refers to, nullptr if deleted
  cache,        \* the two SpanJClassCache
  registered,   \* the Java classes whose native methods are bound to the library
  pc

vars == <<globals, cache, registered, pc>>

Cache == {"span_cache", "g_span_cache"}
JClass == {"Span", "String"}
Empty == [vm_ |-> FALSE, span_class_ |-> nullptr, string_class_ |-> nullptr,
          span_create_ |-> FALSE]

TypeOK ==
  /\ globals \in [Ref -> JClass \cup {nullptr}]
  /\ cache \in [Cache -> [vm_ : BOOLEAN, span_class_ : Ref \cup {nullptr},
                          string_class_ : Ref \cup {nullptr}, span_create_ : BOOLEAN]]
  /\ registered \subseteq {"PersistenceContext", "MutationContext"}
  /\ pc \in {"not_loaded", "find_span", "find_string", "get_method", "move", "destroy",
             "register_persistence", "register_mutable", "loaded", "failed", "unloaded",
             "exited"}

Init == /\ globals = [r \in Ref |-> nullptr]
        /\ cache = [c \in Cache |-> Empty]
        /\ registered = {}
        /\ pc = "not_loaded"

-----------------------------------------------------------------------------
is_initialized(c) == /\ cache[c].vm_
                     /\ cache[c].span_class_ # nullptr
                     /\ cache[c].string_class_ # nullptr
                     /\ cache[c].span_create_

Refs(c) == {cache[c].span_class_, cache[c].string_class_} \ {nullptr}

\* The table after c deleted its references, where GetEnv finds an environment.
AfterRelease(c, has_env) ==
  [r \in Ref |-> IF r \in Refs(c) /\ cache[c].vm_ /\ has_env THEN nullptr ELSE globals[r]]

\* Mutant of release: the deleted references stay in the cache.
ReleaseKeepsRefs(c, has_env) ==
  /\ globals' = AfterRelease(c, has_env)
  /\ UNCHANGED cache

release(c, has_env) ==
  /\ globals' = AfterRelease(c, has_env)
  /\ cache' = [cache EXCEPT ![c] = Empty]

\* NewGlobalRef: a free entry of the table, or nullptr.
NewGlobalRef(class, field) ==
  \/ \E r \in Ref :
       /\ globals[r] = nullptr
       /\ globals' = [globals EXCEPT ![r] = class]
       /\ cache' = [cache EXCEPT !["span_cache"][field] = r]
  \/ UNCHANGED <<globals, cache>>

-----------------------------------------------------------------------------
(* JNI_OnLoad                                                              *)

\* GetEnv, and GetJavaVM in the constructor of span_cache.
JNI_OnLoad ==
  /\ pc = "not_loaded"
  /\ \/ /\ pc' = "failed"
        /\ UNCHANGED cache
     \/ /\ pc' = "move"
        /\ UNCHANGED cache
     \/ /\ pc' = "find_span"
        /\ cache' = [cache EXCEPT !["span_cache"].vm_ = TRUE]
  /\ UNCHANGED <<globals, registered>>

\* FindClass, NewGlobalRef and DeleteLocalRef, for each of the two classes.
CacheClass(from, class, field, to) ==
  /\ pc = from
  /\ \/ NewGlobalRef(class, field) /\ pc' = to
     \/ UNCHANGED <<globals, cache>> /\ pc' = "move"
  /\ UNCHANGED registered

FindSpan == CacheClass("find_span", "Span", "span_class_", "find_string")
FindString == CacheClass("find_string", "String", "string_class_", "get_method")

\* JNI leaves undefined what GetStaticMethodID does without a class: it may
\* find nothing, or abort the process.
GetMethod ==
  /\ pc = "get_method"
  /\ \/ /\ cache["span_cache"].span_class_ # nullptr
        /\ cache' = [cache EXCEPT !["span_cache"].span_create_ = TRUE]
        /\ pc' = "move"
     \/ UNCHANGED cache /\ pc' = "move"
     \/ cache["span_cache"].span_class_ = nullptr /\ pc' = "exited" /\ UNCHANGED cache
  /\ UNCHANGED <<globals, registered>>

\* Mutant of MoveAssign: the other cache keeps its references.
MoveAssignCopies ==
  /\ globals' = AfterRelease("g_span_cache", TRUE)
  /\ cache' = [cache EXCEPT !["g_span_cache"] = cache["span_cache"]]

\* g_span_cache = std::move(span_cache)
MoveAssign ==
  /\ globals' = AfterRelease("g_span_cache", TRUE)
  /\ cache' = [cache EXCEPT !["g_span_cache"] = cache["span_cache"],
                            !["span_cache"] = Empty]

Move ==
  /\ pc = "move"
  /\ IF is_initialized("span_cache") THEN MoveAssign ELSE UNCHANGED <<globals, cache>>
  /\ pc' = "destroy"
  /\ UNCHANGED registered

\* Mutant of DestroyLocal: no destructor.
DestroyNothing ==
  /\ pc = "destroy"
  /\ cache' = [cache EXCEPT !["span_cache"] = Empty]
  /\ pc' = IF is_initialized("g_span_cache") THEN "register_persistence" ELSE "failed"
  /\ UNCHANGED <<globals, registered>>

\* The end of cache_jni_globals, and of the life of span_cache.
DestroyLocal ==
  /\ pc = "destroy"
  /\ release("span_cache", TRUE)
  /\ pc' = IF is_initialized("g_span_cache") THEN "register_persistence" ELSE "failed"
  /\ UNCHANGED registered

\* FindClass, RegisterNatives and DeleteLocalRef, for each of the two classes.
register_natives(from, class, to) ==
  /\ pc = from
  /\ \/ registered' = registered \cup {class} /\ pc' = to
     \/ UNCHANGED registered /\ pc' = "failed"
  /\ UNCHANGED <<globals, cache>>

RegisterPersistence ==
  register_natives("register_persistence", "PersistenceContext", "register_mutable")
RegisterMutable == register_natives("register_mutable", "MutationContext", "loaded")

-----------------------------------------------------------------------------
(* The end of the library                                                  *)

\* The virtual machine calls it once the Java classes are gone.
JNI_OnUnload ==
  /\ pc = "loaded"
  /\ release("g_span_cache", TRUE)
  /\ registered' = {}
  /\ pc' = "unloaded"

\* The destructor of g_span_cache: with the library, when it may be loaded
\* again, or with the process, on a thread that may be attached to a virtual
\* machine or not.
DestroyStatic ==
  /\ \/ pc = "unloaded" /\ pc' = "not_loaded"
     \/ pc \in {"not_loaded", "loaded", "failed", "unloaded"} /\ pc' = "exited"
  /\ \E has_env \in BOOLEAN : release("g_span_cache", has_env)
  /\ registered' = {}

Exited == pc = "exited" /\ UNCHANGED vars

Next ==
  \/ JNI_OnLoad \/ FindSpan \/ FindString \/ GetMethod \/ Move \/ DestroyLocal
  \/ RegisterPersistence \/ RegisterMutable
  \/ JNI_OnUnload \/ DestroyStatic \/ Exited

Spec == Init /\ [][Next]_vars

-----------------------------------------------------------------------------
(* Properties                                                              *)

\* What a cache holds is a reference that exists, to the class it was made for,
\* and no two caches hold the same one: release, which a moved cache, an
\* unloaded library and an exiting process all come to, deletes none twice
\* (span_jclass_cache.cpp:66, 75, 106).
HeldOnce ==
  /\ \A c \in Cache : /\ cache[c].span_class_ \in {r \in Ref : globals[r] = "Span"} \cup {nullptr}
                      /\ cache[c].string_class_ \in {r \in Ref : globals[r] = "String"} \cup {nullptr}
  /\ Refs("span_cache") \cap Refs("g_span_cache") = {}

\* No reference leaks while there is a virtual machine: a cache with the means
\* to delete it holds it, however many of the calls that fill it failed
\* (android_span_data.cpp:79, 315).
NoneLeaks ==
  pc # "exited" =>
    \A r \in Ref : globals[r] # nullptr => \E c \in Cache : r \in Refs(c) /\ cache[c].vm_

\* A native method that Java can call finds the cache complete and its classes
\* alive, even if the library failed to load after its first class was
\* registered (android_span_data.cpp:82, 277, 287).
NativesFindTheirClasses ==
  registered # {} =>
    /\ is_initialized("g_span_cache")
    /\ globals[cache["g_span_cache"].span_class_] = "Span"
    /\ globals[cache["g_span_cache"].string_class_] = "String"
=============================================================================

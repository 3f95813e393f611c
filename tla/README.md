# A verification of firebase-telemetry-persistence

The library keeps the telemetry spans of an app in a memory-mapped file, so that
the next process can recover the spans that were active when the app died. These
TLA+ modules model the code at one commit; TLC checks them on small instances,
and TLAPS proves all their safety properties and refinements for every value of the
constants; those of `Initialize` for every order of the header's stores that zeroes the
count before it names a layout, as the source does.
Paths below are relative to the repository; `.../` stands for
`include/firebase/telemetry/persistence/`.

## The system

| Component | State | Operations | What makes it correct |
|---|---|---|---|
| `RawSpanData` (`.../detail/raw_span_data.h`) | in the file: `active_span_count`, and a mark and a span per slot; in the process: `mark_counter_` | `add`, `remove`, `set_end_time`, `set_attribute_on_span`, `remove_all` | whatever store a process dies at, the next one recovers whole spans and none is lost that was not being removed |
| `MutableSpanData` (`src/mutable_span_data.cpp`) | `span_id_to_index_` | `add` (evicting the oldest span of a full store), `end`, `remove`, `set_attribute_on_span` | the map finds each span where removals have moved it; a bounded first-in first-out buffer |
| `initialize_span_data`, `Context` (`src/initialize.cpp`, `src/header.cpp`, `src/recovered_span_data.cpp`) | the file and its header; `recovered_spans_`, `is_recovered_` | open, recover, resize, reset, clear; `get_recovered_spans`, `get_mutable_span_data`, `release_span_data` | spans are read under the layout they were written with, handed over at most once, not lost by a failure; a context starts clean |
| Attributes (`raw_span_data.h:125`, `.../span.h:113`) | `attr_count`, key and value arrays | `to_raw_span`, `set_attribute_on_span`, `Span(raw_span)` | a bounded map from truncated keys to values |
| Strings (`.../detail/copy_string.h`, `.../android/detail/managed_jstring.h`) | the array copied to | `copy_string`, `copy_string2`, `get_utf8_length`, `key_equals`, `jstring_to_string` | terminated and unmixed at every byte, truncated to whole characters, keys found again |
| `SpanDataImpl` (`src/span_data_impl.cpp`) | which of the three layouts | dispatch | the layout is the header's |
| `ManagedMmap` (`.../detail/managed_mmap.h`) | a pointer and a size; the kernel's mappings | construct, move and convert, assign, destroy | each mapping has one owner and is unmapped once, with its own size |
| JNI functions (`src/android/android_span_data.cpp`) | handles to contexts, a pending exception | the operations above, for Kotlin; load and unload | an array that reaches Java lacks no span and no attribute; a registered method finds its classes |
| `SpanJClassCache`, `ManagedLocalRef` (`src/android/span_jclass_cache.cpp`) | global and local references | create, move, release | each released once; local references do not pile up |
| `Entry` | a tag and a size | `read_entry` | unused by the rest so far |

`initialize_span_data` maps the file, reads the spans through
`RecoveredSpanData`, keeps the mapping or resizes the file and resets the header,
and builds a `Context`, whose constructor clears the store. The application takes
the recovered spans once and only then gets its `MutableSpanData`, whose calls
reach the mapped slots through `SpanDataImpl` and `RawSpanData`. There is no
daemon, no lock and no explicit flush: the file is the mapped memory, so what
survives the death of a process is what it had stored.

What is hard here: a process may die between any two stores of an operation; a
removal moves the last span into the freed slot, so slots are neither stable nor
in the order of insertion; the file may have any size and layout that processes
before left, interrupted or not; system calls fail half way; strings are
truncated twice. `PROJECT.json` lists these hazards at their lines, each with the
properties that cover it or the reason why none does.

## The modules

| Module | What it is |
|---|---|
| `RawSpanData` | the slots, one store into the mapping per step |
| `SpanSet` | what they promise: a set of whole spans that changes in single steps |
| `MutableSpanData` | the application's calls, the id map and eviction, on an instance of `RawSpanData` |
| `SpanBuffer` | what they promise: a bounded first-in first-out buffer |
| `Initialize` | the file between processes: recovery, resizing, reset, clearing, hand-over |
| `CopyString` | the copying, truncation and comparison of strings, byte by byte |
| `AttributeStore` | the attributes of one span, part of a string by part |
| `SpanAttributes` | what they promise: a bounded map |
| `InitializeFair` | `Initialize` with fairness: what must happen once nothing fails any more |
| `SharedFile` | several contexts over one file, each with its own map |
| `ManagedMmap` | the owners of mappings under an arbitrary client |
| `ContextMapping` | one process' mapping and descriptor through `initialize_span_data`, on an instance of `ManagedMmap` |
| `SpanJClassCache` | the global references through load, move, unload and exit |
| `AndroidRecovery` | `recover_spans_native`, JNI call by JNI call |
| `AndroidLibrary` | the two composed: the virtual machine loads the library and Java calls it |
| `MC*` | the instances for TLC |
| `*_proofs` | the theorems, one module per module they are about; `Attributes_proofs` is about `CopyString` and `AttributeStore` |

Operators whose comment starts with "Mutant" are not part of the specifications:
each is a definition with a plausible bug, for which TLC finds the property
violated that `PROJECT.json` pairs it with.

### RawSpanData

The variables are the count, the marks and the spans (in the file), and the
locals of the operation under way. `pc` names the next store. A span is four
words: its id, its end time, its attributes, and `body`, which stands for all the
rest and identifies the span it was written with, so that a slot under a `memcpy`
may hold words of two spans; the words are copied in any order.
`set_attribute_on_span` is one step here; `AttributeStore` has its stores.
`Crash` may follow any store and keeps the file; `release_span_data` in the
middle of nothing looks the same. The next process' `remove_all` is modelled
store by store too, and may be interrupted in turn.

Assertions are compiled out in release builds, so the operations do not check
their preconditions; `MayAdd` and `Active` state them, and `KeepsRawContract`
below shows that the only caller respects them.

The stores are taken in the order of the source, here and in `Initialize`. They are
plain stores, and what a compiler may make of them is not modelled; the constant
`reset_order` of `Initialize`, which is the source's order in the runs, lets the
theorems say which orders of the four stores of `reset_header` would do. The models
say nothing of a power loss, where pages reach the disk in an order of their own.

### MutableSpanData

Looking up the map, scanning the marks and updating the map happen in the memory
of the process, so each is part of the step of the store next to it: no crash can
tell. `AddWhenFull` starts the removal of the oldest span, `EvictReturns` updates
the map, `AddAfterEvict` goes on with the add. Calls with an id that `add` knows
already, or that `remove`, `end` and `set_attribute_on_span` do not know, do nothing and are
no steps.

### Initialize

One action per system call and per store of `reset_header`; `SystemCallFails` is
every early return of `nullptr` that can come after something was read or
changed. The file is an array of words, and a word remembers the span, the layout
and the position it was written for, so that words read under another layout, or
zeros where a span was cut off, show. Adding a span is one step here.

`InitializeFair` adds the variable `undisturbed`. While it is false, system calls
fail, processes die and contexts are released with their recovered spans, as
often as they like; once it is true, none of that happens any more, and the fair
actions go on.

### ManagedMmap and ContextMapping

In `ManagedMmap` the kernel's table of mappings is `mapped`, and an object is its
type, its pointer and its size. `Construct`, `MoveConstruct`, `ConvertConstruct`,
`MoveAssign`, `ConvertAssign` and `Destroy` are the members of the class, and the
client is arbitrary: any object may be moved into any other, also into itself,
and the kernel may place a mapping where an earlier one was.

`ContextMapping` is the one client there is. Its `pc` is the place in
`initialize_span_data`, and its objects are the variables the mapping passes
through: the local `header`, the by-value parameters of `SpanDataImpl`, the
alternative of the `variant` that the header names, `temp_impl`,
`span_data_impl`, the argument and the member of the `Context`. Every scope that
ends is a step that destroys its object. Of the file it keeps the size, the
layout in the header, and whether there is anything to recover; `Initialize` has
the rest.

### SharedFile

The tests open several contexts over one file (`tests/initialize_tests.cpp:449`,
`:470`). Each has its own map and mark counter, and is not told when another
initialization clears the file. A call is one step, and assertions are on, as in the
build the tests run; one that fails ends the process. With `NDEBUG` the same calls go
on into slots that are not theirs, which is not modelled.

Each initialization asks for a size of its own, as the first of these tests does: it
resizes the file and names its layout in the header (`mmap_size`), and a context opened
before keeps the layout it asked for (`layout`). While the two agree (`Fits`), its
calls are followed slot by slot. A call on a context that does not fit
(`MisplacedCall`) reads and writes where its own layout has slots; a slot of the
medium layout is nearly four times one of the small layout. It may die of any
assertion, or of an access past the end of a file that became smaller, or return; the
file is then `garbled`, and its
words are not followed until an initialization has cleared them. That one may recover
any of the spans, or die of what it reads (`DiesRecovering`). This allows more than
the bytes would: a garbled file is a place where nothing is promised, not a
prediction of what is in it.

### SpanJClassCache, AndroidRecovery and AndroidLibrary

`SpanJClassCache` has the table of global references, the local `span_cache` of
`cache_jni_globals` and `g_span_cache`. Every JNI call may fail, the library may
be unloaded and loaded again, and the process may exit on a thread with or
without an environment. Without a class, `GetStaticMethodID` finds nothing or
aborts the process: JNI leaves it open.

`AndroidRecovery` takes the spans from the context and makes Java objects of
them. A JNI call that fails leaves an exception pending, and the code goes on
making calls; those may succeed as well as fail. `LocalRefs` is the work of the
`ManagedLocalRef` variables: which take a reference, and which go out of scope.

`AndroidLibrary` puts the second on the first: Java may call as soon as
`PersistenceContext` is registered, also when loading fails after that, and the
method reads `g_span_cache`. A library is not unloaded under a running method.

### CopyString and AttributeStore

`CopyString` stores single bytes, in any order within the `memset` and within the
`memcpy`. Strings are sequences of characters, and a character is its bytes in
UTF-8, of which all but the first are continuation bytes; in the runs it has one to
three. No byte is NUL: whoever reads the array takes a string to be over there, so
that of a string with a NUL inside what follows is lost. Strings come
straight from the application or through `jstring_to_string`, which cuts them at
64 (or 128) bytes before `copy_string` truncates them for arrays of 64 (or 128).

`AttributeStore` keeps of a string whether it is empty, complete or cut, and of
truncation that different keys may be stored alike; that `key_equals` finds
exactly those is `KeyIsFound` of `CopyString`. `SetsAnAttribute` puts the first on the
second: a span with one attribute, whose value is the array. What can be read from
the array (`Reads`) is empty, a part or the whole of what is kept; the store of the
first byte by the `memset` is `zero_value`, the last byte the `memcpy` stores completes the
value, and the others cut it or change nothing. Spans are made with attribute lists
whose keys are stored distinct: the code does not check this, and a list with a
duplicate key keeps both entries, of which `set_attribute_on_span` replaces the
first.

## What the runs show

| Run | Instance | States | Properties |
|---|---|---|---|
| `raw_span_data` | 3 slots, 4 ids, 1 end time, 1 list of attributes, 4 adds per process | 155,873 | `TypeOK`, `MarkedWhole`, `AtMostOneDuplicate`, `Quiescent`, `OnlyRemovedSpansDisappear`, `ImplementsSpanSet` |
| `mutable_span_data` | the same with 5 adds per process | 567,794 | `IndexFindsItsSpan`, `OldestIsEvicted`, `KeepsRawContract`, `ImplementsSpanBuffer` |
| `initialize` | a layout of 1 slot of 2 words, one of 2 slots of 4; pages of 4 words; 3 spans | 247,962 | `TypeOK`, `ReadsOwnLayout`, `AtMostOnce`, `StartsClean`, `LeavesDiskIntoMemory`, `FailureKeepsSpans`, `HandedOverInTheEnd` |
| `initialize_cut` | the same | | `RecoversWholeSpans` is violated |
| `copy_string` | an array of 4 bytes, 85 strings of up to 9 bytes | 63,609 | `AlwaysTerminated`, `NeverMixed`, `KeepsWholeCharacters`, `KeyIsFound`, `SetsAnAttribute` |
| `copy_string_cut` | the same | | `LostInTheWorstCase` is violated |
| `attribute_store` | room for 2 of 4 keys, 2 values, lists of up to 3 | 473 | `OneAttributePerKey`, `ImplementsMap` |
| `managed_mmap` | 3 objects of 2 types, 3 addresses, 2 sizes | 918 | `HoldsWhatIsMapped`, `OneHolder`, `NothingLeaks` |
| `context_mapping` | 3 layouts, pages of 4 words, files of 0, 2 and 6 words to start with, 2 addresses | 2,094 | `ReturnsCleanly`, `AccessIsMapped`, `MappingsWithinFile` |
| `shared_file` | 2 contexts, sizes of 1 and 2 slots, 3 spans | 83,764 | `SlotsConsistent`, `DeliveredOnce`, `OneAtATimeIsSafe` |
| `android_library` | 3 global references; 3 spans of up to 2 attributes | 88,545 | `HeldOnce`, `NoneLeaks`, `NativesFindTheirClasses`, `RefsAreScoped`, `FactorySeesPairs`, `ArrivesWhole`, `Returns` |

The number of processes that follow each other, of failures and of crashes is not
bounded in any run.

Why the instances are large enough. Three slots are the fewest where a removal
moves the last span over a slot that is neither the first nor its neighbour, and
four ids overfill them. `MaxMark` bounds the adds of one process, which the
counter of the code (64 bits) does not: a process may fill the store and evict
after removals have shuffled it, and a new process starts its marks from zero
again. Two layouts whose slots do not line up, one of which ends in the middle of
a slot of the other, are what a resize can get wrong; words are abstract, so more
of them per slot add nothing. An array of four bytes is cut before, after and at
every byte of the characters. Three owners make every chain of moves that has a
middle, and one address more than a step needs lets the kernel reuse one. Three
layouts with a number of pages each, and files that are absent, shorter than a
page or of no layout's size, reach every branch of `initialize_span_data`. Two
contexts over two slots overtake each other, overfill the store and evict one
another's spans, and with a second size resize the file under each other, either way. A
table with one global reference more than a cache takes shows
a leak by failing the next load. Ids, times and keys that are interchangeable are
symmetric where no liveness property is checked; the layouts and the key that
truncates to another are not.

Deadlock is checked everywhere: an application may always make another call, and
an exited process stutters.

Fairness. The library schedules nothing: every operation runs in the thread of
its caller, to its end or until the process dies. So a native method that was
called goes on (weak fairness of `NativeMethod` in `AndroidLibrary`), and so does
an `initialize_span_data` that was called (of `Initializes` in `InitializeFair`).
That an application opens its file and then calls `get_recovered_spans` is what
`initialize.h` asks of it, and `HandedOverInTheEnd` assumes it: weak fairness of
`Opens` and of `get_recovered_spans`. Nothing else is fair: the application need
not add or release, and failures and crashes need not occur or stop, which is why
the promise is only made from the moment they have stopped. It is made of spans in a file
that the next initialization can read: of one without a valid header, or too short for
its layout, nothing is recovered (`initialize.cpp:124`).

### Two contexts on one file

`shared_file` shows what stays true when a second context is opened while the
first one is in use. With contexts of one size the file is always one the next process
can recover from, and no span is handed over twice. What does not: the first context
then dies of an assertion at its next call on a span (the death test,
`tests/initialize_tests.cpp:487`), or, when the second has added spans by then,
ends or removes one of those; and a context whose store is full of another's spans
evicts nothing and fails the assertion of room. `OneAtATimeIsSafe` says that
opening contexts one after the other, however many and of whatever sizes, does none of
this.

A second context of another size is harmless as long as the first writes no more,
which is as far as `tests/initialize_tests.cpp:449` goes. Once the first adds or
removes a span, it does so at the offsets of its own slots, and counts it in a header
that names the other layout: marks and count no longer match, the next process may take
any words for spans, find one again that was handed over, or die of what it reads. So
`SlotsConsistent` and `OneAtATimeIsSafe` leave a garbled file out, and
`DeliveredOnce` everything after one; the first two hold again from the
next initialization on, which clears every slot of the layout it names.

### Two disagreements with the comments

*A span cut by two interrupted resizes* (`initialize_cut`). A file of the large
layout with active spans is opened for the small one; `ftruncate`
(`src/initialize.cpp:141`) cuts it, and `mmap` fails or the process dies before
`reset_header`. The next `initialize_span_data`, for the large size, rejects the
file as too short, grows it back with `ftruncate`, and is interrupted at the same
place. Now the header is valid, the count is not zero and the size fits: the third
one recovers spans of which a part has been replaced by zeros.
`raw_span_data.h:113` says that a recovered span will never be inconsistent. A
single interrupted resize is harmless, as `LeavesDiskIntoMemory` and
`FailureKeepsSpans` show, up to the spans the cut itself destroys.

*A value cut by a crash* (`copy_string_cut`). `raw_span_data.h:131` says that a
crash while a value is replaced loses it in the worst case. The copy is not one
store, and what it has stored is read by the next process as the value, which may
end inside a character. What does hold: it is never a mixture with the old value
(`NeverMixed`), it is terminated (`AlwaysTerminated`), and a new attribute, as
opposed to a replaced value, shows only when complete (`ImplementsMap`).

## What is proved

`tlapm` checks the proof modules. Those about the slots assume what `RawSpanData` and
`MutableSpanData` assume of their constants (`MaxSpansAssumption`,
`MaxMarkAssumption`, `SpanIdAssumption`, `ConstantsAssumption`): at least one
slot, a bound on the adds of a process that may be any number, and that 0 is not
a span id (`span.h:93` asserts it). Sets of ids, times and attributes are
arbitrary. Those about the mappings assume positive sizes, a header that fits in
a page (`SizeAssumption`, `LayoutAssumption`) and that `nullptr` is no address
(`NullAssumption`).

`RawSpanData_proofs`: `TypeCorrect`, `RecoveredSpansAreWhole`,
`OneDuplicateAtMost`, `QuiescentBetweenCalls`, `NoSpanIsLost` and
`RawSpanDataImplementsSpanSet` (every step maps to a step of `SpanSet` or a
stutter). The properties are not inductive: that the slot `remove` is about to
mark is whole depends on the words copied so far being those of the last slot.
`IInv` says how far each operation has got: which slots are marked at each `pc`
(`SlotsMarked`), that marks are distinct but for the pair being swapped
(`MarksDistinct`), and that the words in `copied` agree with the argument
(`Adding`) or with the last slot (`Removing`). The proof that a step preserves it
has one lemma per action. The refinement splits the stores into those that leave
`Live` unchanged and the ones where an abstract step happens: the count of an
add, the first store of a remove, an end time, an attribute, the count of
`remove_all`.

`MutableSpanData_proofs`: `TypeCorrect`, `MapFindsEverySpan`, `FullStoreEvicts`,
`CallsKeepTheContract` and `ApplicationSpansAreWhole`. The invariant `MInv` adds
to `IInv` where the map stands in the middle of a call: the id being removed is
still found at the slot the last span is moving into, every other id at its own
slot (`MapMatchesSlots`). With it each action is a step `RawSpanData` allows, so
`Spec => Raw!Spec`, and the theorems about the slots carry over. That a full store
has an oldest span rests on the marks of a finite set of slots having a minimum,
which comes from the well-foundedness of the natural numbers.
`MutableSpanDataImplementsSpanBuffer` maps the store to the queue `ByMark` of its
recoverable spans. The lemmas before it say how the listing of a finite set of
numbers in order changes when a number goes (`SortedWithout`) or a larger one comes
(`SortedWith`); from them, how the queue changes when a slot loses its mark
(`QueueWithout`), when the count takes a new one in (`QueueWith`), when a word of
one span is stored (`QueueChanged`), and that it does not while a mark moves with
its span (`QueueKept`). The slot the scan finds has the rank 1 (`OldestIsFirst`).

`ManagedMmap_proofs`: `TypeCorrect`, `InitializedIsMapped`, `OneOwner` and
`NoMappingLeaks`, for any number of objects, types, addresses and sizes. The three
properties support each other (a move may leak what a second owner still holds),
and are inductive once it is added that a dead object holds nothing.

`ContextMapping_proofs`: `TypeCorrect`, `ReturnsWithNothingElse`,
`EveryAccessIsMapped`, `NoMappingPastTheEnd` and `KeepsManagedMmapRules`, for any
page size, layouts and files. The last is `Spec => M!Spec`: every step of
`initialize_span_data` is one the client of `ManagedMmap` may take, so that the
theorems of `ManagedMmap_proofs` hold of its mappings. `IInv` names for each place in `initialize_span_data` the one object that
holds the one mapping, and its size (`Holder`); the layouts it is seen under
(`Layout`); where `span_data_impl` has a value (`HasValue`); and where the
descriptor is closed (`Descriptor`). That an aligned size has room for its layout
is the one piece of arithmetic (`AlignedSize`).

`SharedFile_proofs`: `FileStaysRecoverable`, `HandedOverOnce` and `OneAtATime`,
for any number of contexts, sizes, slots and spans (at least one slot in each size, and
`null` no span). They say of contexts of different sizes what the properties say: the
first holds but while the file is garbled, the second until it first is, the third but
for opening a garbled one. The file is consistent (`Consistent`: the marked slots are those below the
count and hold spans) after every call, because each write follows the assertion
that would have stopped it. That every span in the file, in a context or handed
over was once added (`AllAdded`) is why a new one is in none of them. While a
context is alone its map knows exactly the active slots (`Knows`, in `AloneInv`),
and its layout is the header's, so that no assertion of `remove`, of `end` or of the
eviction can fail; that a closed context has no map (`ClosedAreEmpty`) is why the
next one may ask for another size. `Knows`
survives the move of the last span (`RemovedIsKnown`). That the scan of a full
store finds a slot comes from well-foundedness again.

`Initialize_proofs`: `TypeCorrect`, `LayoutsNeverMix`, `HandedOverAtMostOnce`,
`ContextStartsClean`, `FailuresKeepSpans` and `SpansLeaveIntoMemory`, for any
layouts, page size, files and failures; of the layouts, that they are finitely
many, so that a process that does not know the size of the file may read as far as
the largest. They assume `CountFirst`: `reset_header` zeroes the count before it
names another layout, as the source does (`SourceCountsFirst`); the order of the other stores
does not matter. The invariant `IInv` says at each `pc` what of the header has been stored
(`Prepared`) and where the store is empty (`Emptied`); that a word of a file that
can be read is zero, or one of a span that was added and not yet handed over, stored
where the header's layout has it (`OwnWords`); and that the spans a process has taken
off the disk are those it read (`Remembered`). `InitializationEnds` needs neither
`CountFirst` nor `IInv`: it counts the steps an initialization has yet to take
(`StepsLeft`) by the stores left in the header and the words left to clear, for any file.
The theorems are about `Spec`; `FairImplementsSpec` carries them to the specification of
the run, which adds fairness.

`Attributes_proofs`, on strings: `StringTypeCorrect`, `ArraysAreTerminated`,
`StringsNeverMix`, `CharactersStayWhole` and `KeysAreFound`, for an array of any
size (`ArrayAssumption`), any characters of any number of bytes
(`CharacterAssumption`) and any strings of them. What the bytes of a string are is a
recursive function, `Encoded`; that such a function exists (`EncodedIs`) and what it
computes are shown by the least number of characters for which it would fail
(`UpTo`), since the library's induction theorems are out of reach. The bytes
that are no continuation bytes are those behind the bytes of some number of
characters (`Starts`): so the loop of `get_utf8_length` stops at the most characters
that fit, whether or not `jstring_to_string` has cut the string before
(`Truncates`). The invariant `CopyInv` is that in the `memset` the array is the old
string with some bytes zeroed (`Zeroing`), and in the `memcpy` the new one with some
bytes still zero (`Copying`); its last byte is always zero.

`Attributes_proofs`, from the strings to the slot: `CopyImplementsAttributeStore` is
`SetsAnAttribute` for any array and strings, from lemmas on what can be read while bytes
are zeroed (`ReadsNothing`, `ReadsOld`) and copied (`ReadsNew`), and one per step of the
copy. `KeptIsStable`: what is kept of a string is kept whole when it is copied again.
From it, `BytesAreAsAssumed`: keys that are bytes, truncated as `copy_string` does, meet
what `AttributeStore` assumes of its constants. `KeysCompareAsAssumed`: the comparison
of bytes in `CopyString` answers as that of keys in `AttributeStore`.

`Attributes_proofs`, on the slot: `TypeCorrect`, `KeysAreDistinct` and
`AttributeStoreImplementsMap`, for any keys, values, number of attributes, and any
truncation that leaves a truncated key alone (`AttributesAssumption`). The
invariant says which attribute a call has chosen (`Target`: the one with the key, or
the first free one), how far it has got with it (`Progress`), and that all other
attributes are complete (`Outside`). Stores to an attribute that is not counted yet
map to a stutter, those to a counted value to a disturbance of this one value or to
its completion, and the store of the count to the addition of a complete attribute.

`AndroidLibrary_proofs`: `TypeCorrect`, `ReferencesHeldOnce`,
`ReferencesNeverLeak`, `NativesHaveClasses`, `LocalReferencesAreScoped`,
`PairsStayTogether`, `RecoveryIsWhole` and `RecoveryEnds`, for any number of references, spans and
attributes. `NullAssumption` says that `nullptr` is no reference and no class, and
`SpansAssumption` that the spans of a context are a sequence and so are the
attributes of a span. `CacheInv` names at each place in loading and unloading the
cache that holds the references, `CallsHaveClasses` says that `g_span_cache` is
complete as long as Java may call, and `RecoveryInv` which local references there
are at each JNI call, and that what has been stored in the arrays so far is what
the context held, in order, but for the places where a call was refused.
`RecoveryEnds` orders the states of a call by the spans it has left (`SpansLeft`), then
by the steps left in the current one (`StepsLeft`); both are natural numbers, and every
step goes down, also one after a failure.

Only model-checked are the liveness properties `HandedOverInTheEnd` and `Returns`:
they rest on fairness, which is out of the prover's reach. `InitializationEnds` and
`RecoveryEnds` are what they say without it: no step is one too many. That a next step is
always possible until the end is what the runs add.

The type invariants of `MutableSpanData`, `ManagedMmap`, `ContextMapping`, `AttributeStore`,
`CopyString` and `AndroidLibrary` are proved and in no run; that of `SharedFile` is
part of `FileInv`, which is proved.

## What is not modelled, and the plan

- Calls of two threads at once. No operation takes a lock, and nothing says which
  calls may be concurrent: two at once are a data race, of which nothing follows.
- Use of a `MutableSpanData` after `release_span_data`: its reference dangles.
- A span made with two attributes of the same stored key: the code keeps both,
  and promises nothing about them.
- The JNI functions other than `recover_spans_native`, loading and unloading: they
  convert their arguments and call operations that are modelled.
  `parse_jni_attributes` is left out with them; what its strings are cut to is in
  `CopyString`.
- The move constructor of `SpanJClassCache` and the moves of `ManagedLocalRef`,
  which the library elides or does not use.
- `Entry`, which nothing reads or writes; `page_size.h`, the build files and the
  sample program, which have no behaviour to model.

What is left to do is to connect two proofs that stand side by side: that a context of
`Initialize`, where adding a span is one step, is a `MutableSpanData` over the words of
its layout. `StartsClean` is the state such a context begins in, and
`ReadsOwnLayout` speaks of the words; what is missing is the map from words to slots.

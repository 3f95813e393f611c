---------------------------- MODULE ContextMapping ----------------------------
(***************************************************************************)
(* The file descriptor and the mappings of one process through             *)
(* initialize_span_data, the context it returns and its release.  The      *)
(* mapping is handed from one ManagedMmap to the next: from the local      *)
(* variable header, through the by-value parameters of SpanDataImpl, to    *)
(* temp_impl or span_data_impl, and from there to the context.  Every      *)
(* system call may fail and the process may die after every step.          *)
(*                                                                         *)
(* Of the file's content only what decides which way initialize_span_data  *)
(* goes is kept; Initialize has the rest.                                  *)
(***************************************************************************)
EXTENDS Integers

CONSTANTS
  MmapSize,     \* the layouts
  sizeof,       \* of the header and of each layout
  page_size,
  FileSize,     \* the sizes a file may have when it is first opened
  Address,
  nullptr

get_aligned_size(L) == ((sizeof[L] + page_size - 1) \div page_size) * page_size

Type == {"Header"} \cup MmapSize
Size == (FileSize \ {0}) \cup {get_aligned_size(L) : L \in MmapSize}

ASSUME LayoutAssumption ==
  /\ page_size \in Nat \ {0}
  /\ "Header" \notin MmapSize
  /\ FileSize \subseteq Nat
  /\ sizeof \in [Type -> Nat \ {0}]
  /\ sizeof["Header"] <= page_size
ASSUME NullAssumption == nullptr \notin Address /\ nullptr \notin Type

VARIABLES
  pc,
  fd,              \* "open" or "closed"
  original_size,
  target_size,
  file_size,       \* st_size
  file_layout,     \* header->mmap_size, in the file
  has_spans,       \* whether the header is valid and current and counts spans
  mapped, type, mmap_ptr_, required_size_   \* of ManagedMmap

Object == {"header", "parameter", "temp_impl", "span_data_impl", "argument", "context"}
M == INSTANCE ManagedMmap

memory == <<mapped, type, mmap_ptr_, required_size_>>
file == <<file_size, file_layout, has_spans>>
vars == <<pc, fd, original_size, target_size, file_size, file_layout, has_spans,
          mapped, type, mmap_ptr_, required_size_>>

required_size == get_aligned_size(target_size)

PC == {"none", "fstat", "map_old", "check", "recover", "keep", "leave_temp", "leave_old",
       "truncate", "map_new", "reset", "leave_new", "close", "pass_context",
       "make_context", "drop_argument", "leave", "ready", "return_null", "leave_null",
       "pass_old", "wrap_old", "drop_old", "pass_new", "wrap_new", "drop_new"}

TypeOK ==
  /\ pc \in PC
  /\ fd \in {"open", "closed"}
  /\ original_size \in Size \cup {0}
  /\ target_size \in MmapSize
  /\ file_size \in Size \cup {0}
  /\ file_layout \in MmapSize
  /\ has_spans \in BOOLEAN
  /\ M!TypeOK

Init == /\ pc = "none"
        /\ fd = "closed"
        /\ original_size = 0
        /\ target_size \in MmapSize
        /\ file_size \in FileSize \cup {0}
        /\ file_layout \in MmapSize
        /\ has_spans = FALSE
        /\ M!Init

Goto(from, to) == pc = from /\ pc' = to

-----------------------------------------------------------------------------
(* The file as it is                                                       *)

\* open: when it fails nothing has happened.
Open(L) ==
  /\ Goto("none", "fstat")
  /\ fd' = "open"
  /\ target_size' = L
  /\ UNCHANGED <<original_size, file, memory>>

Fstat ==
  /\ pc = "fstat"
  /\ pc' = IF file_size >= page_size THEN "map_old" ELSE "truncate"
  /\ original_size' = file_size
  /\ UNCHANGED <<fd, target_size, file, memory>>

\* Mutant: the descriptor stays open when fstat or ftruncate fails.
StatOrTruncateFailsOpen ==
  /\ \/ Goto("fstat", "none")
     \/ Goto("truncate", "none")
  /\ UNCHANGED <<fd, original_size, target_size, file, memory>>

\* fstat or ftruncate fails: close and return nullptr; no mapping is held.
StatOrTruncateFails ==
  /\ \/ Goto("fstat", "none")
     \/ Goto("truncate", "none")
  /\ fd' = "closed"
  /\ UNCHANGED <<original_size, target_size, file, memory>>

\* Mutant: a mapping that failed is used.
MapUnchecked(from, size, to) ==
  /\ pc = from
  /\ M!Construct("header", "Header", size)
  /\ pc' = to
  /\ UNCHANGED <<fd, original_size, target_size, file>>

\* The local variable header, over the file as large as it is.
Map(from, size, to) ==
  /\ pc = from
  /\ M!Construct("header", "Header", size)
  /\ pc' = IF M!is_initialized("header")' THEN to ELSE "return_null"
  /\ UNCHANGED <<fd, original_size, target_size, file>>

MapOld == Map("map_old", original_size, "check")

\* Mutant: the size of the file is not looked at.
should_do_recovery_any_size == has_spans

should_do_recovery == has_spans /\ sizeof[file_layout] <= original_size

Check ==
  /\ pc = "check"
  /\ pc' = IF should_do_recovery THEN "pass_old" ELSE "leave_old"
  /\ UNCHANGED <<fd, original_size, target_size, file, memory>>

(* SpanDataImpl(std::move(header)): the mapping passes through by-value     *)
(* parameters, of which one stands for all, into the alternative of data_  *)
(* that the header names.                                                  *)
Pass ==
  /\ Goto("pass_old", "wrap_old") \/ Goto("pass_new", "wrap_new")
  /\ M!MoveConstruct("parameter", "header")
  /\ UNCHANGED <<fd, original_size, target_size, file>>

\* Mutant of make_data: the layout asked for, not the one in the header.
make_data_target == target_size

make_data == file_layout

Wrap ==
  /\ \/ /\ Goto("wrap_old", "drop_old")
        /\ M!ConvertConstruct("temp_impl", make_data, "parameter")
     \/ /\ Goto("wrap_new", "drop_new")
        /\ M!ConvertConstruct("span_data_impl", make_data, "parameter")
  /\ UNCHANGED <<fd, original_size, target_size, file>>

Drop ==
  /\ Goto("drop_old", "recover") \/ Goto("drop_new", "leave_new")
  /\ M!Destroy("parameter")
  /\ UNCHANGED <<fd, original_size, target_size, file>>

\* The loop over the marked spans, which reads through temp_impl.
Recover ==
  /\ pc = "recover"
  /\ pc' = IF type["temp_impl"] = target_size /\ original_size = required_size
           THEN "keep" ELSE "leave_temp"
  /\ UNCHANGED <<fd, original_size, target_size, file, memory>>

Keep ==
  /\ Goto("keep", "leave_temp")
  /\ M!MoveConstruct("span_data_impl", "temp_impl")
  /\ UNCHANGED <<fd, original_size, target_size, file>>

\* The ends of the scopes of temp_impl and of header.
LeaveTemp ==
  /\ Goto("leave_temp", "leave_old")
  /\ M!Destroy("temp_impl")
  /\ UNCHANGED <<fd, original_size, target_size, file>>

\* Mutant: the file is resized in the scope of its first mapping.
LeaveOldLate ==
  /\ pc = "leave_old"
  /\ pc' = IF M!is_alive("span_data_impl") THEN "close" ELSE "truncate"
  /\ UNCHANGED <<fd, original_size, target_size, file, memory>>

LeaveOld ==
  /\ pc = "leave_old"
  /\ M!Destroy("header")
  /\ pc' = IF M!is_alive("span_data_impl") THEN "close" ELSE "truncate"
  /\ UNCHANGED <<fd, original_size, target_size, file>>

-----------------------------------------------------------------------------
(* The file made anew                                                      *)

Truncate ==
  /\ Goto("truncate", "map_new")
  /\ file_size' = required_size
  /\ UNCHANGED <<fd, original_size, target_size, file_layout, has_spans, memory>>

MapNew == Map("map_new", required_size, "reset")

reset_header ==
  /\ Goto("reset", "pass_new")
  /\ file_layout' = target_size
  /\ has_spans' = FALSE
  /\ UNCHANGED <<fd, original_size, target_size, file_size, memory>>

LeaveNew ==
  /\ Goto("leave_new", "close")
  /\ M!Destroy("header")
  /\ UNCHANGED <<fd, original_size, target_size, file>>

\* mmap fails, in either place: close, and leave the scope of header.
ReturnNull ==
  /\ Goto("return_null", "leave_null")
  /\ fd' = "closed"
  /\ UNCHANGED <<original_size, target_size, file, memory>>

LeaveNull ==
  /\ Goto("leave_null", "none")
  /\ M!Destroy("header")
  /\ UNCHANGED <<fd, original_size, target_size, file>>

-----------------------------------------------------------------------------
(* The context                                                             *)

Close ==
  /\ Goto("close", "pass_context")
  /\ fd' = "closed"
  /\ UNCHANGED <<original_size, target_size, file, memory>>

PassContext ==
  /\ Goto("pass_context", "make_context")
  /\ M!MoveConstruct("argument", "span_data_impl")
  /\ UNCHANGED <<fd, original_size, target_size, file>>

\* The constructor of Context; remove_all zeroes the count.
MakeContext ==
  /\ Goto("make_context", "drop_argument")
  /\ M!MoveConstruct("context", "argument")
  /\ has_spans' = FALSE
  /\ UNCHANGED <<fd, original_size, target_size, file_size, file_layout>>

DropArgument ==
  /\ Goto("drop_argument", "leave")
  /\ M!Destroy("argument")
  /\ UNCHANGED <<fd, original_size, target_size, file>>

Leave ==
  /\ Goto("leave", "ready")
  /\ M!Destroy("span_data_impl")
  /\ UNCHANGED <<fd, original_size, target_size, file>>

\* The application adds a span.
Add ==
  /\ pc = "ready"
  /\ has_spans' = TRUE
  /\ UNCHANGED <<pc, fd, original_size, target_size, file_size, file_layout, memory>>

release_span_data ==
  /\ Goto("ready", "none")
  /\ M!Destroy("context")
  /\ UNCHANGED <<fd, original_size, target_size, file>>

Crash ==
  /\ pc # "none"
  /\ pc' = "none"
  /\ fd' = "closed"
  /\ M!ProcessEnds
  /\ UNCHANGED <<original_size, target_size, file>>

Next ==
  \/ \E L \in MmapSize : Open(L)
  \/ Fstat \/ StatOrTruncateFails \/ MapOld \/ Check
  \/ Pass \/ Wrap \/ Drop \/ Recover \/ Keep \/ LeaveTemp \/ LeaveOld
  \/ Truncate \/ MapNew \/ reset_header \/ LeaveNew \/ ReturnNull \/ LeaveNull
  \/ Close \/ PassContext \/ MakeContext \/ DropArgument \/ Leave
  \/ Add \/ release_span_data \/ Crash

Spec == Init /\ [][Next]_vars

-----------------------------------------------------------------------------
(* Properties                                                              *)

\* Whichever way initialize_span_data returns, the descriptor is closed; with
\* nullptr, or after release_span_data, nothing stays mapped, and a context is
\* the one owner of the one mapping, of the size asked for
\* (initialize.cpp:100-156, 181).
Holds(o) == M!is_initialized(o)
ReturnsCleanly ==
  /\ pc \in {"none", "ready"} => fd = "closed"
  /\ pc = "none" => \A a \in Address : mapped[a] = 0
  /\ pc = "ready" =>
       /\ \A o \in Object : Holds(o) <=> o = "context"
       /\ \A a \in Address : mapped[a] # 0 => a = mmap_ptr_["context"]
       /\ type["context"] = target_size
       /\ required_size_["context"] = required_size

\* The object through which each step reads or writes the file.
Used(at) == CASE at \in {"check", "reset"} -> {"header"}
              [] at \in {"recover", "keep"} -> {"temp_impl"}
              [] at \in {"drop_argument", "ready"} -> {"context"}
              [] at \in {"wrap_old", "wrap_new"} -> {"parameter"}
              [] OTHER -> {}

\* Every access goes through a mapping that is live and as large as the layout
\* it is read with, which is the layout the header names (the assertions at
\* managed_mmap.h:105 and raw_span_data.h:88, 103): a mapping that failed, was
\* moved away or was unmapped is not used again.
AccessIsMapped ==
  \A o \in Used(pc) :
    /\ Holds(o)
    /\ type[o] \in MmapSize => type[o] = file_layout
    /\ sizeof[IF o = "parameter" THEN file_layout ELSE type[o]] <= required_size_[o]

\* No mapping reaches past the end of the file, where touching it would kill
\* the process: the first mapping is gone when the file is resized
\* (initialize.cpp:138, 141).
MappingsWithinFile == \A a \in Address : mapped[a] <= file_size
=============================================================================

# A TLA+ verification project for avium

avium is a C11 library that gives C programs classes with run-time type
information, exceptions, strings, lists, streams, files, paths and reflection.
This directory holds TLA+ models of its stateful core, TLC configurations that
check them on small instances, and proofs that TLAPS checks for all instances.
File names below are relative to the root of the repository.

## 1. Inventory

| component | source | state | operations | what makes it correct |
|---|---|---|---|---|
| exceptions | `include/avium/error.h`, `src/avm.core/error.c`, `src/init.c`, `src/avm.core/core.c` | per thread: the chain of `AvmThrowContext`s, which live in the frames of the try statements | `try`, `catch`, `throw`, rethrow in the loop of `try`, enabling and disabling the signal handler | the chain matches the try statements that can still catch; an exception goes to the right one; no jump to a dead frame |
| run-time types | `src/avm.core/typeinfo.c`, `include/avium/typeinfo.h` | none: constant records | subtype test, vtable lookup, construction, enum queries | lookups stay in the table; the subtype test ends; the queries of an enum agree |
| object model | `src/avm.core/types.c` | objects, and the resources their bytes point to | destroy, clone, compare, print through the vtable, or by bytes | a resource has one owner; a clone equals its original |
| storage growth | `string.c:87-121`, copied to `array-list.c:59-93` | capacity, length, size of the allocation | reserve, add, create | what the length announces is allocated |
| strings | `src/avm.core/string.c` | the same and the characters | about 60 calls; numbers, formatting, parsing | each call does to the text what string.h says, whatever the buffer held before; what is formatted can be parsed |
| lists | `src/avm.collections/*` | the same and the items | insert, remove, push, pop, clear, look up | every item is owned once and finalised once |
| streams | `src/avm.io/io.c`, `memory-stream.c` | bytes, position | read, write, seek, lines | what is read was written; reads stay in memory |
| files | `src/avm.io/file.c`, `file-stream.c` | the file system, FILE handles and their buffers | open, read, write and append all, delete, move | errors are reported; a read is of one write, in spite of other tasks |
| paths | `src/avm.io/path.c` | none | pieces of a path, paths made of pieces | names are neither merged, lost nor made at the joints; the pieces fit together again |
| reflection, code generation | `src/avm.reflect/*` | handles of the dynamic loader | look up types and functions | not decided by this code |
| runtime services | `src/avm.core/core.c` | program name, arguments | allocation, printing, backtraces, garbage collector | pure I/O |

How they interact: every object starts with a pointer to its type, and calls on
interfaces (`AvmList`, `AvmStream`) go through the vtable of that type. Lists
call the destructors of their items; a memory stream pushes its bytes onto a
list; the whole-file calls put bytes into the buffer of a string behind its
back; paths are made of strings and read through their raw buffers; formatting
asks objects for their text through the vtable; nearly everything throws `RangeError` and the like through the chain of
contexts, and catch clauses use the subtype test.

Hard behaviours: the macros of error.h rely on the order in which a context is
pushed, filled, popped and left (nesting, rethrow, throw from a catch body, jump
out of a try body), once per thread; uints wrap around; the buffer of a string
keeps old text; destructors throw in the middle of a removal; files change
between stat and read, and disks fail late. `PROJECT.json` lists each hazard at
its line, with the properties that would notice it.

## 2. Plan

| order | modules | state |
|---|---|---|
| 1 | `TypeInfo`, `Exceptions` (abstract), `ThrowContexts` (detailed), `ThrowContextsProof` | done |
| 2 | `Storage`, `StringPartsProof` | done |
| 3 | `Text` (abstract), `AvmString` over `Storage` | done |
| 4 | `List` (abstract), `ArrayList` over `Storage` | done |
| 5 | `ByteStream` (abstract), `MemoryStream` over `Storage` | done |
| 6 | `TextFiles`: tasks, file system, strings | done but for seeking file streams |
| 7 | `Numerals`, `Formats`: digits, formats and parsing | done but for the text of doubles |
| 8 | `Objects`, `ObjectsProof`: vtable lookup, the calls of objects, enums | done |
| 9 | `PathNames`: pieces of paths | done but for Windows |
| 10 | `AvmStringProof`, `ArrayListProof`, `MemoryStreamProof`, `TextFilesProof`, `PathNamesProof`; `Formats` in `StringPartsProof` | done |
| 11 | the calls of io.c over failing FILEs (`ReadByte`, `WriteByte`, `ReadLine`), seeking file streams | open |

## 3. The modules

**`TypeInfo`** has the constant hierarchy of types and the loop of
`AvmTypeInheritsFrom`. `TypesHaveBases` says what `AVM_TYPE` guarantees: every
type has a base and `object` is its own.

**`ThrowContexts`** models the macros of error.h. `blocks[t]` is the stack of
try statements that thread `t` is executing; a block carries the fields of its
`AvmThrowContext` (`prev`, `thrown`) and where its thread is in the macro:
`"body"` (setjmp returned 0), `"dispatch"` (setjmp returned 1, clauses are being
tried) or `"catch"`. The context is a local variable of its block, so its
address is the pair of the thread and the depth, and is used again by the next
block at that depth. `global[t]` is the `thread_local` head of the chain.
`EnterTry`, `Throw`, `Catch`, `Rethrow`, `EndBody`, `EndCatch` are the pieces of
the macros between two jumps; `LeaveBody` is a `return` or `break` out of a try
body, taken only by the threads in `Careless`. Jumping to a context that is
gone, or of another thread, is undefined behaviour and ends the behaviour with
outcome `"undefined"`; throwing with an empty chain dereferences NULL, which
ends the process through the handler (`handled`) or without it. `raised` is a
history variable for the refinement.

**`Exceptions`** is the promise: scopes per thread, an exception in flight, and
its delivery in one step to the innermost scope with a matching clause. The
chain of contexts and the step by step rethrowing do not appear in it.
`ThrowContexts` implements it: while a thread dispatches, its scopes are those
at the throw.

**`Storage`** counts: capacity, length and allocated bytes of a container, with
arithmetic modulo `M` (2^32 in the code), for items of `ItemSize` bytes and a
program that never wants more than `Limit` items.

**`AvmString`** adds the characters. A cell is a character, a zero byte or
`Junk` (never written). A zero byte may also be a character of the text:
`AvmStringPushChar`, `PushChars`, `PushString`, `Replace` and `Map` put it there,
and only what comes as a C string (`Strs`) has none. The storage part of a string is an instance of
`Storage`, and `NewCapacity` is used from there. `Text` is the abstract string;
both record the last call with its arguments, so that the refinement relates
each call to its effect, not merely to some effect. `Find` and `FindLast` read
the buffer as the C code does; `Find` answers `Unknown` where the scan runs into
memory nobody wrote, and `CloneText` reads to the first zero byte, which may be
one of the text. `Matches` is `strncmp`. The other queries look at the text only.
`ScansSeeTheText` and `QueriesAgree` say what holds of texts with zero bytes, too:
as far as the first of them the scans see the text and agree with the rest, and
what stands behind it they miss.
`PushSelf` is `AvmStringPushString` with the string as its own argument.

**`ArrayList`** holds objects, each known by the resource it owns; `unused` are
those the program still has, `finalised` those whose destructor ran. An object
in `Throwing` has a destructor that throws when it is done. `List` is the
abstract list with its answers. `ArrayList` implements it step by step, but for
the steps named in `Unpromised`: `Clear`, and a removal that a destructor leaves
by an exception. `InsertsInside` allows insertions that do not do what list.h
says (section 5); only `list_insert` has it on.

**`MemoryStream`** is a list of bytes with a position; `ByteStream` is the
promise to a program that writes at the end and reads what it wrote. The program
of the model also writes elsewhere, reads as far as `AvmStreamGetLength` says,
and seeks anywhere; `Unpromised` names the steps that the promise leaves out.

**`TextFiles`** has tasks with one call each in progress. The file system is
external: `dir` maps paths to files, `data` files to bytes; a file lives while a
path or a handle refers to it. A call is split where it makes system calls:
`ReadAllText` (stat and making room), `FileOpen`, then one `FileRead` for each
`read(2)` of the loop in `fread`, until it has all it asked for or `FileReadEnds`;
or `WriteAllText` or `AppendAllText`, `FileOpen`, then any number of `FileWrite`s
that put a piece on the disk while the rest stays in the buffer of the FILE, and
`FileClose`. `moved` counts the bytes so far. `FileDelete` and `FileMove` are one
system call each, which may fail for any reason. With `DiskFails`, any read may
fail, and any write to the disk may store only a part. A piece written where the
file has meanwhile become shorter leaves a `Hole` before it. `torn` is a history
variable: somebody opened the file to write it anew after the reader had read a
part of it, so that the rest is of another write.

**`Numerals`** turns numbers into digits and back: `FromInt`, `FromUint` and
`FromFloat2` of string.c, with `Width` bits in an integer and the three fields of
a float as constants, and `strtoll` and `strtoull` as external. The loops are
recursive functions, on numbers up to the one that is converted.

**`Formats`** has one string, with its text and whether a zero byte follows it in
memory (`terminated`, a choice: the code guarantees none). One call makes it,
`FormatString` or a conversion, and `ParseString` may read it back. `Visited` is
the loop over a format, `Directives` what it meets, `ParsePass` one pass of the
loop of `AvmStringParseV`. The texts of strs, objects and doubles are words that
the program provides, without zero bytes in them. The order of two `va_arg` in
one argument list is a choice (`swapped`). A step that leaves a buffer or an
array stops with an `outcome` that says so. Formats have any number of
directives; `ArgumentLists` are the lists of values that fit one.

**`PathNames`** holds one path, that each call replaces by its result. `Combine`
is the loop over an array of paths, where each pass hands the raw buffer of the
last result to `strlen`; `zeroed` chooses whether new memory comes zeroed.
`Combine2Fault` is the assertion of `AvmStringPushStr` that fails when nothing is
left of the second path, which is then `/` or `./`.
`Names`, the list of names on the way of a path, is the reference that the
properties compare with.

**`Objects`** has a heap of objects, each a type and the resource its bytes point
to. `GetFunction` is the lookup in a vtable, with the index compared with a size
in bytes; `Clone`, `Destroy`, `Equals`, `AsString` call what it finds, or fall
back on bytes; `Pop` is `AvmListPop`, a clone followed by a destructor. A type is
its number of entries and the ones among them that are not NULL. `copies`
remembers the pairs of an original and a clone. The queries of enums
(`FirstMember` is their loop) touch no object and are asked while there is none.

The modules named `MC...` give constants their values for TLC.
Definitions commented as mutants are faulty variants that show each property
can fail; nothing else uses them.

## 4. The runs

| run | shows | bounds |
|---|---|---|
| `throw_threads` | chains of two threads stay apart and in step; every exception is delivered as promised, and lands | 2 threads, 2 nested tries each, 3 types in a line, 2 thrown objects, catch lists with one and with two clauses |
| `throw_careless` | jumping out of try bodies harms the chain of that thread only, and only its own steps become undefined | the same, one careless thread |
| `storage` | below half of the range, growth is safe | uint of 5 bits, up to 15 items |
| `string` | each call has its documented effect on the text; memory that nothing wrote is never text; scans find what is before the first zero byte, and queries agree with each other as far as that; growth is that of `Storage` | uint of 3 bits, texts up to 3, chunks up to 2, 2 interchangeable letters and the zero byte, a mapping that exchanges the letters and one to zero bytes |
| `list` | the documented list, but for its clearing; nothing is finalised twice or lost, also when a destructor throws; growth is that of `Storage` | 4 objects, 2 of them equal, 1 with a throwing destructor, 3 at a time |
| `stream` | the promised stream; reads within the announced length stay inside the memory; growth is safe | 3 bytes, positions modulo 16 |
| `files` | a successful read counts no unfilled memory, and is of one write unless the file is opened to be written anew in the middle of it | 1 writer, 1 reader, 2 paths, 3 files, files and strings of up to 2 bytes, failing disk |
| `formats` | numerals are worth their number; floats are truncated to eighths; loops over formats end where the format does; what is formatted is parsed back | integers of 8 bits, floats of 12, 76 formats of up to three directives, words up to 4 characters for arrays of 3 |
| `objects` | objects that know how to clone and destroy themselves own their resource, clones are equal, the queries of an enum agree | 3 objects, 3 resources, 2 contents, 4 types, enums of up to 2 members |
| `paths` | combining, where it does not fail, goes down by the names of each path; going up undoes it; parent, name and extension fit together again | paths of up to 5 characters, 13 pieces, arrays of up to 3 |
| `list_insert`, `file_errors` | the disagreements of section 5 | as `list` and `files` |

Two threads suffice for interference, since a thread touches only its own
chain, or by mistake one other. Two nested tries have an inner, an outer and an
empty rest of the chain, and a thread that does not run main has exceptions that
no try accepts. Two clauses of related types tell the order of clauses and
subtyping apart. Three items have a first, a middle and a last one and make a
container of initial capacity 0, 1, 2 or 3 grow up to twice. A text of three
characters has room for a zero byte with a character on either side, and for what
an earlier text left behind it. The reader and the writer of a file interleave in
all orders of their system calls, with a buffer read or written in one piece or
two, and three files are what two paths and a stale handle can refer to at once; two
bytes are enough to mix two writes, or a write and an append. The texts that are
written and the one that is appended have no byte in common, so that a byte
tells where it comes from.

Every integer of 8 bits and every float with 4 bits of exponent and 7 of
mantissa is converted, so that the least number, both ends of the exponent and
every shift occur; formats with two directives have a first and a last one, with
and without a blank between them, and each kind of directive next to each other
kind that parses differently, and one with three has one in the middle. The four types have the vtables of `object` (1
entry), `AvmError` (2), `AvmString` (14, all of the first four) and
`AvmFileStream` (21, a destructor and no clone): shorter than the index that is
asked for, with and without each function. Three objects are an original, its
clone and a clone of that. Five characters hold two names with a separator, a
dot and what comes before; the pieces have separators and dots in every place
that the code looks at, and an array of three paths is the shortest that reads
an intermediate result.

CHECK_DEADLOCK is off everywhere because the systems stop: the process ends or
aborts, a list has had all of its objects, a string is parsed, or calls reach
their bounds.

Fairness is used in `throw_threads` only (`EveryThrowLands` and the liveness in
`ImplementsExceptions`): weak fairness of `Catch(t) \/ Rethrow(t)`, for these
are straight-line code between a `longjmp` and the body of a handler, with no
waiting in it; a scheduler that runs every thread now and then makes it happen.
Nothing is assumed of the program: it may stay in a body forever.

## 5. Where the code does not do what is written

Two disagreements are runs that expect a violation, and findings in
`PROJECT.json`:

| run | the code | what is written |
|---|---|---|
| `list_insert` | array-list.c:115 moves one item, over its successor | "Shift all elements out." in that line |
| `file_errors` | file-stream.c:85 ignores what `fclose` returns | file.h:91 of writing and file.h:105 of appending: any error that occurred |

The models contain others, which no run is spent on. A reader can see each by
stating it as an invariant of the run in brackets.

- string.c:99-121: near the documented largest size (config.h.in:60) growth
  wraps around and its own assertions fail. (`storage` with `Limit = 31`)
- string.c:770: the loop of `AvmStringFindLast` ends before index 0, so that an
  occurrence at the very start is never found (string.h:493 promises the last
  occurrence). (`string`: `ScansSeeTheText` without its exception)
- string.c:683: a string pushed onto itself is copied from memory that growing
  may have freed. (`string`: fault `"stale"`)
- string.c:744: `AvmStringFind` also finds what an earlier, longer text left
  behind the text; string.c:60: a clone copies that, too. In a text with a zero
  byte both stop there: the clone loses the rest, and `AvmStringContains` denies
  what `AvmStringIndexOf` and `AvmStringEndsWith` find. (`string`: `Find`,
  `CloneText`; `ScansSeeTheText` and `QueriesAgree` without what they say of
  `FirstZero`)
- string.c:1052 and 1112: whether a string starts or ends with an array is
  decided by `strncmp`, which stops at a zero byte that both have. (`string`:
  `Matches` of arrays with zero bytes; the properties ask with C strings)
- string.c:1037: whether a string starts with a character is decided by its
  first cell, also when its text is empty. (`string`: `string.buffer[1]`)
- string.c:635: pushing an empty str indexes its last character in an assertion;
  string.c:911: reversing a string without a buffer dereferences NULL.
  (`string`: faults `"pushstr"` and `"null"`)
- list.c:46: `AvmListClear` leaves item 0, against list.h:104. (`list`:
  `Unpromised` without `Clear`)
- memory-stream.c:73 and 94: the length and the end of a stream are the capacity
  of its list, not the bytes written (io.h:46, io.h:143); io.c:174: writing a
  line whose string has no buffer fails an assertion. (`stream`: `Unpromised`
  without `Read` and `SeekEnd`, fault `"assert_buffer"`)
- file.c:213: a file that is rewritten between two `read(2)` of the same `fread`
  is read as a mixture of both texts, with a full count and no error. (`files`:
  `ReadsAreOfOneWrite` without `torn`)
- file.c:213: the read asks for the whole capacity of the string and reports an
  error when it gets less, so that a string with room to spare makes a complete
  read fail, and one with old text may be overrun. (`files`: `result`, `failed`,
  and `pc = "overrun"`)
- string.c:305: the exponent of infinities and NaNs wraps around in an `int8_t`,
  and they are shown as 0. (`formats`: `FloatsAreTruncated` without `e > Bias`)
- string.c:379: `snprintf` writes its zero byte one behind the buffer.
  (`formats`: outcome `"overrun"`)
- string.c:1308: after a `%` that ends the format, formatting and parsing go on
  behind it. (`formats`: outcome `"overread_format"`)
- string.c:1322: a word at the end of a text that no zero byte follows is read
  over the end. (`formats`: outcome `"overread"`)
- string.c:1360: a word is copied before it is compared with the capacity, so
  that a longer one overruns the array. (`formats`: outcome `"overrun"`)
- string.c:1407: the pointer and the capacity of `%s` are two `va_arg` in one
  argument list, whose order C leaves open. (`formats`: outcome `"swapped"`)
- What `%o` and `%b` write, 0o and 0b in front, `strtoull` does not understand:
  they are parsed as 0. (`formats`: `RoundTrip` with `Separated` allowing them)
- path.c:105: the name of a path that ends in a separator has the length 0 - 1;
  basename.h:21: without a separator the name is at address 1; path.c:91: an
  empty path makes `AvmPathIsDir` read `path[4294967295]`. (`paths`: faults
  `"wrapped"`, `"address"` and `"overread"`)
- path.c:228: the buffer of an intermediate result is not terminated, or NULL if
  that is empty. tests/path.c:28 combines three paths whose first combination
  (11 characters in room for 5 + 6) fills its buffer. (`paths`: faults `"overread"` and
  `"null"`)
- path.c:287: of a second path that is exactly `/` or `./` an empty str is pushed,
  and the assertion string.c:635 reads its character 4294967295. (`paths`: fault
  `"pushstr"`)
- A path that ends in a separator is its own parent, where path.h:115 says the
  parent directory. (`paths`: `GetParent`)
- typeinfo.c:47: the index of a virtual function is compared with the size of
  the table in bytes. What follows a short table is taken for a function, where
  core.h:61 and 90 promise the comparison and copy by bytes. (`objects`: fault
  `"foreign"`)
- typeinfo.c:140: a table with all `AVM_MAX_ENUM_MEMBERS` has no end.
  (`objects`: fault `"overread"`)
- A string without a buffer fails an assertion when it is cloned; an object made
  by `AvmTypeConstruct` may have any bytes for its resource. A clone by bytes
  shares its resource with the original, and the first destructor frees it for
  both. (`objects`: faults `"assert"`, `"junk"`, `"finalised"`)

Two more are not modelled, because nothing can be said of what follows them:
`AvmStringFormatV` passes its `va_list` by value from pass to pass, which works
only where that type is an array (the models take it to work), and
codegen.c:29 writes through the unset `_vPtr` of new memory.

## 6. The proofs

Each theorem holds for every value of the constants, under the assumptions that
the modules name (`TypesHaveBases`, `ThreadsAssumption`, `AvmStringAssumption`
and the like, which TLC evaluates in the runs) and the hypotheses given here.

| module | theorem | about | hypotheses |
|---|---|---|---|
| `ThrowContextsProof` | `TypeCorrect`, `ThrownMarksDispatchAlways`, `ChainMatchesBlocksAlways`, `UndefinedNeedsBrokenChainAlways` | the invariants and the action property of the two `throw_` runs | none |
| | `CarefulProgramsAreDefined` | no undefined behaviour at all | `Careless = {}` |
| | `ImplementsExceptionsSafely` | the safety part of `ImplementsExceptions` | `Careless = {}` |
| `StringPartsProof` | `StorageTypeCorrect`, `GrowthIsSafe` | `TypeOK`, `StorageSafe` | less than half the range, in bytes |
| | `FormatsTypeCorrect`, `NumeralsDenoteAlways`, `FloatsAreTruncatedAlways`, `FormatReadsToItsEndAlways`, `ParseStaysInsideAlways`, `RoundTripAlways` | the invariants of `formats` | none |
| `AvmStringProof` | `StringTypeCorrect`, `TextIsInitialisedAlways`, `ScansSeeTheTextAlways`, `QueriesAgreeAlways` | the invariants of `string` | `HalfTheRange` |
| | `StringGrowsAlways`, `ImplementsTextAlways` | its refinements | `HalfTheRange` |
| `ArrayListProof` | `ListTypeCorrect`, `ListGrowsAlways` | `TypeOK`, `ImplementsStorage` | `HalfTheRange` |
| | `OwnedOnceAlways`, `ImplementsListAlways` | `OwnedOnce`, `ImplementsList` | and `Ordinary` |
| `MemoryStreamProof` | `StreamTypeCorrect`, `ReadsStayInsideAlways`, `GrowsSafelyAlways`, `ImplementsByteStreamAlways` | all of `stream` | none |
| `TextFilesProof` | `FilesTypeCorrect`, `ReadsAreHonestAlways` | `TypeOK`, `ReadsAreHonest` | `SizesFit` |
| | `ReadsAreOfOneWriteAlways` | `ReadsAreOfOneWrite` | and `OneWriter` |
| `ObjectsProof` | `DeepTypesOwnTheirResourceAlways`, `EnumQueriesAgreeAlways` | the property of that name | none |
| | `ObjectsTypeCorrect` | `TypeOK` | `PointersAreWide` |
| | `ClonesAreEqualAlways` | `ClonesAreEqual` | `CloningTypesCompare` |
| `PathNamesProof` | `PathsTypeCorrect`, `SplitJoinsAlways`, `UpUndoesDownAlways`, `CombineJoinsNamesAlways` | the invariants of `paths` | none |

Every invariant of a run that is expected to pass is the statement of one of
these theorems, and so are its action properties and refinements, but for the liveness in the first.

Why the hypotheses are what the code allows:

- `HalfTheRange` and `SizesFit` say that doubling does not wrap around. Near the
  end of the range it does, and the assertions of the growth code fail
  (section 5), so that something of this kind is needed; `MemoryStream` assumes
  it in `MemoryStreamAssumption`.
- `Careless = {}`: a thread that jumps out of a try body leaves a context that is
  gone in its chain. What stays true with such threads is
  `ChainMatchesBlocksAlways` and `UndefinedNeedsBrokenChainAlways`.
- `Ordinary` leaves out insertions before the last two positions, which
  overwrite an item (section 5): `list_insert` shows it, so that no stronger
  theorem holds.
- `OneWriter`: two writers of one file do mix their texts, as two processes
  would.
- `PointersAreWide`, a pointer has four bytes or more: the table of a type with
  one entry is then never too short for the first four functions. Every platform
  that config.h knows has such pointers.
- `CloningTypesCompare`: a type that makes resources of its own for a clone also
  defines how to compare. If not, its clones differ from their originals by
  their pointers. `AvmString` and `AvmError` keep to it.
- `FormatsAssumption` asks for at least one value of each kind, and that no word
  holds a zero byte. A str ends at its first one; the text of an object could
  hold one, and then Format would write what Parse takes for the end.

The arguments, by module:

**`ThrowContextsProof`.** `BlockInv` has the type invariant,
`ThrownMarksDispatch`, and that the head of the chain of a dispatching thread is
its own top block: `Catch` and `Rethrow` read the head and change the top block.
The chain of a careful thread links its blocks that are not in a catch body,
innermost first. The definition (`Chained`) follows from block to block, so that
a push extends it, a pop or a throw to its head cuts it, and no step of another
thread touches it. With an intact chain, a throw finds a head that is live, of
its own thread and in its body. So the step that ends `"undefined"` is one of a
thread without one (`UndefinedStep`), whatever the other threads did before.

**`ThrowContextsProof`, the refinement.** While an exception is in flight, the scopes that
the abstract thread sees are those at the throw. The invariant `SearchInv` says
what the search has done with them: the blocks that are left are the front of
them, unchanged below the dispatching one, and no accepting clause was passed
over. It is needed because `Catch` has to be the delivery from the throw on, and
not only from the last rethrow on. Every other step of the search is a stutter.

**`StringPartsProof`, storage.** The invariant adds to `StorageSafe` that the
capacity stays below twice `Limit`, so that neither doubling nor adding wraps
around.

**`StringPartsProof`, formats.** In `Formats` a string is made by one call and
read by one, so that the invariants say what these calls compute, and the proofs
are about loops.
- Numerals: the digits pushed so far, read backwards, are worth what has been
  divided off (`PushingIs`), and reversing them keeps their worth. Floats: an
  integer part that is shifted and a fraction that is cut off come from one
  division by a power of two (`DividedTwice`, `Cancelled`).
- The loop over a format visits places in order and stays inside until its last
  pass (`IsWalk`). Where it ends depends on the percent signs at the end only:
  it meets the first of them at its own pass (`WalkEnds`).
- Parsing: each pass but one for `%c` leaves one more place behind it where a
  word may end (`IsPassed`), and there are as many such places as words.
- Reading back: a piece that a blank or the end of the text follows is read as
  the value that it was written from (`OneRead`; its parts are `DecimalRead`,
  `HexadecimalRead`, `IntRead`, `TruthRead` and `SkipsPiece`). In the text of a
  format with single blanks between its directives, each piece stands one blank
  behind the piece before it (`PiecesStand`), with the argument of the same
  number (`ArgumentsBelong`). So after k directives Parse has the first k values
  and is where the next piece begins (`NextRead`). `WrittenInv` says that the
  text which is parsed is the one that Format made.

**`AvmStringProof`.** The invariant `StringInv`: the capacity is what is
allocated, at most `2 * Limit`, it has room for the text, and the text consists
of characters, zero bytes perhaps among them. The last part is what bounds the
scans of raw memory: they stop at the first zero byte of the text or get over all
of it (`ScanEndIs`). A C string that begins before a zero byte ends before it
(`EndsBefore`), so that a search meets the first occurrence before the zero byte
before it meets anything behind the text, and meets nothing at all in between
(`SearchIs`). The loops are
proved by induction over their turns: `RepeatedFits` (k pushes never grow the
doubled buffer), `SweepIs` (after k turns of a replacing loop, the first k places
in its order are as `Text` says and the rest untouched, the number of
replacements being the smaller one of the occurrences so far and the number
asked for), and `SwappedInwardsIs` (after k swaps the k outermost cells at both
ends are exchanged). `NextKeeps` has for each call the invariant, one step of
`Storage` and one step of `Text`.

**`ArrayListProof`.** `ListInv` has the shape of the memory, wherever the program
inserts. For an ordinary program it also says that every slot below the length
holds an object, and that an object whose destructor does not throw is with the
program, in exactly one slot or finalised (`AllPlaced`). That is stronger than
`OwnedOnce`, which does not say where an object is that is neither with the
program nor finalised: without it, a removal could finalise an object that is
still in another slot. `AvmListClear`, which removes items from the back, is
proved by induction over its turns.

**`MemoryStreamProof`.** `StreamInv` is the shape of the list of bytes, plus the
range of the position. A write is a loop of pushes; `PushedAllHolds` is the
induction over it: the first bytes stay, the new ones follow.

**`TextFilesProof`.** `FilesInv` says for each task what its string holds at each
point of its call (`Shape`). A read that reports success was idle with room for
what was read, so that it counts nothing else. `OriginInv` says that every file
holds one written text, cut off and padded, with appended bytes behind it, that
an append in progress holds appended bytes only, that a file open for writing
holds the pieces written so far and nothing else (`HasWritten`), and that what a
reader has read so far, if its file was not opened to be written anew since, is
still the front of that file (`HasRead`). The third part needs one writer, and is
what keeps the second of two writes from ending up behind the rest of the first;
the last is what makes several reads as good as one.

**`ObjectsProof`.** `OwnershipInv` adds to the property that who has a resource
has a destructor (or the last owner could go without finalising it), and that a
resource which was not handed out has no owner (or a new object would have to
share it). One lemma for each way the heap changes is stated for any heap,
because `Pop` goes through a heap in between. `CopiesInv` follows a pair of an
original and its clone: steps touch neither unless one of them dies. Enum
queries are compared through `FirstMemberIs`: the loop finds the least index, if
there is one.

**`PathNamesProof`.** `LastPlaceOf` gives the last separator or dot of a path by
what stands at it and behind it. A name is without separators, so that it is more than what combining skips, and going up
from a combined path finds the separator that combining put in front of it
(`DownAndUp`). `Names` reads a path character by character. What is read behind
the end of a name is read as if it stood alone (`ReadingJoins`), so that the
names of two paths with a separator between them are those of the first and then
those of the second (`NamesOfCombine2`); the loop of `AvmPathCombine` adds those
of one path in each turn (`NamesOfStep`).

Induction. The induction theorems of the library take an operator as a
parameter, which the provers cannot instantiate. Here every loop is bounded by a
number n, and induction up to n is the lemma `UpTo`: a set that has 0, and k + 1
with each k below n, has all of 0..n. It follows from `LeastOf`, that a set of
numbers has a least one, which the library's theorem on the well-foundedness of
strict inclusion of finite sets gives. The loops are written as recursive
functions on 0..n, which exist by the same induction (`RunsExist` and the like):
only then is `f[n]` what the definition of the function says.

Only model-checked:

- `EveryThrowLands`, and the fairness in `Exceptions`: liveness and ENABLED are
  beyond the prover. The theorem about the refinement is therefore about its
  safety part.
- What the violations of section 5 are about.

## 7. Not modelled, and what is abstracted

The texts `snprintf` makes of doubles, the calls named `AvmStringUnsafe...`,
seeking and copying files, the calls of io.c on failing file streams, and paths
on Windows. Reflection, code generation, printing, backtraces and the garbage
collector: their outcome is decided by libraries outside this code. Out of
memory is not modelled, because the code never tests for it. Characters are a few
letters, objects and exceptions are model values, and the wording of errors is
left out. Clones of list items are deep (`Objects` has those that are not), and
of the calls whose argument may be the object itself only `AvmStringPushString`
is modelled with it. The numbers that the Replace calls return are left out. In
`TextFiles` a task is a separate process as far as failed assertions go. Seeking
a memory stream forward from the current position is not an action of its own
(`SeekBegin` leads to the same states), and seeks that throw (an offset below 0
from the beginning, above 0 from the end, or an unknown origin) change nothing
and are left out. `Objects` compares objects of the same type only: a type's
Equals takes its second argument for one of its own. `Exceptions` lets the
process end by exit or by a signal after an uncaught throw; which of the two it is
`ThrowContexts` says (`Segfault`), and no property compares.
Assertions are modelled as enabled, as in a debug build.

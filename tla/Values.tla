------------------------------- MODULE Values -------------------------------
(***************************************************************************)
(* The functions of the library that only map values to values: bit fields *)
(* and buffers (serialization.hpp), sizes of memory (the allocators), dates *)
(* (datetime.cpp), arguments from Python (pyutil.hpp) and the lines of a   *)
(* hex dump (logger.cpp).  An operator whose arguments lead the code to    *)
(* undefined behaviour gives the set of the results a build may have.      *)
(*                                                                         *)
(* A program calls one function after the other; `given` is the last call. *)
(***************************************************************************)
EXTENDS Integers, Sequences, SequencesExt

CONSTANTS
    PromotedWidth, \* bits of an int, the least that is shifted
    SizeWidth,     \* bits of a size_t
    PerLine,       \* bytes_per_line
    MicroTicks,    \* ticks of the system clock in a microsecond
    Micros,        \* microseconds in a second
    None,          \* None in Python; no name of a device
    Bad,           \* a value that no cast accepts
    Calls          \* the calls of the program, see IsCall

VARIABLE given

ASSUME ValuesAssumption ==
    /\ PromotedWidth \in Nat
    /\ SizeWidth \in Nat /\ 2 ^ SizeWidth \in Nat \ {0}
    /\ PerLine \in Nat \ {0} /\ MicroTicks \in Nat \ {0} /\ Micros \in Nat \ {0}

-----------------------------------------------------------------------------
(* Words of w bits, as the sets of the bits that are 1.                    *)

Word(w) == 0 .. w - 1

\* Narrow operands are promoted: a shift is defined below the width of an int.
Promoted(w) == IF w < PromotedWidth THEN PromotedWidth ELSE w

\* static_cast<T>(1) << bit, for which the asserts allow bit = w.
Masks(w, bit) ==
    IF bit < Promoted(w) THEN {{bit} \cap Word(w)} ELSE {{}, {bit % Promoted(w)}}

SetBit(w, word, bit, value) ==
    {IF value THEN word \cup mask ELSE word \ mask : mask \in Masks(w, bit)}

CheckBit(w, word, bit) == {word \cap mask # {} : mask \in Masks(w, bit)}

\* (1 << num_bits) - 1
LowMasks(w, n) ==
    IF n < Promoted(w) THEN {{b \in Word(w) : b < n}} ELSE {{}, Word(w)}

ShiftLeft(w, word, n) == {b + n : b \in word} \cap Word(w)
ShiftRight(w, word, n) == {b - n : b \in word} \cap Word(w)

\* Fault: the bits that were there stay.
Cleared_Not(w, word, field) == word

Cleared(w, word, field) == word \ field

SetBitfield(w, word, lsb, n, value) ==
    {Cleared(w, word, ShiftLeft(w, mask, lsb)) \cup ShiftLeft(w, value \cap mask, lsb) :
        mask \in LowMasks(w, n)}

GetBitfield(w, word, lsb, n) ==
    {ShiftRight(w, word, lsb) \cap mask : mask \in LowMasks(w, n)}

\* set_flags and get_flags: one flag after the other, from start_bit.
SetFlags(w, word, start, flags) ==
    {b \in Word(w) : IF b - start \in 0 .. Len(flags) - 1 THEN flags[b - start + 1] ELSE b \in word}
GetFlags(w, word, start, count) == [i \in 1 .. count |-> start + i - 1 \in word]

\* Items are sequences of bytes.
Serialize(buffer, items) == buffer \o FlattenSeq(items)

Deserialize(buffer, sizes) ==
    LET from[i \in 1 .. Len(sizes) + 1] == IF i = 1 THEN 1 ELSE from[i - 1] + sizes[i - 1]
    IN  [i \in 1 .. Len(sizes) |-> SubSeq(buffer, from[i], from[i + 1] - 1)]

\* The lines of a dump: at most PerLine bytes each, of the first `bytes` bytes.
Hexdump(data, bytes) ==
    LET n == IF bytes < Len(data) THEN bytes ELSE Len(data)
        lines == (n + PerLine - 1) \div PerLine
        End(i) == IF i * PerLine < n THEN i * PerLine ELSE n
    IN  [i \in 1 .. lines |-> SubSeq(data, (i - 1) * PerLine + 1, End(i))]

-----------------------------------------------------------------------------
(* Memory.                                                                 *)

PowerOfTwo(x) == \E k \in 0 .. SizeWidth - 1 : x = 2 ^ k

\* Fault: room for the alignment is not left.
MaxSize_Whole(align, size) == (2 ^ SizeWidth - 1 - align) \div size + 1

\* AlignedAllocator and PageAllocator: max_size, and the size of the block that
\* allocate gets for n objects; 0 stands for std::bad_alloc.
MaxSize(align, size) == (2 ^ SizeWidth - 1 - align) \div size

Product(n, size) == (n * size) % 2 ^ SizeWidth

\* posix_memalign may have none, and has none for another alignment.
Blocks(align, n, size) == IF PowerOfTwo(align) THEN {0, Product(n, size)} ELSE {0}

-----------------------------------------------------------------------------
(* Dates.  An instant is a number of ticks since the epoch, before it when *)
(* negative; `zone` maps seconds to the offset of the local time.          *)

Second == Micros * MicroTicks

\* Quotients of durations are cut towards zero.
Cut(x, y) == IF x < 0 THEN -((-x) \div y) ELSE x \div y

\* Fault: microseconds before the epoch are negative.
MicroOf_Signed(t) == Cut(t - Second * Cut(t, Second), MicroTicks)

MicroOf(t) ==
    LET us == Cut(t - Second * Cut(t, Second), MicroTicks)
    IN  IF us < 0 THEN us + Micros ELSE us

\* _timepoint_to_datetime: the local second stands for year to second.
Fields(zone, t) ==
    LET s == Cut(t - MicroOf(t) * MicroTicks, Second)
    IN  [local |-> s + zone[s], micro |-> MicroOf(t)]

\* _datetime_to_timepoint, which copies and assignments use as well: mktime may
\* take any second that has that local time.
TimePoints(zone, fields) ==
    {s * Second + fields.micro * MicroTicks : s \in {x \in DOMAIN zone : x + zone[x] = fields.local}}

-----------------------------------------------------------------------------
(* Arguments from Python.                                                  *)

\* Fault: an argument that is None is assigned.
Given_None(kwargs, name) == name \in DOMAIN kwargs

Given(kwargs, name) == name \in DOMAIN kwargs /\ kwargs[name] # None

\* from_kwargs: the fields in their order, up to the first that throws.
FromKwargs(struct, names, kwargs) ==
    LET throws == {i \in 1 .. Len(names) : Given(kwargs, names[i]) /\ kwargs[names[i]] = Bad}
        Reached(i) == \A j \in throws : i < j
    IN  [name \in DOMAIN struct |->
            IF \E i \in 1 .. Len(names) : names[i] = name /\ Reached(i) /\ Given(kwargs, name)
            THEN kwargs[name] ELSE struct[name]]

\* to_dict: None for the fields in `absent`, those whose predicate is asked and
\* holds; array_to_tuple copies.
ToDict(struct, absent) ==
    [name \in DOMAIN struct |-> IF name \in absent THEN None ELSE struct[name]]

-----------------------------------------------------------------------------
(* Mounted file systems: the entries of /proc/mounts, each the file system *)
(* `dev` of the device `name`, mounted on `dir` after those before it.     *)

\* The file system that stat finds at a directory: the last one mounted there.
StDev(mounts, dir) ==
    mounts[CHOOSE i \in DOMAIN mounts :
              mounts[i].dir = dir /\ \A j \in DOMAIN mounts : mounts[j].dir = dir => j <= i].dev

\* get_mount and find_mount_device: the first entry that fits; the directories
\* `hidden` cannot be looked at.
FindMountDevice(mounts, hidden, dir) ==
    LET fits == {i \in DOMAIN mounts : mounts[i].dir \notin hidden
                                       /\ StDev(mounts, mounts[i].dir) = StDev(mounts, dir)}
    IN  IF dir \in hidden \/ fits = {} THEN None ELSE mounts[CHOOSE i \in fits : \A j \in fits : i <= j].name

-----------------------------------------------------------------------------
(* The calls that a program may make, by their kinds.                      *)

\* What the asserts let pass: for a bit, the width of the word as well.
IsField(c) ==
    /\ c.width \in Nat /\ c.lsb \in Word(c.width) /\ c.n \in 1 .. c.width - c.lsb
    /\ c.word \subseteq Word(c.width) /\ c.value \subseteq Word(c.width)

IsBit(c) ==
    /\ c.width \in Nat /\ c.bit \in 0 .. c.width
    /\ c.word \subseteq Word(c.width) /\ c.value \in BOOLEAN

IsBuffer(c) == c.buffer \in Seq(0 .. 255) /\ c.items \in Seq(Seq(0 .. 255))

IsBlock(c) ==
    /\ c.align \in 0 .. 2 ^ SizeWidth - 1
    /\ c.n \in 0 .. 2 ^ SizeWidth - 1 /\ c.size \in 1 .. 2 ^ SizeWidth - 1

\* The zone is known for the second of the instant, and the one before.
IsDate(c) ==
    /\ c.instant \in Int
    /\ DOMAIN c.zone \subseteq Int /\ \A s \in DOMAIN c.zone : c.zone[s] \in Int
    /\ \A d \in -1 .. 0 : Cut(c.instant, Second) + d \in DOMAIN c.zone

\* The structures have a field for each name; a value of theirs is a value.
IsArguments(c) ==
    LET fields == {c.names[i] : i \in 1 .. Len(c.names)}
    IN  /\ c.names \in Seq(STRING) /\ DOMAIN c.other = fields
        /\ c.struct = [name \in fields |-> c.struct[name]]
        /\ \A name \in fields : c.struct[name] \notin {None, Bad}

\* The directory is mounted on; a file system is one of a device.
IsMount(c) ==
    /\ c.mounts \in Seq([dir : STRING, name : STRING, dev : STRING])
    /\ \E i \in DOMAIN c.mounts : c.mounts[i].dir = c.dir
    /\ \A i, j \in DOMAIN c.mounts :
          c.mounts[i].dev = c.mounts[j].dev => c.mounts[i].name = c.mounts[j].name

IsCall(c) ==
    CASE c.kind = "field"     -> IsField(c)
      [] c.kind = "bit"       -> IsBit(c)
      [] c.kind = "buffer"    -> IsBuffer(c)
      [] c.kind = "block"     -> IsBlock(c)
      [] c.kind = "date"      -> IsDate(c)
      [] c.kind = "arguments" -> IsArguments(c)
      [] c.kind = "mount"     -> IsMount(c)
      [] OTHER                -> FALSE

ASSUME CallsAreLegal == \A c \in Calls : IsCall(c)

NoCall == [kind |-> "none"]

ValuesInit == given = NoCall

Evaluate == given' \in Calls

ValuesSpec == ValuesInit /\ [][Evaluate]_given

-----------------------------------------------------------------------------
(* What callers rely on, for the values of one call.                       *)

\* What was written into a part of a word is read back, and the rest of the
\* word is as it was, unless the field is as wide as the shifted type.
FieldReadsBack(c) ==
    c.n < Promoted(c.width) =>
        \A new \in SetBitfield(c.width, c.word, c.lsb, c.n, c.value) :
            /\ GetBitfield(c.width, new, c.lsb, c.n) = {c.value \cap Word(c.n)}
            /\ \A b \in Word(c.width) : b \notin c.lsb .. c.lsb + c.n - 1 =>
                  CheckBit(c.width, new, b) = {(b \in c.word)}

BitReadsBack(c) ==
    c.bit < c.width =>
        \A new \in SetBit(c.width, c.word, c.bit, c.value) :
            /\ CheckBit(c.width, new, c.bit) = {c.value}
            /\ SetFlags(c.width, c.word, c.bit, <<c.value>>) = new
            /\ GetFlags(c.width, new, c.bit, 1) = <<c.value>>

\* A buffer gives back what was put behind what it held; a dump shows it all.
BufferReadsBack(c) ==
    LET full == Serialize(c.buffer, c.items)
        sizes == <<Len(c.buffer)>> \o [i \in 1 .. Len(c.items) |-> Len(c.items[i])]
        dump == Hexdump(full, Len(full))
    IN  /\ Deserialize(full, sizes) = <<c.buffer>> \o c.items
        /\ FlattenSeq(dump) = full
        /\ \A i \in 1 .. Len(dump) - 1 : Len(dump[i]) = PerLine

\* A container that keeps to max_size has the memory it asked for.
BlockIsLargeEnough(c) ==
    c.n <= MaxSize(c.align, c.size) =>
        \A block \in Blocks(c.align, c.n, c.size) \ {0} :
            block = c.n * c.size /\ block + c.align < 2 ^ SizeWidth

\* A date has microseconds below a second, and is the instant it was made from
\* to the microsecond, towards the epoch, if its local time happens once.
DateReadsBack(c) ==
    LET fields == Fields(c.zone, c.instant)
        back == MicroTicks * Cut(c.instant, MicroTicks)
        Local(s) == s + c.zone[s] = fields.local
    IN  /\ fields.micro \in 0 .. Micros - 1
        /\ back \in TimePoints(c.zone, fields)
        /\ (\A r, s \in DOMAIN c.zone : Local(r) /\ Local(s) => r = s) =>
              TimePoints(c.zone, fields) = {back}

\* A structure made into a dictionary and back is the structure; what is None
\* leaves a field alone, and a bad argument all fields from its own on.
ArgumentsReadBack(c) ==
    LET dict == ToDict(c.struct, {name \in c.checked : c.struct[name] = 0})
    IN  /\ FromKwargs(c.other, c.names, ToDict(c.struct, {})) = c.struct
        /\ \A name \in DOMAIN c.struct :
              FromKwargs(c.other, c.names, dict)[name] =
                  IF dict[name] = None THEN c.other[name] ELSE c.struct[name]
        /\ \A i \in 1 .. Len(c.names) :
              c.names[i] \notin DOMAIN c.kwargs \/ c.kwargs[c.names[i]] \in {None, Bad}
                  => FromKwargs(c.struct, c.names, c.kwargs)[c.names[i]] = c.struct[c.names[i]]

\* A directory is on the device whose file system was mounted last at it,
\* unless another was mounted over an entry that stat is asked about.
MountIsFound(c) ==
    LET covered == \E i, j \in DOMAIN c.mounts : i < j /\ c.mounts[i].dir = c.mounts[j].dir
    IN  ~covered /\ c.dir \notin c.hidden =>
            \A i \in DOMAIN c.mounts :
                c.mounts[i].dir = c.dir => FindMountDevice(c.mounts, c.hidden, c.dir) = c.mounts[i].name

\* What a call wrote is read back and what it asked for is found: bits and
\* bytes, memory, dates, arguments, mounts.
ReadBack ==
    CASE given.kind = "field"     -> FieldReadsBack(given)
      [] given.kind = "bit"       -> BitReadsBack(given)
      [] given.kind = "buffer"    -> BufferReadsBack(given)
      [] given.kind = "block"     -> BlockIsLargeEnough(given)
      [] given.kind = "date"      -> DateReadsBack(given)
      [] given.kind = "arguments" -> ArgumentsReadBack(given)
      [] given.kind = "mount"     -> MountIsFound(given)
      [] OTHER                    -> TRUE
=============================================================================

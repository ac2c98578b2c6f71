----------------------------- MODULE BoundedStrings -----------------------------
(***************************************************************************)
(* Format::strscat and Format::strscpy (format.cc): append a string to the *)
(* one in a buffer, four bytes at a time, with as much of it as fits.      *)
(*                                                                         *)
(* Memory is indexed from the start of the buffer, and goes on behind it.  *)
(* The source lies anywhere in its page; what follows its terminator is    *)
(* unknown, and read with the terminator's word.                           *)
(***************************************************************************)
EXTENDS Integers, Sequences

CONSTANTS
  PageBytes,    \* the size of a page
  Size,         \* dest_size: the size of the buffer
  Top,          \* memory behind the buffer ends here
  Source,       \* what is appended
  Beyond,       \* bytes that may follow the source's terminator
  SizeLimit     \* size_t wraps around here: 2^32 in the build

Byte == 0 .. 255
NUL  == 0
WordBytes == 4

ASSUME PageAssumption == PageBytes \in Nat \ {0} /\ PageBytes % WordBytes = 0
ASSUME SizeAssumption == {Size, Top, SizeLimit} \subseteq Nat \ {0} /\ Size <= Top /\ Top < SizeLimit
ASSUME SourceAssumption == Source \in Seq(1 .. 255)
ASSUME BeyondAssumption == Beyond \subseteq Byte

VARIABLES
  buffer,       \* the memory from the buffer on
  src,          \* where in its page the source lies
  strpc,        \* "ready", "words", "bytes", "done"
  dest, res, count, max   \* as in strscpy; dest counted from the buffer

strvars == <<buffer, src, strpc, dest, res, count, max>>

SrcLen == Len(Source)

\* The terminated string at the start of memory m ends at p.
EndsAt(m, p) == m[p] = NUL /\ \A q \in 0 .. p - 1 : m[q] # NUL

NoMemory == [p \in 0 .. Top |-> NUL]

StrInit ==
  /\ buffer = NoMemory /\ src = 0
  /\ strpc = "ready"
  /\ dest = 0 /\ res = 0 /\ count = 0 /\ max = 0

-------------------------------------------------------------------------------
\* How far words may be read: a word that is not aligned must not reach into
\* the next page, which need not be there.
LimitNone(at, n) == n
Limit(at, n) ==
  IF at % WordBytes = 0 \/ n <= PageBytes - at THEN n ELSE PageBytes - at

\* dest_size - dest_content_len, in 32 bits: as unsigned it is never negative.
RoomWhole(len) == Size
RoomOneShort(len) == (Size - len - 1) % SizeLimit
Room(len) == (Size - len) % SizeLimit

\* The buffer's own string ends at len, which may be behind the buffer.
strscat(at) ==
  /\ strpc = "ready"
  /\ \E len \in 0 .. Top :
       /\ EndsAt(buffer, len)
       /\ dest' = len /\ res' = 0
       /\ count' = Room(len) /\ max' = Limit(at, Room(len))
       /\ strpc' = IF Room(len) <= 0 THEN "done" ELSE "words"
  /\ src' = at
  /\ UNCHANGED buffer

\* The word at src + res, when b are the bytes behind the terminator.
Word(b) ==
  [k \in 0 .. 3 |->
     IF res + k < SrcLen THEN Source[res + k + 1] ELSE IF res + k = SrcLen THEN NUL ELSE b[k]]

\* The bytes whose high bit has_zero sets: ((a - ones) & ~a) & highs.  A zero
\* borrows from the byte above it, and a one passes the borrow on.
Borrow(w, k) == IF \E z \in 0 .. k - 1 : w[z] = NUL /\ \A i \in z + 1 .. k - 1 : w[i] <= 1
                  THEN 1 ELSE 0
has_zero(w) == {k \in 0 .. 3 : w[k] < 128 /\ (w[k] - 1 - Borrow(w, k)) % 256 >= 128}

\* Only the lowest of them is looked at.
IsLastFlag(f, k) == k \in f /\ \A j \in f : j <= k
IsFirstFlag(f, k) == k \in f /\ \A j \in f : k <= j

\* All the bits below a flag at byte k, and how such a mask's bytes are counted:
\* ((0x0ff0001 + mask) >> 23) & mask.
create_zero_mask(k) == <<0, 255, 65535, 16777215>>[k + 1]
count_masked_bytes(mask) == ((16711681 + mask) \div 8388608) % (mask + 1)

WordStored(w) == [p \in 0 .. Top |-> IF p - dest - res \in 0 .. 3 THEN w[p - dest - res] ELSE buffer[p]]

\* A terminated word: what is not of the string is stored as zeros.
LastWord ==
  /\ strpc = "words" /\ max >= WordBytes
  /\ \E b \in [0 .. 3 -> Beyond], k \in 0 .. 3 :
       /\ IsFirstFlag(has_zero(Word(b)), k)
       /\ buffer' = WordStored([i \in 0 .. 3 |-> IF i < k THEN Word(b)[i] ELSE NUL])
       /\ res' = res + count_masked_bytes(create_zero_mask(k))
  /\ strpc' = "done"
  /\ UNCHANGED <<src, dest, count, max>>

CopyWord ==
  /\ strpc = "words" /\ max >= WordBytes
  /\ \E b \in [0 .. 3 -> Beyond] :
       /\ has_zero(Word(b)) = {}
       /\ buffer' = WordStored(Word(b))
  /\ res' = res + WordBytes /\ count' = count - WordBytes /\ max' = max - WordBytes
  /\ UNCHANGED <<src, strpc, dest>>

EndOfWords ==
  /\ strpc = "words" /\ max < WordBytes
  /\ strpc' = "bytes"
  /\ UNCHANGED <<buffer, src, dest, res, count, max>>

CopyByte ==
  /\ strpc = "bytes" /\ count > 0
  /\ LET c == IF res < SrcLen THEN Source[res + 1] ELSE NUL IN
       /\ buffer' = [buffer EXCEPT ![dest + res] = c]
       /\ IF c = NUL THEN strpc' = "done" /\ UNCHANGED <<res, count>>
          ELSE res' = res + 1 /\ count' = count - 1 /\ UNCHANGED strpc
  /\ UNCHANGED <<src, dest, max>>

\* Everything that fits is copied: the last byte becomes the terminator.
CutOff ==
  /\ strpc = "bytes" /\ count = 0
  /\ buffer' = IF res > 0 THEN [buffer EXCEPT ![dest + res - 1] = NUL] ELSE buffer
  /\ strpc' = "done"
  /\ UNCHANGED <<src, dest, res, count, max>>

strscpy == LastWord \/ CopyWord \/ EndOfWords \/ CopyByte \/ CutOff
===============================================================================

----------------------------- MODULE UserMemory -----------------------------
(***************************************************************************)
(* How the kernel reads and writes the memory of a user task               *)
(* (mm/page_table.rs).  A user address is translated page by page; the     *)
(* bytes of a page lie in one frame, and frames that are next to each      *)
(* other in memory belong to unrelated pages.  A page that is not mapped   *)
(* yet is filled by check_page_fault, or the call ends with EFAULT.        *)
(*                                                                         *)
(* at maps the pages to frames, mem holds the bytes of the frames.  view   *)
(* is the memory the task sees, by user address; got is what the last call *)
(* read, with what it should have read.                                    *)
(***************************************************************************)
EXTENDS Integers, Sequences, FiniteSets, FiniteSetsExt, Functions, SequencesExt

CONSTANTS PageSize, Pages,    \* the task's pages are 0..Pages - 1
          Lazy,               \* pages a fault fills; the others are bad
          Frames,             \* frame numbers, in memory order
          Bytes,              \* values of a byte, 0 among them
          Sizes,              \* lengths of the objects copied
          Spanning            \* strings may end on another page

VARIABLES at, mem, view, got

vars == <<at, mem, view, got>>

NoFrame == -1
Foreign == 9                  \* a byte of a frame that is not the task's
EFAULT == "EFAULT"
Addresses == 0..Pages * PageSize - 1
Strings == UNION {[1..n -> Bytes] : n \in Sizes}
Idle == [data |-> <<>>, want |-> <<>>]

floor(va) == va \div PageSize
page_offset(va) == va % PageSize
SamePage(a, b) == floor(a) = floor(b)

\* The physical address a frame and an offset make.
Physical(frame, off) == frame * PageSize + off

\* The pages of len bytes from ptr, translated: check_page_fault fills the
\* lazy ones in turn, up to the first that is bad.
PagesOf(ptr, len) == {floor(va) : va \in ptr..ptr + len - 1}
Bad(map, page) ==
  page \notin Lazy \cup {p \in 0..Pages - 1 : map[p] # NoFrame}

check_page_fault(map, page) ==
  IF map[page] # NoFrame THEN map
  ELSE [map EXCEPT ![page] = Min(Frames \ Range(map))]

Translated(map, ptr, len) ==
  LET pages == PagesOf(ptr, len)
      before == {p \in pages : \A q \in pages : Bad(map, q) => p < q}
  IN FoldSet(LAMBDA p, m : check_page_fault(m, p), map, before)

Faults(ptr, len) == \E p \in PagesOf(ptr, len) : Bad(at, p)

Filled(map) ==
  [f \in Frames |-> IF f \in Range(map) \ Range(at)
                    THEN [off \in 0..PageSize - 1 |-> 0] ELSE mem[f]]

\* translated_byte_buffer: one slice <<frame, from, to>> for each page, the
\* last one cut at the end of the range.
translated_byte_buffer(map, ptr, len) ==
  LET first == floor(ptr)
      count == IF len = 0 THEN 0 ELSE floor(ptr + len - 1) - first + 1
      start(i) == IF i = 1 THEN ptr ELSE (first + i - 1) * PageSize
      end(i) == Min({(first + i) * PageSize, ptr + len})
  IN [i \in 1..count |->
        <<map[first + i - 1], page_offset(start(i)),
          IF page_offset(end(i)) = 0 THEN PageSize ELSE page_offset(end(i))>>]

Len3(slice) == slice[3] - slice[2]

\* Where slice i starts in the buffer.
StartOf(buf, i) == FoldFunctionOnSet(+, 0, [j \in 1..Len(buf) |-> Len3(buf[j])], 1..i - 1)

Length(buf) == StartOf(buf, Len(buf) + 1)

\* UserBuffer::index: the slice that holds a position, and where it is there.
Index(buf, k) ==
  LET i == CHOOSE j \in 1..Len(buf) :
             StartOf(buf, j) <= k /\ k < StartOf(buf, j + 1)
  IN <<buf[i][1], buf[i][2] + k - StartOf(buf, i)>>

\* UserBuffer::write_at: the part of every slice that the interval
\* offset..offset + Len(src) meets.  Mutant: the part of a slice is taken from
\* the start of the source again.
write_atAgain(m, buf, offset, src) ==
  LET from(i) == Max({StartOf(buf, i), offset})
      to(i) == Min({StartOf(buf, i + 1), Len(src) + offset})
  IN [f \in Frames |-> [off \in 0..PageSize - 1 |->
        LET meets == {i \in 1..Len(buf) :
               buf[i][1] = f /\ off \in buf[i][2] + from(i) - StartOf(buf, i)
                                     .. buf[i][2] + to(i) - StartOf(buf, i) - 1}
        IN IF meets = {} THEN m[f][off]
           ELSE LET i == CHOOSE i \in meets : TRUE
                IN src[off - buf[i][2] + StartOf(buf, i) - from(i) + 1]]]

write_at(m, buf, offset, src) ==
  LET from(i) == Max({StartOf(buf, i), offset})
      to(i) == Min({StartOf(buf, i + 1), Len(src) + offset})
  IN [f \in Frames |-> [off \in 0..PageSize - 1 |->
        LET meets == {i \in 1..Len(buf) :
               buf[i][1] = f /\ off \in buf[i][2] + from(i) - StartOf(buf, i)
                                     .. buf[i][2] + to(i) - StartOf(buf, i) - 1}
        IN IF meets = {} THEN m[f][off]
           ELSE LET i == CHOOSE i \in meets : TRUE
                IN src[off - buf[i][2] + StartOf(buf, i) - offset + 1]]]

read_at(m, buf, offset, len) ==
  LET n == Min({len, Length(buf) - offset})
      place(k) == Index(buf, offset + k - 1)
  IN IF offset >= Length(buf) THEN <<>>
     ELSE [k \in 1..n |-> m[place(k)[1]][place(k)[2]]]

\* UserBuffer::write and ::read: from the start of the buffer.
write(m, buf, src) == write_at(m, buf, 0, src)
read(m, buf, len) == read_at(m, buf, 0, len)

\* The bytes from a place on, at consecutive physical addresses.
Poke(m, frame, off, src) ==
  [f \in Frames |-> [o \in 0..PageSize - 1 |->
     LET k == Physical(f, o) - Physical(frame, off) + 1
     IN IF k \in 1..Len(src) THEN src[k] ELSE m[f][o]]]

Peek(m, frame, off, len) ==
  [k \in 1..len |->
     LET pa == Physical(frame, off) + k - 1
     IN m[pa \div PageSize][pa % PageSize]]

Seen(ptr, len) == [k \in 1..len |-> view[ptr + k - 1]]
Shown(ptr, src) ==
  [va \in Addresses |-> IF va \in ptr..ptr + Len(src) - 1
                        THEN src[va - ptr + 1] ELSE view[va]]

Init ==
  /\ at = [p \in 0..Pages - 1 |-> NoFrame]
  /\ mem = [f \in Frames |-> [off \in 0..PageSize - 1 |-> Foreign]]
  /\ view = [va \in Addresses |-> 0]
  /\ got = Idle

\* What the task finds mapped differs from run to run: an access of the task
\* itself to a lazy page.
TouchPage(page) ==
  /\ page \in Lazy /\ at[page] = NoFrame
  /\ at' = check_page_fault(at, page)
  /\ mem' = Filled(at')
  /\ got' = Idle
  /\ UNCHANGED view

\* A call that cannot translate its whole range leaves the pages it filled
\* on the way and does nothing else.
Fault(ptr, len) ==
  /\ Faults(ptr, len)
  /\ at' = Translated(at, ptr, len)
  /\ mem' = Filled(at')
  /\ got' = Idle
  /\ UNCHANGED view

\* copy_to_user and copy_to_user_array: straight into the frame when the
\* object lies in one page, else through a UserBuffer.
copy_to_user(ptr, src) ==
  /\ ~Faults(ptr, Len(src))
  /\ at' = Translated(at, ptr, Len(src))
  /\ mem' = IF SamePage(ptr, ptr + Len(src) - 1)
            THEN Poke(Filled(at'), at'[floor(ptr)], page_offset(ptr), src)
            ELSE write(Filled(at'),
                       translated_byte_buffer(at', ptr, Len(src)), src)
  /\ view' = Shown(ptr, src)
  /\ got' = Idle

\* copy_from_user, get_from_user and copy_from_user_array.
copy_from_user(ptr, len) ==
  /\ ~Faults(ptr, len)
  /\ at' = Translated(at, ptr, len)
  /\ mem' = Filled(at')
  /\ got' = [data |-> IF SamePage(ptr, ptr + len - 1)
                      THEN Peek(mem', at'[floor(ptr)], page_offset(ptr), len)
                      ELSE read(mem', translated_byte_buffer(at', ptr, len), len),
             want |-> Seen(ptr, len)]
  /\ UNCHANGED view

\* The file layers fill a buffer piece by piece: write_at and read_at.
WriteAt(ptr, len, offset, src) ==
  LET n == IF offset >= len THEN 0 ELSE Min({Len(src), len - offset})
  IN /\ ~Faults(ptr, len)
     /\ at' = Translated(at, ptr, len)
     /\ mem' = IF offset >= len THEN Filled(at')
               ELSE write_at(Filled(at'),
                             translated_byte_buffer(at', ptr, len), offset, src)
     /\ view' = Shown(ptr + offset, SubSeq(src, 1, n))
     /\ got' = Idle

ReadAt(ptr, len, offset, n) ==
  /\ ~Faults(ptr, len)
  /\ at' = Translated(at, ptr, len)
  /\ mem' = Filled(at')
  /\ got' = [data |-> read_at(mem', translated_byte_buffer(at', ptr, len), offset, n),
             want |-> Seen(ptr + offset,
                           IF offset >= len THEN 0 ELSE Min({n, len - offset}))]
  /\ UNCHANGED view

clear(ptr, len) ==
  /\ ~Faults(ptr, len)
  /\ at' = Translated(at, ptr, len)
  /\ mem' = write(Filled(at'), translated_byte_buffer(at', ptr, len),
                  [k \in 1..len |-> 0])
  /\ view' = Shown(ptr, [k \in 1..len |-> 0])
  /\ got' = Idle

\* translated_str: byte by byte up to the zero.  It faults when there is none
\* before the first bad page.
translated_str(ptr) ==
  LET ends == {va \in Addresses : va >= ptr /\ view[va] = 0}
      len == Min(ends) - ptr
      place(k) == <<at'[floor(ptr + k - 1)], page_offset(ptr + k - 1)>>
  IN /\ ends # {}
     /\ ~Faults(ptr, len + 1)
     /\ at' = Translated(at, ptr, len + 1)
     /\ mem' = Filled(at')
     /\ got' = [data |-> [k \in 1..len + 1 |-> mem'[place(k)[1]][place(k)[2]]],
                want |-> Seen(ptr, len + 1)]
     /\ UNCHANGED view

\* The bytes of the string are written where they belong; the zero after them
\* goes size bytes after the physical address of the first.
copy_to_user_string(ptr, src) ==
  LET size == Len(src)
      frame == at'[floor(ptr)]
  IN /\ Spanning \/ SamePage(ptr, ptr + size)
     /\ ptr + size \in Addresses
     /\ ~Faults(ptr, size)
     /\ at' = Translated(at, ptr, size)
     /\ mem' = IF SamePage(ptr, ptr + size)
               THEN Poke(Filled(at'), frame, page_offset(ptr), Append(src, 0))
               ELSE Poke(write(Filled(at'),
                               translated_byte_buffer(at', ptr, size), src),
                         frame, page_offset(ptr) + size, <<0>>)
     /\ view' = Shown(ptr, Append(src, 0))
     /\ got' = Idle

Next ==
  \/ \E page \in Lazy : TouchPage(page)
  \/ \E ptr \in Addresses :
       \/ \E len \in Sizes : Fault(ptr, len) \/ copy_from_user(ptr, len)
                             \/ clear(ptr, len)
       \/ \E src \in Strings : copy_to_user(ptr, src)
                               \/ copy_to_user_string(ptr, src)
       \/ \E len \in Sizes, offset \in 0..Max(Sizes), n \in Sizes :
            ReadAt(ptr, len, offset, n)
       \/ \E len \in Sizes, offset \in 0..Max(Sizes), src \in Strings :
            WriteAt(ptr, len, offset, src)
       \/ translated_str(ptr)

Spec == Init /\ [][Next]_vars

-----------------------------------------------------------------------------
(***************************************************************************)
(* What the kernel writes to a user address is what the task sees at that  *)
(* address, what it reads from there is what the task put there, and no    *)
(* byte of any other frame changes: objects that begin on one page and end *)
(* on another, whose frames are not neighbours, included.                  *)
(***************************************************************************)
UserCopiesAreExact ==
  /\ \A f \in Frames, off \in 0..PageSize - 1 :
       IF \E p \in 0..Pages - 1 : at[p] = f
       THEN mem[f][off] = view[(CHOOSE p \in 0..Pages - 1 : at[p] = f)
                                * PageSize + off]
       ELSE mem[f][off] = Foreign
  /\ got.data = got.want

=============================================================================

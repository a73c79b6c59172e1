---------------------------- MODULE FileContents ----------------------------
(***************************************************************************)
(* What a file system promises about the contents of its files: a write    *)
(* replaces a range of cells and nothing else (a gap between it and the    *)
(* old end reads as zeroes), a truncation cuts the tail                    *)
(* or appends zeroes, and a file that was unlinked stays readable until it *)
(* is closed.  Caching, allocation and eviction are invisible.  Fat        *)
(* implements it.                                                          *)
(***************************************************************************)
EXTENDS Naturals, Sequences

CONSTANTS Files, Zero, Absent,
          MaxSize    \* the largest file

VARIABLES content,         \* content[f]: the cells of f, or Absent
          linked, opened   \* files with a name, files with a descriptor

vars == <<content, linked, opened>>

Init == content = [f \in Files |-> Absent] /\ linked = {} /\ opened = {}

\* Cells off+1..off+n become the file's own mark, and those between the old end
\* and off zeroes.
Write(f, old, new) ==
  \E off \in 0..MaxSize, n \in 1..MaxSize :
    /\ Len(new) = IF off + n > Len(old) THEN off + n ELSE Len(old)
    /\ \A i \in DOMAIN new : new[i] = IF i \in (off + 1)..(off + n) THEN f
                                     ELSE IF i <= Len(old) THEN old[i] ELSE Zero

Truncate(old, new) ==
  \A i \in DOMAIN new : new[i] = IF i <= Len(old) THEN old[i] ELSE Zero

\* A write or a truncation takes the contents from now to next.
Change(f, now, next) ==
  /\ now[f] # Absent /\ next[f] # Absent /\ Len(next[f]) <= MaxSize
  /\ Truncate(now[f], next[f]) \/ Write(f, now[f], next[f])
  /\ \A g \in Files \ {f} : next[g] = now[g]
  /\ UNCHANGED <<linked, opened>>

\* A name or a descriptor comes or goes: the file is created with the first
\* and removed with the last, and unchanged otherwise.
Hold(f, now, next) ==
  LET before == f \in linked \union opened after == f \in linked' \union opened' IN
  /\ linked' \in {linked, linked \union {f}, linked \ {f}}
  /\ opened' \in {opened, opened \union {f}, opened \ {f}}
  /\ next[f] = IF before /\ after THEN now[f] ELSE IF after THEN <<>> ELSE Absent
  /\ \A g \in Files \ {f} : next[g] = now[g]

Step(now, next) == \E f \in Files : Hold(f, now, next) \/ Change(f, now, next)

\* (The quantifiers only name the contents before and after.)
Next == \E now \in {content}, next \in {content'} : Step(now, next)

Spec == Init /\ [][Next]_vars
=============================================================================

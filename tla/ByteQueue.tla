----------------------------- MODULE ByteQueue ------------------------------
(***************************************************************************)
(* What a pipe promises: a queue of at most Size bytes.  Bytes come out in *)
(* the order they went in, none is lost, doubled or made up.               *)
(***************************************************************************)
EXTENDS Naturals, Sequences

CONSTANTS Bytes, Size

VARIABLES queue,      \* the bytes in the pipe
          delivered   \* the bytes the last copy handed to a reader

Init == queue = <<>> /\ delivered = <<>>

Put == \E n \in 1..(Size - Len(queue)) : \E s \in [1..n -> Bytes] :
         queue' = queue \o s /\ delivered' = delivered

Take == \E n \in 1..Len(queue) :
          /\ delivered' = SubSeq(queue, 1, n)
          /\ queue' = SubSeq(queue, n + 1, Len(queue))

Spec == Init /\ [][Put \/ Take]_<<queue, delivered>>
=============================================================================

------------------------------- MODULE Buffer -------------------------------
(***************************************************************************)
(* src/src/buffer/buffer.cc: a vector of bytes with two positions, as      *)
(* operators on the record [buf, rp, wp].                                  *)
(*                                                                         *)
(*   buf[1]..buf[rp] prependable, ..buf[wp] readable, ..end writable       *)
(*                                                                         *)
(* Positions are the code's: offsets from the beginning, so position i is  *)
(* the cell buf[i + 1].                                                    *)
(***************************************************************************)
EXTENDS Integers, Sequences

CONSTANT Zero   (* what a byte is before anything is written to it *)

Blank(n) == [i \in 1 .. n |-> Zero]

NewBuffer(n) == [buf |-> Blank(n), rp |-> 0, wp |-> 0]

Readable(b) == b.wp - b.rp
Writable(b) == Len(b.buf) - b.wp
Prependable(b) == b.rp

Content(b) == SubSeq(b.buf, b.rp + 1, b.wp)

(* A write to the cells from getWritePos() on, and hasWritten.             *)
Written(b, s) ==
    [b EXCEPT !.buf = SubSeq(@, 1, b.wp) \o s \o SubSeq(@, b.wp + Len(s) + 1, Len(@)),
              !.wp = @ + Len(s)]

Retrieved(b, n) == [b EXCEPT !.rp = @ + n]

(* memset(&_buf, 0, size) with the vector's size: not the bytes are        *)
(* cleared but the Buffer object, a word of 8 bytes for each 8 of the size. *)
(* The vector has the first three words, _write_pos the fourth and          *)
(* _read_pos the fifth; a cell of a Buffer counts as a word here.           *)
VectorWords == 3
BufferWords == 5

RetrievedAll(b) ==
    [buf |-> <<>>,
     rp |-> IF Len(b.buf) >= BufferWords THEN 0 ELSE b.rp,
     wp |-> IF Len(b.buf) > VectorWords THEN 0 ELSE b.wp]

(* It stops in the middle of the vector, or beyond the Buffer. *)
RetrievesAstray(b) == Len(b.buf) \notin {0} \cup VectorWords .. BufferWords

Grown(b, n) == [b EXCEPT !.buf = @ \o Blank(b.wp + n + 1 - Len(@))]

(* Mutant of Compacted: the bytes stay where they are. *)
CompactedWithoutCopy(b) == [b EXCEPT !.rp = 0, !.wp = Readable(b)]

Compacted(b) ==
    [buf |-> Content(b) \o SubSeq(b.buf, Readable(b) + 1, Len(b.buf)),
     rp |-> 0,
     wp |-> Readable(b)]

(* _extendSpace *)
Extended(b, n) == IF Writable(b) + Prependable(b) < n THEN Grown(b, n) ELSE Compacted(b)

(* ensureWritable: its loop runs once at most, since either branch of      *)
(* _extendSpace makes the room.                                            *)
EnsuredWritable(b, n) == IF Writable(b) < n THEN Extended(b, n) ELSE b

Appended(b, s) == Written(EnsuredWritable(b, Len(s)), s)
=============================================================================

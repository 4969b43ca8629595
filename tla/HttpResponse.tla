---------------------------- MODULE HttpResponse ----------------------------
(***************************************************************************)
(* src/src/http/http_response.cc: the file that answers a request, mapped  *)
(* into memory, and what is written to the buffer before it.  An operator  *)
(* gives the set of outcomes that the file system allows.                  *)
(*                                                                         *)
(* A response is a sequence of cells [part, n], one for each of the        *)
(* functions that append to the buffer, and then the file.                 *)
(* mappings is the kernel's view of the mapped files.                      *)
(***************************************************************************)
EXTENDS Integers, Sequences, FiniteSets

CONSTANTS Size,       (* the sizes that files have, in cells *)
          IntLimit    (* 2^31: what an int is smaller than *)

(* A size or a sum of sizes in an int. *)
AsInt(n) == LET m == n % (2 * IntLimit) IN IF m < IntLimit THEN m ELSE m - 2 * IntLimit

NoFile == 0        (* _file = nullptr *)

(* _file and _file_stat.st_size: what outlives a response. *)
NewResponse == [file |-> NoFile, size |-> 0]

Cell(part, n) == [part |-> part, n |-> n]
FileCells(n) == [i \in 1 .. n |-> Cell("file", i)]

(* getFileLen, an int. *)
FileLen(r) == AsInt(r.size)

(* munmap takes away as much as _file_stat.st_size says. *)
Unmapped(r, mappings) ==
    {m \in mappings : m.file # r.file}
        \cup {[m EXCEPT !.len = @ - r.size] :
                 m \in {k \in mappings : k.file = r.file /\ k.len > r.size}}

(* Mutant of Released: nothing is unmapped. *)
ReleasedNever(r, mappings) == mappings

(* init: the last response's file is unmapped. *)
Released(r, mappings) == IF r.file = NoFile THEN mappings ELSE Unmapped(r, mappings)

InitResponse(r) == [r EXCEPT !.file = NoFile]

(* makeResponse: stat fails, or finds a directory, a file that others may  *)
(* not read, or a file (ok: the code is 200); a failed stat leaves         *)
(* _file_stat as it was.  With no path it is the directory of the files    *)
(* that is found.                                                          *)
StatusAndSize(r, has_path) ==
    {[ok |-> FALSE, size |-> s] : s \in Size \cup {r.size}}
        \cup {[ok |-> has_path, size |-> s] : s \in Size}

(* _errorHtml: the second stat's result is not looked at. *)
ErrorHtml(st) == IF st.ok THEN {st} ELSE {[st EXCEPT !.size = s] : s \in Size \cup {st.size}}

StateLine(ok) == <<Cell("status", IF ok THEN 1 ELSE 0)>>
Header(keep_alive) == <<Cell("keep_alive", IF keep_alive THEN 1 ELSE 0)>>
ErrorContent == <<Cell("length", 1), Cell("error", 1)>>

NewFile(mappings) ==
    CHOOSE f \in 1 .. Cardinality(mappings) + 1 : \A m \in mappings : m.file # f

(* open fails, or mmap does (which leaves the file open for good:          *)
(* descriptors of files are not counted here).                             *)
NoContent(r, mappings) ==
    {[response |-> r, mappings |-> mappings, content |-> ErrorContent]}

(* Nothing can be mapped of an empty file. *)
FileContent(r, mappings) ==
    {[response |-> [r EXCEPT !.file = f],
      mappings |-> mappings \cup {[file |-> f, len |-> r.size]},
      content |-> <<Cell("length", r.size)>>] :
         f \in IF r.size > 0 THEN {NewFile(mappings)} ELSE {}}

AddContent(r, mappings) == NoContent(r, mappings) \cup FileContent(r, mappings)

Response == [file : Nat, size : Size]
=============================================================================

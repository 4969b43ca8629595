--------------------------- MODULE HttpConnProofs ---------------------------
(***************************************************************************)
(* Proofs about HttpConn: what it has mapped and what it announces, for    *)
(* files of any size and any number of clients and requests.               *)
(***************************************************************************)
EXTENDS HttpConn, FiniteSetTheorems, SequenceTheorems, WellFoundedInduction, TLAPS

(* What the outcomes of stat leave in _file_stat is a size. *)
LEMMA StatusSize ==
    ASSUME NEW r \in Response, NEW has_path \in BOOLEAN,
           NEW s \in StatusAndSize(r, has_path), NEW st \in ErrorHtml(s)
    PROVE  st \in [ok : BOOLEAN, size : Size]
<1>1. r.size \in Size
  BY DEF Response
<1>2. \/ \E n \in Size \cup {r.size} : s = [ok |-> FALSE, size |-> n]
      \/ \E n \in Size : s = [ok |-> has_path, size |-> n]
  BY DEF StatusAndSize
<1>3. s.size \in Size /\ s \in [ok : BOOLEAN, size : Size]
  <2>1. CASE \E n \in Size \cup {r.size} : s = [ok |-> FALSE, size |-> n]
    BY <1>1, <2>1
  <2>2. CASE \E n \in Size : s = [ok |-> has_path, size |-> n]
    BY <2>2
  <2>3. QED
    BY <1>2, <2>1, <2>2
<1>4. QED
  BY <1>1, <1>3 DEF ErrorHtml

(* A new mapping has an address. *)
LEMMA NewFileInNat ==
    NewFile({}) \in Nat \ {NoFile}
<1>1. Cardinality({}) = 0
  BY FS_EmptySet
<1>2. \E f \in 1 .. Cardinality({}) + 1 : \A m \in {} : m.file # f
  BY <1>1
<1>3. NewFile({}) \in 1 .. Cardinality({}) + 1
  BY <1>2 DEF NewFile
<1>4. QED
  BY <1>1, <1>3 DEF NoFile

(* init gives back all that the last response has mapped. *)
LEMMA ReleasedAll ==
    ASSUME NEW r \in Response, NEW maps,
           maps = IF r.file = NoFile THEN {} ELSE {[file |-> r.file, len |-> r.size]}
    PROVE  Released(r, maps) = {}
<1>1. r.size \in Nat
  BY ConnAssumption DEF Response
<1>2. CASE r.file = NoFile
  BY <1>2 DEF Released
<1>3. CASE r.file # NoFile
  <2>1. \A m \in maps : m.file = r.file /\ m.len = r.size
    BY <1>3
  <2>2. {k \in maps : k.file = r.file /\ k.len > r.size} = {}
    BY <1>1, <2>1
  <2>3. {m \in maps : m.file # r.file} = {}
    BY <2>1
  <2>4. QED
    BY <1>3, <2>2, <2>3 DEF Released, Unmapped
<1>4. QED
  BY <1>2, <1>3

MapsAre(r, maps) ==
    maps = IF r.file = NoFile THEN {} ELSE {[file |-> r.file, len |-> r.size]}

(* What makeResponse has mapped is what the response points to, and what   *)
(* it declares is the length of the file, or that of the error's text.     *)
LEMMA ContentExact ==
    ASSUME NEW r \in Response, r.file = NoFile, NEW out \in AddContent(r, {})
    PROVE  /\ out.response \in Response
           /\ MapsAre(out.response, out.mappings)
           /\ \/ /\ out.content = <<Cell("length", 1), Cell("error", 1)>>
                 /\ out.response.file = NoFile
              \/ /\ out.content = <<Cell("length", out.response.size)>>
                 /\ out.response.size > 0 /\ out.response.file # NoFile
<1>1. CASE out \in NoContent(r, {})
  <2>1. out.response = r /\ out.mappings = {} /\ out.content = ErrorContent
    BY <1>1 DEF NoContent
  <2>2. QED
    BY <2>1 DEF MapsAre, ErrorContent
<1>2. CASE out \in FileContent(r, {})
  <2>1. /\ r.size > 0
        /\ out.response = [r EXCEPT !.file = NewFile({})]
        /\ out.mappings = {[file |-> NewFile({}), len |-> r.size]}
        /\ out.content = <<Cell("length", r.size)>>
    BY <1>2 DEF FileContent
  <2>2. /\ out.response.file = NewFile({}) /\ out.response.size = r.size
        /\ out.response \in Response
    BY <2>1, NewFileInNat DEF Response
  <2>3. QED
    BY <2>1, <2>2, NewFileInNat DEF MapsAre
<1>3. QED
  BY <1>1, <1>2 DEF AddContent

-----------------------------------------------------------------------------
ResponseInv == response \in Response /\ MapsAre(response, mappings) /\ LengthDeclared

LEMMA ResponseInit == Init => ResponseInv
<1>1. SUFFICES ASSUME Init PROVE ResponseInv
  OBVIOUS
<1>2. response \in Response
  BY <1>1, ConnAssumption DEF Init, NewResponse, Response, NoFile
<1>3. MapsAre(response, mappings)
  BY <1>1 DEF Init, NewResponse, MapsAre
<1>4. LengthDeclared
  BY <1>1 DEF Init, LengthDeclared
<1>5. QED
  BY <1>2, <1>3, <1>4 DEF ResponseInv

(* The two shapes of an answer: with a body of its own, and with a file.   *)
Parts == {"status", "keep_alive", "length", "error", "file"}
AnyCell == [part : Parts, n : Nat]

LEMMA CellInAnyCell ==
    ASSUME NEW p \in Parts, NEW n \in Nat
    PROVE  Cell(p, n) \in AnyCell /\ Cell(p, n).part = p /\ Cell(p, n).n = n
<1>1. QED
  BY DEF Cell, AnyCell

LEMMA AfterHead ==
    ASSUME NEW a \in AnyCell, NEW b \in AnyCell, NEW c \in Seq(AnyCell)
    PROVE  /\ <<a>> \o <<b>> \o c \in Seq(AnyCell)
           /\ Len(<<a>> \o <<b>> \o c) = Len(c) + 2
           /\ (<<a>> \o <<b>> \o c)[1] = a
           /\ (<<a>> \o <<b>> \o c)[2] = b
           /\ \A i \in 1 .. Len(c) : (<<a>> \o <<b>> \o c)[i + 2] = c[i]
<1>1. <<a>> \in Seq(AnyCell) /\ <<b>> \in Seq(AnyCell)
  OBVIOUS
<1>2. PICK h \in Seq(AnyCell) : h = <<a>> \o <<b>> /\ Len(h) = 2 /\ h[1] = a /\ h[2] = b
  <2>1. Len(<<a>>) = 1 /\ Len(<<b>>) = 1 /\ <<a>>[1] = a /\ <<b>>[1] = b
    OBVIOUS
  <2>2. /\ <<a>> \o <<b>> \in Seq(AnyCell)
        /\ Len(<<a>> \o <<b>>) = Len(<<a>>) + Len(<<b>>)
        /\ \A i \in 1 .. Len(<<a>>) + Len(<<b>>) :
              (<<a>> \o <<b>>)[i] = IF i <= Len(<<a>>) THEN <<a>>[i] ELSE <<b>>[i - Len(<<a>>)]
    BY <1>1, ConcatProperties, Zenon
  <2>3. Len(<<a>> \o <<b>>) = 2 /\ (<<a>> \o <<b>>)[1] = a /\ (<<a>> \o <<b>>)[2] = b
    BY <2>1, <2>2
  <2>4. QED
    BY <2>2, <2>3
<1>3. /\ h \o c \in Seq(AnyCell) /\ Len(h \o c) = Len(c) + 2
      /\ (h \o c)[1] = a /\ (h \o c)[2] = b
      /\ \A i \in 1 .. Len(c) : (h \o c)[i + 2] = c[i]
  BY <1>2, ConcatProperties
<1>4. QED
  BY <1>2, <1>3

(* Where a response declares a length, no more cells follow, and that many *)
(* of a length that an int holds.                                          *)
Declares(t) ==
    \A i \in 1 .. Len(t) :
        t[i].part = "length" => /\ Len(t) - i <= t[i].n
                                /\ t[i].n < IntLimit => Len(t) - i = t[i].n

LEMMA LengthOfError ==
    ASSUME NEW a \in AnyCell, NEW b \in AnyCell, a.part # "length", b.part # "length"
    PROVE  Declares(<<a>> \o <<b>> \o <<Cell("length", 1), Cell("error", 1)>>)
<1>1. PICK l \in AnyCell : l = Cell("length", 1) /\ l.n = 1
  BY CellInAnyCell DEF Parts
<1>2. PICK e \in AnyCell : e = Cell("error", 1) /\ e.part = "error"
  BY CellInAnyCell DEF Parts
<1>3. PICK c \in Seq(AnyCell) : c = <<l, e>> /\ Len(c) = 2 /\ c[1] = l /\ c[2] = e
  <2>1. <<l, e>> \in Seq(AnyCell)
    OBVIOUS
  <2>2. Len(<<l, e>>) = 2 /\ <<l, e>>[1] = l /\ <<l, e>>[2] = e
    OBVIOUS
  <2>3. QED
    BY <2>1, <2>2, Zenon
<1>4. PICK t \in Seq(AnyCell) :
          /\ t = <<a>> \o <<b>> \o c
          /\ Len(t) = 4 /\ t[1] = a /\ t[2] = b
          /\ \A i \in 1 .. 2 : t[i + 2] = c[i]
  <2>1. /\ <<a>> \o <<b>> \o c \in Seq(AnyCell)
        /\ Len(<<a>> \o <<b>> \o c) = Len(c) + 2
        /\ (<<a>> \o <<b>> \o c)[1] = a /\ (<<a>> \o <<b>> \o c)[2] = b
        /\ \A i \in 1 .. Len(c) : (<<a>> \o <<b>> \o c)[i + 2] = c[i]
    BY AfterHead
  <2>2. PICK t \in Seq(AnyCell) :
            /\ t = <<a>> \o <<b>> \o c
            /\ Len(t) = Len(c) + 2 /\ t[1] = a /\ t[2] = b
            /\ \A i \in 1 .. Len(c) : t[i + 2] = c[i]
    BY <2>1, Zenon
  <2>3. Len(t) = 4 /\ \A i \in 1 .. 2 : t[i + 2] = c[i]
    BY <1>3, <2>2
  <2>4. QED
    BY <2>2, <2>3, Zenon
<1>5. t[1 + 2] = l /\ t[2 + 2] = e
  BY <1>3, <1>4
<1>6. t[3] = l /\ t[4] = e
  BY <1>5
<1>7. Declares(t)
  <2>1. SUFFICES ASSUME NEW i \in 1 .. 4, t[i].part = "length" PROVE t[i].n = 4 - i
    BY <1>4 DEF Declares
  <2>2. i = 3
    BY <1>2, <1>4, <1>6, <2>1
  <2>3. QED
    BY <1>1, <1>6, <2>2
<1>8. QED
  BY <1>1, <1>2, <1>3, <1>4, <1>7

LEMMA FileCellsAre ==
    ASSUME NEW n \in Nat
    PROVE  /\ FileCells(n) \in Seq(AnyCell) /\ Len(FileCells(n)) = n
           /\ \A k \in 1 .. n : FileCells(n)[k].part = "file"
<1>1. \A i \in 1 .. n : Cell("file", i) \in AnyCell /\ Cell("file", i).part = "file"
  BY CellInAnyCell DEF Parts
<1>2. FileCells(n) = [i \in 1 .. n |-> Cell("file", i)]
  BY DEF FileCells
<1>3. FileCells(n) \in [1 .. n -> AnyCell]
  BY <1>1, <1>2
<1>4. FileCells(n) \in Seq(AnyCell) /\ Len(FileCells(n)) = n
  BY <1>3
<1>5. QED
  BY <1>1, <1>2, <1>4

LEMMA LengthOfFile ==
    ASSUME NEW a \in AnyCell, NEW b \in AnyCell, a.part # "length", b.part # "length",
           NEW n \in Nat, NEW m \in Nat, m <= n, n < IntLimit => m = n
    PROVE  Declares(<<a>> \o <<b>> \o <<Cell("length", n)>> \o FileCells(m))
<1>1. PICK l \in AnyCell : l = Cell("length", n) /\ l.n = n
  BY CellInAnyCell DEF Parts
<1>2. PICK f \in Seq(AnyCell) :
          f = FileCells(m) /\ Len(f) = m /\ \A k \in 1 .. m : f[k].part = "file"
  BY FileCellsAre
<1>3. PICK c \in Seq(AnyCell) : c = <<l>> /\ Len(c) = 1 /\ c[1] = l
  <2>1. <<l>> \in Seq(AnyCell)
    OBVIOUS
  <2>2. Len(<<l>>) = 1 /\ <<l>>[1] = l
    OBVIOUS
  <2>3. QED
    BY <2>1, <2>2, Zenon
<1>4. PICK h \in Seq(AnyCell) :
          /\ h = <<a>> \o <<b>> \o c
          /\ Len(h) = 3 /\ h[1] = a /\ h[2] = b
          /\ \A i \in 1 .. 1 : h[i + 2] = c[i]
  <2>1. /\ <<a>> \o <<b>> \o c \in Seq(AnyCell)
        /\ Len(<<a>> \o <<b>> \o c) = Len(c) + 2
        /\ (<<a>> \o <<b>> \o c)[1] = a /\ (<<a>> \o <<b>> \o c)[2] = b
        /\ \A i \in 1 .. Len(c) : (<<a>> \o <<b>> \o c)[i + 2] = c[i]
    BY AfterHead
  <2>2. PICK h \in Seq(AnyCell) :
            /\ h = <<a>> \o <<b>> \o c
            /\ Len(h) = Len(c) + 2 /\ h[1] = a /\ h[2] = b
            /\ \A i \in 1 .. Len(c) : h[i + 2] = c[i]
    BY <2>1, Zenon
  <2>3. Len(h) = 3 /\ \A i \in 1 .. 1 : h[i + 2] = c[i]
    BY <1>3, <2>2
  <2>4. QED
    BY <2>2, <2>3, Zenon
<1>5. h[1 + 2] = l
  BY <1>3, <1>4
<1>6. h[3] = l
  BY <1>5
<1>7. PICK t \in Seq(AnyCell) :
          /\ t = h \o f
          /\ Len(t) = m + 3
          /\ \A i \in 1 .. m + 3 : t[i] = IF i <= 3 THEN h[i] ELSE f[i - 3]
  <2>1. /\ h \o f \in Seq(AnyCell)
        /\ Len(h \o f) = Len(h) + Len(f)
        /\ \A i \in 1 .. Len(h) + Len(f) :
              (h \o f)[i] = IF i <= Len(h) THEN h[i] ELSE f[i - Len(h)]
    BY ConcatProperties, Zenon
  <2>2. PICK t \in Seq(AnyCell) :
            /\ t = h \o f
            /\ Len(t) = Len(h) + Len(f)
            /\ \A i \in 1 .. Len(h) + Len(f) :
                  t[i] = IF i <= Len(h) THEN h[i] ELSE f[i - Len(h)]
    BY <2>1, Zenon
  <2>3. Len(t) = m + 3 /\ \A i \in 1 .. m + 3 : t[i] = IF i <= 3 THEN h[i] ELSE f[i - 3]
    BY <1>2, <1>4, <2>2
  <2>4. QED
    BY <2>2, <2>3, Zenon
<1>8. Declares(t)
  <2>1. SUFFICES ASSUME NEW i \in 1 .. m + 3, t[i].part = "length"
                 PROVE  /\ m + 3 - i <= t[i].n
                        /\ t[i].n < IntLimit => m + 3 - i = t[i].n
    BY <1>7 DEF Declares
  <2>2. i <= 3
    BY <1>2, <1>7, <2>1
  <2>3. t[i] = h[i]
    BY <1>7, <2>2
  <2>4. i = 3
    BY <1>4, <2>1, <2>2, <2>3
  <2>5. QED
    BY <1>1, <1>6, <2>3, <2>4
<1>9. QED
  BY <1>1, <1>2, <1>3, <1>4, <1>7, <1>8

(* A number in an int. *)
LEMMA AsIntIs ==
    ASSUME NEW n \in Nat
    PROVE  /\ AsInt(n) \in Int /\ AsInt(n) <= n /\ AsInt(n) < IntLimit
           /\ n < IntLimit => AsInt(n) = n
           /\ n < 2 * IntLimit /\ AsInt(n) = 0 => n = 0
<1>1. PICK d \in Nat : d = 2 * IntLimit /\ d > 0 /\ IntLimit > 0 /\ IntLimit \in Nat
  BY ConnAssumption
<1>2. PICK m : m = n % d
  OBVIOUS
<1>3. m \in 0 .. d - 1
  BY <1>1, <1>2
<1>4. m <= n
  BY <1>1, <1>2
<1>5. n < d => m = n
  BY <1>1, <1>2
<1>6. AsInt(n) = IF m < IntLimit THEN m ELSE m - d
  BY <1>1, <1>2, Zenon DEF AsInt
<1>7. QED
  BY <1>1, <1>3, <1>4, <1>5, <1>6

(* getFileLen of a file that an int cannot hold is less than its size. *)
LEMMA FileLenIs ==
    ASSUME NEW r \in Response
    PROVE  /\ FileLen(r) \in Int /\ FileLen(r) <= r.size /\ FileLen(r) < IntLimit
           /\ r.size < IntLimit => FileLen(r) = r.size
<1>1. r.size \in Nat
  BY ConnAssumption DEF Response
<1>2. QED
  BY <1>1, AsIntIs DEF FileLen

(* What the client is sent, head and file. *)
AnswerOf(head, out) ==
    IF HasFile(out.response)
    THEN head[1] \o head[2] \o out.content \o FileCells(FileLen(out.response))
    ELSE head[1] \o head[2] \o out.content

LEMMA RespondMakes ==
    ASSUME Respond
    PROVE  \E s \in StatusAndSize(response, HasPath(request)) : \E st \in ErrorHtml(s) :
           \E out \in AddContent([InitResponse(response) EXCEPT !.size = st.size],
                                 Released(response, mappings)) :
               /\ response' = out.response
               /\ mappings' = out.mappings
               /\ answer' = AnswerOf(<<StateLine(st.ok),
                                       Header(parsed /\ IsKeepAlive(request))>>, out)
<1>1. PICK s \in StatusAndSize(response, HasPath(request)) : \E st \in ErrorHtml(s) :
      \E out \in AddContent([InitResponse(response) EXCEPT !.size = st.size],
                            Released(response, mappings)) :
          LET head == <<StateLine(st.ok), Header(parsed /\ IsKeepAlive(request))>> IN
          /\ response' = out.response
          /\ mappings' = out.mappings
          /\ IF HasFile(out.response)
             THEN /\ iov1' = [file |-> out.response.file, off |-> 0, len |-> FileLen(out.response)]
                  /\ answer' = head[1] \o head[2] \o out.content \o FileCells(iov1'.len)
             ELSE answer' = head[1] \o head[2] \o out.content
  BY Zenon DEF Respond
<1>2. PICK st \in ErrorHtml(s) :
      \E out \in AddContent([InitResponse(response) EXCEPT !.size = st.size],
                            Released(response, mappings)) :
          LET head == <<StateLine(st.ok), Header(parsed /\ IsKeepAlive(request))>> IN
          /\ response' = out.response
          /\ mappings' = out.mappings
          /\ IF HasFile(out.response)
             THEN /\ iov1' = [file |-> out.response.file, off |-> 0, len |-> FileLen(out.response)]
                  /\ answer' = head[1] \o head[2] \o out.content \o FileCells(iov1'.len)
             ELSE answer' = head[1] \o head[2] \o out.content
  BY <1>1
<1> DEFINE head == <<StateLine(st.ok), Header(parsed /\ IsKeepAlive(request))>>
<1>3. PICK out \in AddContent([InitResponse(response) EXCEPT !.size = st.size],
                              Released(response, mappings)) :
          /\ response' = out.response
          /\ mappings' = out.mappings
          /\ IF HasFile(out.response)
             THEN /\ iov1' = [file |-> out.response.file, off |-> 0, len |-> FileLen(out.response)]
                  /\ answer' = head[1] \o head[2] \o out.content \o FileCells(iov1'.len)
             ELSE answer' = head[1] \o head[2] \o out.content
  BY <1>2
<1> HIDE DEF head
<1>4. answer' = AnswerOf(head, out)
  <2>1. CASE HasFile(out.response)
    <3>1. iov1'.len = FileLen(out.response)
      BY <1>3, <2>1
    <3>2. QED
      BY <1>3, <2>1, <3>1, Zenon DEF AnswerOf
  <2>2. CASE ~HasFile(out.response)
    BY <1>3, <2>2, Zenon DEF AnswerOf
  <2>3. QED
    BY <2>1, <2>2
<1>5. QED
  BY <1>3, <1>4, Zenon DEF head

-----------------------------------------------------------------------------
LEMMA ResponseStep == ResponseInv /\ [Next]_vars => ResponseInv'
<1>1. SUFFICES ASSUME ResponseInv, [Next]_vars PROVE ResponseInv'
  OBVIOUS
<1>2. CASE Respond
  <2>1. PICK s \in StatusAndSize(response, HasPath(request)) : \E st \in ErrorHtml(s) :
        \E out \in AddContent([InitResponse(response) EXCEPT !.size = st.size],
                              Released(response, mappings)) :
            /\ response' = out.response
            /\ mappings' = out.mappings
            /\ answer' = AnswerOf(<<StateLine(st.ok),
                                    Header(parsed /\ IsKeepAlive(request))>>, out)
    BY <1>2, RespondMakes
  <2>2. PICK st \in ErrorHtml(s) :
        \E out \in AddContent([InitResponse(response) EXCEPT !.size = st.size],
                              Released(response, mappings)) :
            /\ response' = out.response
            /\ mappings' = out.mappings
            /\ answer' = AnswerOf(<<StateLine(st.ok),
                                    Header(parsed /\ IsKeepAlive(request))>>, out)
    BY <2>1
  <2> DEFINE r == [InitResponse(response) EXCEPT !.size = st.size]
             head == <<StateLine(st.ok), Header(parsed /\ IsKeepAlive(request))>>
  <2>3. Released(response, mappings) = {}
    BY <1>1, ReleasedAll DEF ResponseInv, MapsAre
  <2>4. st.size \in Size
    <3>1. HasPath(request) \in BOOLEAN /\ response \in Response
      BY <1>1 DEF HasPath, ResponseInv
    <3>2. st \in [ok : BOOLEAN, size : Size]
      BY <3>1, StatusSize
    <3>3. QED
      BY <3>2
  <2>5. r \in Response /\ r.file = NoFile
    <3>1. response \in [file : Nat, size : Size]
      BY <1>1 DEF ResponseInv, Response
    <3>2. QED
      BY <2>4, <3>1 DEF InitResponse, Response, NoFile
  <2>6. PICK out \in AddContent(r, {}) :
            /\ response' = out.response
            /\ mappings' = out.mappings
            /\ answer' = AnswerOf(head, out)
    BY <2>2, <2>3
  <2>7. PICK a \in AnyCell : head[1] = <<a>> /\ a.part # "length"
    <3>1. \E n \in Nat : head[1] = <<Cell("status", n)>>
      BY DEF StateLine
    <3>2. QED
      BY <3>1, CellInAnyCell DEF Parts
  <2>8. PICK b \in AnyCell : head[2] = <<b>> /\ b.part # "length"
    <3>1. \E n \in Nat : head[2] = <<Cell("keep_alive", n)>>
      BY DEF Header
    <3>2. QED
      BY <3>1, CellInAnyCell DEF Parts
  <2> HIDE DEF r, head
  <2>9. /\ out.response \in Response
        /\ MapsAre(out.response, out.mappings)
        /\ \/ /\ out.content = <<Cell("length", 1), Cell("error", 1)>>
              /\ out.response.file = NoFile
           \/ /\ out.content = <<Cell("length", out.response.size)>>
              /\ out.response.size > 0 /\ out.response.file # NoFile
    BY <2>5, ContentExact
  <2>10. Declares(answer')
    <3> DEFINE n == out.response.size
    <3>1. /\ n \in Nat /\ FileLen(out.response) \in Int
          /\ FileLen(out.response) <= n
          /\ n < IntLimit => FileLen(out.response) = n
      BY <2>9, ConnAssumption, FileLenIs DEF Response
    <3>2. CASE HasFile(out.response)
      <4>1. out.content = <<Cell("length", n)>>
        BY <2>9, <3>2 DEF HasFile
      <4>2. answer' = <<a>> \o <<b>> \o <<Cell("length", n)>>
                        \o FileCells(FileLen(out.response))
        BY <2>6, <2>7, <2>8, <3>2, <4>1 DEF AnswerOf
      <4>3. FileLen(out.response) \in Nat
        BY <3>1, <3>2 DEF HasFile
      <4>4. QED
        BY <2>7, <2>8, <3>1, <4>2, <4>3, LengthOfFile
    <3>3. CASE ~HasFile(out.response) /\ out.response.file # NoFile
      <4>1. out.content = <<Cell("length", n)>> /\ 0 <= n /\ ~(n < IntLimit)
        BY <2>9, <3>1, <3>3 DEF HasFile
      <4>2. answer' = <<a>> \o <<b>> \o <<Cell("length", n)>>
        BY <2>6, <2>7, <2>8, <3>3, <4>1 DEF AnswerOf
      <4>3. answer' = <<a>> \o <<b>> \o <<Cell("length", n)>> \o FileCells(0)
        <5>1. FileCells(0) = <<>>
          BY FileCellsAre, EmptySeq
        <5>2. Cell("length", n) \in AnyCell
          BY <3>1, CellInAnyCell DEF Parts
        <5>3. <<a>> \o <<b>> \o <<Cell("length", n)>> \in Seq(AnyCell)
          BY <5>2, AfterHead
        <5>4. QED
          BY <4>2, <5>1, <5>3, ConcatEmptySeq
      <4>4. QED
        BY <2>7, <2>8, <3>1, <4>1, <4>3, LengthOfFile
    <3>4. CASE out.response.file = NoFile
      <4>1. answer' = <<a>> \o <<b>> \o <<Cell("length", 1), Cell("error", 1)>>
        BY <2>6, <2>7, <2>8, <2>9, <3>4 DEF AnswerOf, HasFile
      <4>2. QED
        BY <2>7, <2>8, <4>1, LengthOfError
    <3>5. QED
      BY <3>2, <3>3, <3>4
  <2>11. QED
    BY <2>6, <2>9, <2>10 DEF ResponseInv, MapsAre, LengthDeclared, Declares
<1>3. CASE Connect
  BY <1>1, <1>3 DEF Connect, ResponseInv, MapsAre, LengthDeclared
<1>4. CASE UNCHANGED <<response, mappings, answer>>
  BY <1>1, <1>4 DEF ResponseInv, MapsAre, LengthDeclared
<1>5. Read \/ Process \/ ProcessEnds \/ Parse \/ Write => UNCHANGED <<response, mappings, answer>>
  BY DEF Read, ReadSome, ReadPastEnd, ReadAsserts, ReadNothing, ReadEnds, ReadVarsKept,
         Process, ProcessEnds, ProcessVarsKept, Parse, ParseLineFails, ParseLastLine,
         ParseNextLine, ParseOvershot, ParseEnds, ParseDone, Write, WriteSome, WriteNothing, WriteAgain, WriteFails,
         WriteStray, WriteVarsKept, respVars
<1>6. Arrive \/ (\E r \in Requests : Ask(r)) \/ Ready \/ HangUp \/ Rest \/ UNCHANGED vars
        => UNCHANGED <<response, mappings, answer>>
  BY DEF Arrive, Ask, Ready, HangUp, Rest, respVars, vars
<1>7. QED
  BY <1>1, <1>2, <1>3, <1>4, <1>5, <1>6 DEF Next, Server, Client

LEMMA ResponseAlways == Spec => []ResponseInv
<1>1. QED
  BY ResponseInit, ResponseStep, PTL DEF Spec

(* An HttpConn maps one file at most, as long as _file_stat says, whatever *)
(* sequence of responses, clients and failures it has seen                 *)
(* (http_response.cc 54-57, 168-173), unless retrieveAll has run over it.  *)
THEOREM MappingAlwaysExact == Spec => []MappingExact
<1>1. ResponseInv => MappingExact
  BY DEF ResponseInv, MapsAre, MappingExact
<1>2. QED
  BY <1>1, ResponseAlways, PTL

(* The declared length is never less than the body, and is the body's for  *)
(* every size that an int holds, for any outcome of stat, open and mmap    *)
(* (http_response.cc 78-80, 106-128, 152-166, http_conn.cc 100-104).       *)
THEOREM LengthAlwaysDeclared == Spec => []LengthDeclared
<1>1. ResponseInv => LengthDeclared
  BY DEF ResponseInv
<1>2. QED
  BY <1>1, ResponseAlways, PTL

-----------------------------------------------------------------------------
(* The Buffer: of a stream of bytes, and of the cells of a response. *)

Item == Byte \cup AnyCell

LEMMA BytesAreItems ==
    ASSUME NEW r \in Seq(Byte)
    PROVE  r \in Seq(Item)
<1>1. QED
  BY DEF Item

BufferOK(b) == /\ b \in [buf : Seq(Item), rp : Nat, wp : Nat]
               /\ b.wp <= Len(b.buf)

LEMMA Part ==
    ASSUME NEW x \in Seq(Item), NEW m \in Nat, NEW n \in Nat, m <= n, n <= Len(x)
    PROVE  \E l \in Seq(Item) :
               /\ l = SubSeq(x, m + 1, n)
               /\ Len(l) = n - m
               /\ \A i \in 1 .. n - m : l[i] = x[m + i]
<1>1. PICK j \in Int : j = m + 1
  OBVIOUS
<1>2. n \in Int /\ \A i \in j .. n : x[i] \in Item
  BY <1>1, LenProperties, ElementOfSeq
<1>3. PICK l : /\ l = SubSeq(x, j, n)
               /\ l \in Seq(Item)
               /\ Len(l) = IF j <= n THEN n - j + 1 ELSE 0
               /\ \A i \in 1 .. n - j + 1 : l[i] = x[j + i - 1]
  <2>1. /\ SubSeq(x, j, n) \in Seq(Item)
        /\ Len(SubSeq(x, j, n)) = IF j <= n THEN n - j + 1 ELSE 0
        /\ \A i \in 1 .. n - j + 1 : SubSeq(x, j, n)[i] = x[j + i - 1]
    BY <1>2, SubSeqProperties, SMTT(60)
  <2>2. QED
    BY <2>1, Zenon
<1>4. Len(l) = n - m
  BY <1>1, <1>3
<1>5. \A i \in 1 .. n - m : l[i] = x[m + i]
  <2>1. SUFFICES ASSUME NEW i \in 1 .. n - m PROVE l[i] = x[m + i]
    OBVIOUS
  <2>2. i \in 1 .. n - j + 1 /\ j + i - 1 = m + i
    BY <1>1
  <2>3. QED
    BY <1>3, <2>2, Zenon
<1>6. QED
  BY <1>1, <1>3, <1>4, <1>5, Zenon

(* A Buffer with another vector, or another write position as well. *)
LEMMA BufferExcept ==
    ASSUME NEW x, NEW p, NEW q, NEW y, NEW w, NEW b, b = [buf |-> x, rp |-> p, wp |-> q]
    PROVE  /\ [b EXCEPT !.buf = y] = [buf |-> y, rp |-> p, wp |-> q]
           /\ [b EXCEPT !.buf = y, !.wp = w] = [buf |-> y, rp |-> p, wp |-> w]
<1>1. [b EXCEPT !.buf = y] = [buf |-> y, rp |-> p, wp |-> q]
  OBVIOUS
<1>2. PICK c : c = [buf |-> y, rp |-> p, wp |-> q]
  OBVIOUS
<1>3. [c EXCEPT !.wp = w] = [buf |-> y, rp |-> p, wp |-> w]
  BY <1>2
<1>4. [b EXCEPT !.buf = y, !.wp = w] = [[b EXCEPT !.buf = y] EXCEPT !.wp = w]
  OBVIOUS
<1>5. QED
  BY <1>1, <1>2, <1>3, <1>4, Zenon

LEMMA Joined ==
    ASSUME NEW x \in Seq(Item), NEW y \in Seq(Item)
    PROVE  \E l \in Seq(Item) :
               /\ l = x \o y
               /\ Len(l) = Len(x) + Len(y)
               /\ \A i \in 1 .. Len(x) : l[i] = x[i]
               /\ \A i \in 1 .. Len(y) : l[Len(x) + i] = y[i]
<1>1. /\ x \o y \in Seq(Item)
      /\ Len(x \o y) = Len(x) + Len(y)
      /\ \A i \in 1 .. Len(x) + Len(y) :
             (x \o y)[i] = IF i <= Len(x) THEN x[i] ELSE y[i - Len(x)]
  BY ConcatProperties, Zenon
<1>2. PICK l : /\ l = x \o y
               /\ l \in Seq(Item)
               /\ Len(l) = Len(x) + Len(y)
               /\ \A i \in 1 .. Len(x) + Len(y) :
                      l[i] = IF i <= Len(x) THEN x[i] ELSE y[i - Len(x)]
  BY <1>1, Zenon
<1>3. Len(x) \in Nat /\ Len(y) \in Nat
  BY LenProperties
<1>4. \A i \in 1 .. Len(x) : l[i] = x[i]
  BY <1>2, <1>3
<1>5. \A i \in 1 .. Len(y) : l[Len(x) + i] = y[i]
  BY <1>2, <1>3
<1>6. QED
  BY <1>2, <1>4, <1>5, Zenon

(* A write adds its bytes after those that are there. *)
LEMMA WrittenIs ==
    ASSUME NEW b, BufferOK(b), NEW s \in Seq(Item), Len(s) <= Writable(b)
    PROVE  /\ BufferOK(Written(b, s))
           /\ Written(b, s).rp = b.rp /\ Written(b, s).wp = b.wp + Len(s)
           /\ Writable(Written(b, s)) = Writable(b) - Len(s)
           /\ \A i \in 1 .. b.wp : Written(b, s).buf[i] = b.buf[i]
           /\ \A i \in 1 .. Len(s) : Written(b, s).buf[b.wp + i] = s[i]
<1>1. b \in [buf : Seq(Item), rp : Nat, wp : Nat] /\ b.wp + Len(s) <= Len(b.buf)
  BY LenProperties DEF BufferOK, Writable
<1>2. PICK x \in Seq(Item), p \in Nat, q \in Nat : b = [buf |-> x, rp |-> p, wp |-> q]
  BY <1>1
<1>3. q + Len(s) <= Len(x) /\ Len(x) \in Nat /\ Len(s) \in Nat
  BY <1>1, <1>2, LenProperties
<1>4. PICK l \in Seq(Item) :
          l = SubSeq(x, 1, q) /\ Len(l) = q /\ \A i \in 1 .. q : l[i] = x[i]
  <2>1. 0 \in Nat /\ 0 <= q /\ q <= Len(x)
    BY <1>3
  <2>2. PICK l \in Seq(Item) : /\ l = SubSeq(x, 0 + 1, q)
                               /\ Len(l) = q - 0
                               /\ \A i \in 1 .. q - 0 : l[i] = x[0 + i]
    BY <2>1, Part, Zenon
  <2>3. QED
    BY <2>2
<1>5. PICK r \in Seq(Item) :
          r = SubSeq(x, q + Len(s) + 1, Len(x)) /\ Len(r) = Len(x) - (q + Len(s))
  <2>1. PICK k \in Nat : k = q + Len(s)
    BY <1>3
  <2>2. k <= Len(x) /\ Len(x) <= Len(x)
    BY <1>3, <2>1
  <2>3. \E r \in Seq(Item) : /\ r = SubSeq(x, k + 1, Len(x))
                             /\ Len(r) = Len(x) - k
                             /\ \A i \in 1 .. Len(x) - k : r[i] = x[k + i]
    BY <1>3, <2>2, Part, ZenonT(60)
  <2>4. QED
    BY <2>1, <2>3, Zenon
<1>6. PICK m \in Seq(Item) :
          /\ m = l \o s
          /\ Len(m) = q + Len(s)
          /\ \A i \in 1 .. q : m[i] = l[i]
          /\ \A i \in 1 .. Len(s) : m[q + i] = s[i]
  <2>1. PICK m \in Seq(Item) :
            /\ m = l \o s
            /\ Len(m) = Len(l) + Len(s)
            /\ \A i \in 1 .. Len(l) : m[i] = l[i]
            /\ \A i \in 1 .. Len(s) : m[Len(l) + i] = s[i]
    BY Joined, Zenon
  <2>2. Len(l) = q
    BY <1>4
  <2>3. QED
    BY <2>1, <2>2
<1>7. PICK y \in Seq(Item) :
          /\ y = m \o r
          /\ Len(y) = Len(m) + Len(r)
          /\ \A i \in 1 .. Len(m) : y[i] = m[i]
  BY Joined, ZenonT(60)
<1>8. Written(b, s) = [buf |-> y, rp |-> p, wp |-> q + Len(s)]
  <2>1. b.buf = x /\ b.wp = q
    BY <1>2
  <2>2. Written(b, s) = [b EXCEPT !.buf = y, !.wp = q + Len(s)]
    BY <1>4, <1>5, <1>6, <1>7, <2>1, Zenon DEF Written
  <2>3. QED
    BY <1>2, <2>2, BufferExcept, Zenon
<1>9. \A i \in 1 .. q : y[i] = x[i]
  BY <1>3, <1>4, <1>6, <1>7
<1>10. \A i \in 1 .. Len(s) : y[q + i] = s[i]
  BY <1>3, <1>6, <1>7
<1>11. Len(y) = Len(x)
  <2>1. Len(y) = q + Len(s) + (Len(x) - (q + Len(s)))
    BY <1>5, <1>6, <1>7, Zenon
  <2>2. QED
    BY <1>3, <2>1
<1>12. BufferOK([buf |-> y, rp |-> p, wp |-> q + Len(s)])
  BY <1>3, <1>11 DEF BufferOK
<1>13. QED
  BY <1>2, <1>3, <1>8, <1>9, <1>10, <1>11, <1>12, SMTT(60) DEF Writable

(* c is b with room for n, and with the same bytes to read. *)
MadeRoom(c, b, n) ==
    /\ BufferOK(c) /\ c.rp <= c.wp /\ n <= Writable(c)
    /\ Readable(c) = Readable(b)
    /\ \A k \in 1 .. Readable(b) : c.buf[c.rp + k] = b.buf[b.rp + k]

LEMMA GrownIs ==
    ASSUME NEW b, BufferOK(b), b.rp <= b.wp, NEW n \in Nat, Writable(b) < n
    PROVE  MadeRoom(Grown(b, n), b, n)
<1>1. PICK x \in Seq(Item), p \in Nat, q \in Nat : b = [buf |-> x, rp |-> p, wp |-> q]
  BY DEF BufferOK
<1>2. Len(x) \in Nat /\ p <= q /\ q <= Len(x) /\ Len(x) < q + n
  BY <1>1, LenProperties DEF BufferOK, Writable
<1>3. PICK z \in Seq(Item) : z = Blank(q + n + 1 - Len(x)) /\ Len(z) = q + n + 1 - Len(x)
  <2>0. q + n + 1 - Len(x) \in Nat
    BY <1>2
  <2>1. PICK d \in Nat : d = q + n + 1 - Len(x)
    BY <2>0, Zenon
  <2>2. Blank(d) \in [1 .. d -> Item]
    BY DEF Blank, Item, Byte
  <2>3. Blank(d) \in Seq(Item) /\ Len(Blank(d)) = d
    BY <2>2
  <2>4. QED
    BY <2>1, <2>3, Zenon
<1>4. PICK y \in Seq(Item) :
          /\ y = x \o z
          /\ Len(y) = Len(x) + Len(z)
          /\ \A i \in 1 .. Len(x) : y[i] = x[i]
  BY Joined
<1>5. Grown(b, n) = [buf |-> y, rp |-> p, wp |-> q]
  <2>1. b.buf = x /\ b.wp = q
    BY <1>1
  <2>2. Grown(b, n) = [b EXCEPT !.buf = y]
    BY <1>3, <1>4, <2>1, Zenon DEF Grown
  <2>3. QED
    BY <1>1, <2>2, BufferExcept, Zenon
<1>6. BufferOK([buf |-> y, rp |-> p, wp |-> q])
  BY <1>2, <1>3, <1>4 DEF BufferOK
<1>7. n <= Len(y) - q
  BY <1>2, <1>3, <1>4
<1>8. \A k \in 1 .. q - p : y[p + k] = x[p + k]
  BY <1>2, <1>4
<1>9. QED
  BY <1>1, <1>2, <1>5, <1>6, <1>7, <1>8, SMTT(60) DEF MadeRoom, Writable, Readable

LEMMA CompactedIs ==
    ASSUME NEW b, BufferOK(b), b.rp <= b.wp, NEW n \in Nat,
           n <= Writable(b) + Prependable(b)
    PROVE  MadeRoom(Compacted(b), b, n)
<1>1. PICK x \in Seq(Item), p \in Nat, q \in Nat : b = [buf |-> x, rp |-> p, wp |-> q]
  BY DEF BufferOK
<1>2. Len(x) \in Nat /\ p <= q /\ q <= Len(x) /\ n <= Len(x) - q + p
  BY <1>1, LenProperties DEF BufferOK, Writable, Prependable
<1>3. PICK d \in Nat : d = q - p /\ d <= Len(x)
  BY <1>2
<1>4. PICK c \in Seq(Item) :
          c = SubSeq(x, p + 1, q) /\ Len(c) = d /\ \A k \in 1 .. d : c[k] = x[p + k]
  <2>1. PICK c \in Seq(Item) : /\ c = SubSeq(x, p + 1, q)
                               /\ Len(c) = q - p
                               /\ \A k \in 1 .. q - p : c[k] = x[p + k]
    BY <1>2, Part, Zenon
  <2>2. QED
    BY <1>3, <2>1, Zenon
<1>5. PICK r \in Seq(Item) : r = SubSeq(x, d + 1, Len(x)) /\ Len(r) = Len(x) - d
  <2>1. d <= Len(x) /\ Len(x) <= Len(x)
    BY <1>2, <1>3
  <2>2. QED
    BY <1>2, <2>1, Part, ZenonT(60)
<1>6. PICK y \in Seq(Item) :
          /\ y = c \o r
          /\ Len(y) = Len(c) + Len(r)
          /\ \A i \in 1 .. Len(c) : y[i] = c[i]
  BY Joined
<1>7. Compacted(b) = [buf |-> y, rp |-> 0, wp |-> d]
  BY <1>1, <1>3, <1>4, <1>5, <1>6 DEF Compacted, Content, Readable
<1>8. Len(y) = Len(x)
  <2>1. Len(y) = d + (Len(x) - d)
    BY <1>4, <1>5, <1>6, Zenon
  <2>2. QED
    BY <1>2, <2>1
<1>9. BufferOK([buf |-> y, rp |-> 0, wp |-> d])
  BY <1>3, <1>8 DEF BufferOK
<1>10. \A k \in 1 .. d : y[0 + k] = x[p + k]
  BY <1>4, <1>6
<1>11. n <= Len(y) - d
  BY <1>2, <1>3, <1>8
<1>12. QED
  BY <1>1, <1>3, <1>7, <1>9, <1>10, <1>11, SMTT(60) DEF MadeRoom, Writable, Readable

LEMMA EnsuredIs ==
    ASSUME NEW b, BufferOK(b), b.rp <= b.wp, NEW n \in Nat
    PROVE  MadeRoom(EnsuredWritable(b, n), b, n)
<1>1. Writable(b) \in Nat /\ Prependable(b) \in Nat
  BY LenProperties DEF BufferOK, Writable, Prependable
<1>2. CASE Writable(b) >= n
  <2>1. MadeRoom(b, b, n)
    BY <1>1, <1>2 DEF MadeRoom
  <2>2. QED
    BY <1>1, <1>2, <2>1 DEF EnsuredWritable
<1>3. CASE Writable(b) < n /\ Writable(b) + Prependable(b) < n
  BY <1>3, GrownIs DEF EnsuredWritable, Extended
<1>4. CASE Writable(b) < n /\ n <= Writable(b) + Prependable(b)
  BY <1>1, <1>4, CompactedIs DEF EnsuredWritable, Extended
<1>5. QED
  BY <1>1, <1>2, <1>3, <1>4

(* c is b with s after its bytes. *)
Has(c, b, s) ==
    /\ BufferOK(c) /\ c.rp <= c.wp
    /\ Readable(c) = Readable(b) + Len(s)
    /\ \A k \in 1 .. Readable(b) : c.buf[c.rp + k] = b.buf[b.rp + k]
    /\ \A i \in 1 .. Len(s) : c.buf[c.rp + Readable(b) + i] = s[i]

LEMMA WrittenHas ==
    ASSUME NEW b, BufferOK(b), b.rp <= b.wp, NEW s \in Seq(Item), Len(s) <= Writable(b)
    PROVE  Has(Written(b, s), b, s)
<1>1. PICK c : c = Written(b, s)
  OBVIOUS
<1>2. /\ BufferOK(c) /\ c.rp = b.rp /\ c.wp = b.wp + Len(s)
      /\ \A i \in 1 .. b.wp : c.buf[i] = b.buf[i]
      /\ \A i \in 1 .. Len(s) : c.buf[b.wp + i] = s[i]
  BY <1>1, WrittenIs
<1>3. b.rp \in Nat /\ b.wp \in Nat /\ Len(s) \in Nat
  BY LenProperties DEF BufferOK
<1>4. c.rp <= c.wp /\ Readable(c) = Readable(b) + Len(s)
  BY <1>2, <1>3 DEF Readable
<1>5. ASSUME NEW k \in 1 .. Readable(b)
      PROVE  c.buf[c.rp + k] = b.buf[b.rp + k]
  <2>1. b.rp + k \in 1 .. b.wp
    BY <1>3 DEF Readable
  <2>2. QED
    BY <1>2, <2>1
<1>6. ASSUME NEW i \in 1 .. Len(s)
      PROVE  c.buf[c.rp + Readable(b) + i] = s[i]
  <2>1. c.rp + Readable(b) + i = b.wp + i
    BY <1>2, <1>3 DEF Readable
  <2>2. QED
    BY <1>2, <2>1
<1>7. Has(c, b, s)
  BY <1>2, <1>4, <1>5, <1>6 DEF Has
<1>8. QED
  BY <1>1, <1>7

LEMMA AppendedHas ==
    ASSUME NEW b, BufferOK(b), b.rp <= b.wp, NEW s \in Seq(Item)
    PROVE  Has(Appended(b, s), b, s)
<1>1. Len(s) \in Nat
  BY LenProperties
<1>2. PICK e : e = EnsuredWritable(b, Len(s))
  OBVIOUS
<1>3. MadeRoom(e, b, Len(s))
  BY <1>1, <1>2, EnsuredIs
<1>4. PICK c : c = Written(e, s)
  OBVIOUS
<1>5. Has(c, e, s)
  BY <1>3, <1>4, WrittenHas DEF MadeRoom
<1>6. Has(c, b, s)
  BY <1>3, <1>5 DEF Has, MadeRoom
<1>7. QED
  BY <1>2, <1>4, <1>6 DEF Appended

(* The two parts of a scattered read make one. *)
LEMMA StoredHas ==
    ASSUME BufferOK(read_buf), read_buf.rp <= read_buf.wp,
           NEW s \in Seq(Item), Direct(s) <= Writable(read_buf)
    PROVE  Has(Stored(read_buf, s), read_buf, s)
<1> DEFINE b == read_buf
<1>1. Len(s) \in Nat /\ Readable(b) \in Nat
  BY LenProperties DEF BufferOK, Readable
<1>2. PICK d \in Nat : d = Direct(s) /\ d <= Len(s)
  BY <1>1 DEF Direct, Room
<1>3. PICK u \in Seq(Item) :
          u = SubSeq(s, 1, d) /\ Len(u) = d /\ \A i \in 1 .. d : u[i] = s[i]
  <2>1. 0 \in Nat /\ 0 <= d
    BY <1>2
  <2>2. PICK u \in Seq(Item) : /\ u = SubSeq(s, 0 + 1, d)
                               /\ Len(u) = d - 0
                               /\ \A i \in 1 .. d - 0 : u[i] = s[0 + i]
    BY <1>2, <2>1, Part, Zenon
  <2>3. QED
    BY <2>2
<1>4. PICK v \in Seq(Item) :
          /\ v = SubSeq(s, d + 1, Len(s)) /\ Len(v) = Len(s) - d
          /\ \A i \in 1 .. Len(s) - d : v[i] = s[d + i]
  <2>1. Len(s) <= Len(s)
    BY <1>1
  <2>2. QED
    BY <1>1, <1>2, <2>1, Part, ZenonT(60)
<1>5. PICK w : w = Written(b, u)
  OBVIOUS
<1>6. Has(w, b, u)
  BY <1>2, <1>3, <1>5, WrittenHas
<1>7. PICK c : c = Appended(w, v)
  OBVIOUS
<1>8. Has(c, w, v)
  BY <1>6, <1>7, AppendedHas, ZenonT(60) DEF Has
<1>9. c = Stored(b, s)
  BY <1>2, <1>3, <1>4, <1>5, <1>7, Zenon DEF Stored
<1>10. Readable(w) = Readable(b) + d /\ Readable(c) = Readable(b) + Len(s)
  BY <1>1, <1>2, <1>3, <1>4, <1>6, <1>8 DEF Has
<1>11. ASSUME NEW k \in 1 .. Readable(b)
       PROVE  c.buf[c.rp + k] = b.buf[b.rp + k]
  <2>1. k \in 1 .. Readable(w)
    BY <1>1, <1>10
  <2>2. QED
    BY <1>6, <1>8, <2>1 DEF Has
<1>12. ASSUME NEW i \in 1 .. Len(s)
       PROVE  c.buf[c.rp + Readable(b) + i] = s[i]
  <2>1. CASE i <= d
    <3>1. PICK k \in 1 .. Readable(w) : k = Readable(b) + i
      BY <1>1, <1>10, <2>1
    <3>2. c.buf[c.rp + k] = w.buf[w.rp + k]
      BY <1>8 DEF Has
    <3>3. c.rp \in Nat /\ w.rp \in Nat
      BY <1>6, <1>8 DEF Has, BufferOK
    <3>4. c.rp + Readable(b) + i = c.rp + k /\ w.rp + Readable(b) + i = w.rp + k
      BY <1>1, <3>1, <3>3, SMTT(60)
    <3>5. i \in 1 .. d
      BY <1>2, <2>1
    <3>6. w.buf[w.rp + Readable(b) + i] = u[i]
      BY <1>3, <1>6, <3>5 DEF Has
    <3>7. QED
      BY <1>3, <3>2, <3>4, <3>5, <3>6
  <2>2. CASE i > d
    <3>1. PICK j \in 1 .. Len(v) : i = d + j
      <4>1. i - d \in 1 .. Len(v)
        BY <1>1, <1>2, <1>4, <2>2, SMTT(60)
      <4>2. i = d + (i - d)
        BY <1>2
      <4>3. QED
        BY <4>1, <4>2, Zenon
    <3>2. c.rp \in Nat
      BY <1>8 DEF Has, BufferOK
    <3>3. c.rp + Readable(b) + i = c.rp + Readable(w) + j
      BY <1>1, <1>2, <1>10, <3>1, <3>2
    <3>4. c.buf[c.rp + Readable(w) + j] = v[j]
      BY <1>8 DEF Has
    <3>5. v[j] = s[i]
      BY <1>4, <3>1
    <3>6. QED
      BY <3>3, <3>4, <3>5
  <2>3. QED
    BY <1>2, <2>1, <2>2
<1>13. BufferOK(c) /\ c.rp <= c.wp
  BY <1>8 DEF Has
<1>14. Has(c, b, s)
  BY <1>10, <1>11, <1>12, <1>13 DEF Has
<1>15. QED
  BY <1>9, <1>14

-----------------------------------------------------------------------------
(* b holds what is left of the stream r after its first n bytes; with n    *)
(* beyond the end of r the read position is as far beyond the write        *)
(* position.                                                               *)
Holds(b, r, n) ==
    /\ BufferOK(b) /\ r \in Seq(Item) /\ n \in Nat
    /\ n + Readable(b) = Len(r)
    /\ \A k \in 1 .. Readable(b) : b.buf[b.rp + k] = r[n + k]

(* A stale Buffer is never read into, and its connection only waits for    *)
(* the read that fails.                                                    *)
StaleWaits ==
    /\ pc \in {"closed", "in", "read"}
    /\ pc = "read" => in_data # <<>>
    /\ received = <<>> /\ taken = 0 /\ answers = 0

BytesInv ==
    /\ read_buf \in [buf : Seq(Item), rp : Nat, wp : Nat]
    /\ to_send \in Seq(Item) /\ in_data \in Seq(Item)
    /\ received \in Seq(Item) /\ taken \in Nat
    /\ IF Stale THEN StaleWaits
       ELSE /\ Holds(read_buf, received, taken)
            /\ pc \in {"in", "read"} => read_buf.rp <= read_buf.wp

LEMMA HoldsNothing ==
    ASSUME NEW b, BufferOK(b), b.rp = 0, b.wp = 0
    PROVE  Holds(b, <<>>, 0)
<1>1. <<>> \in Seq(Item) /\ Len(<<>>) = 0
  OBVIOUS
<1>2. Readable(b) = 0
  BY DEF Readable
<1>3. QED
  BY <1>1, <1>2 DEF Holds

LEMMA EmptyBufferOK == BufferOK([buf |-> <<>>, rp |-> 0, wp |-> 0])
<1>1. <<>> \in Seq(Item) /\ Len(<<>>) = 0
  OBVIOUS
<1>2. QED
  BY <1>1 DEF BufferOK

(* What retrieveAll leaves has no bytes and perhaps its old positions. *)
LEMMA RetrievedAllIs ==
    ASSUME NEW b \in [buf : Seq(Item), rp : Nat, wp : Nat]
    PROVE  /\ RetrievedAll(b) \in [buf : Seq(Item), rp : Nat, wp : Nat]
           /\ RetrievedAll(b).buf = <<>>
<1>1. <<>> \in Seq(Item)
  OBVIOUS
<1>2. QED
  BY <1>1 DEF RetrievedAll

(* A Buffer whose positions are inside its vector is not stale. *)
LEMMA NoBytesNotStale ==
    ASSUME NEW b, BufferOK(b), b.rp <= b.wp
    PROVE  /\ b \in [buf : Seq(Item), rp : Nat, wp : Nat]
           /\ ~(b.buf = <<>> /\ (b.rp # 0 \/ b.wp # 0))
<1>1. b \in [buf : Seq(Item), rp : Nat, wp : Nat] /\ b.wp <= Len(b.buf)
  BY DEF BufferOK
<1>2. CASE b.buf = <<>>
  <2>1. Len(b.buf) = 0
    BY <1>2, EmptySeq
  <2>2. b.rp = 0 /\ b.wp = 0
    BY <1>1, <2>1
  <2>3. QED
    BY <1>1, <2>2
<1>3. QED
  BY <1>1, <1>2

(* What has come and what is still to come are pieces of what was sent. *)
LEMMA ArriveTypes ==
    ASSUME to_send \in Seq(Item), Arrive
    PROVE  to_send' \in Seq(Item) /\ in_data' \in Seq(Item)
<1>1. PICK n \in 1 .. Len(to_send) : /\ in_data' = SubSeq(to_send, 1, n)
                                     /\ to_send' = SubSeq(to_send, n + 1, Len(to_send))
  BY DEF Arrive
<1>2. Len(to_send) \in Nat /\ n \in Nat
  BY LenProperties
<1>3. to_send' \in Seq(Item)
  <2>1. n <= Len(to_send) /\ Len(to_send) <= Len(to_send)
    BY <1>2
  <2>2. QED
    BY <1>1, <1>2, <2>1, Part, ZenonT(60)
<1>4. in_data' \in Seq(Item)
  <2>1. 1 \in Int /\ n \in Int /\ \A i \in 1 .. n : to_send[i] \in Item
    BY <1>2, ElementOfSeq
  <2>2. QED
    BY <1>1, <2>1, SubSeqProperties
<1>5. QED
  BY <1>3, <1>4

LEMMA HoldsMore ==
    ASSUME NEW b, NEW r, NEW n, Holds(b, r, n), NEW s \in Seq(Item), NEW c, Has(c, b, s),
           b.rp <= b.wp
    PROVE  Holds(c, r \o s, n)
<1>1. PICK q \in Seq(Item) :
          /\ q = r \o s
          /\ Len(q) = Len(r) + Len(s)
          /\ \A i \in 1 .. Len(r) : q[i] = r[i]
          /\ \A i \in 1 .. Len(s) : q[Len(r) + i] = s[i]
  <2>1. r \in Seq(Item)
    BY DEF Holds
  <2>2. QED
    BY <2>1, Joined, Zenon
<1>2. /\ n \in Nat /\ Len(r) \in Nat /\ Len(s) \in Nat
      /\ Readable(b) \in Nat /\ n + Readable(b) = Len(r)
      /\ Readable(c) = Readable(b) + Len(s) /\ c.rp \in Nat
  <2>1. n \in Nat /\ n + Readable(b) = Len(r) /\ r \in Seq(Item)
    BY DEF Holds
  <2>2. Readable(b) \in Nat
    BY DEF Holds, BufferOK, Readable
  <2>3. Readable(c) = Readable(b) + Len(s) /\ c.rp \in Nat
    BY DEF Has, BufferOK
  <2>4. QED
    BY <2>1, <2>2, <2>3, LenProperties
<1>3. n + Readable(c) = Len(q)
  <2>1. n + Readable(c) = n + (Readable(b) + Len(s))
    BY <1>2
  <2>2. Len(q) = n + Readable(b) + Len(s)
    BY <1>1, <1>2, Zenon
  <2>3. QED
    BY <1>2, <2>1, <2>2
<1>4. ASSUME NEW k \in 1 .. Readable(c)
      PROVE  c.buf[c.rp + k] = q[n + k]
  <2>1. CASE k <= Readable(b)
    <3>1. k \in 1 .. Readable(b) /\ n + k \in 1 .. Len(r)
      BY <1>2, <2>1
    <3>2. c.buf[c.rp + k] = b.buf[b.rp + k]
      BY <3>1 DEF Has
    <3>3. b.buf[b.rp + k] = r[n + k]
      BY <3>1 DEF Holds
    <3>4. QED
      BY <1>1, <3>1, <3>2, <3>3
  <2>2. CASE k > Readable(b)
    <3>1. PICK i \in 1 .. Len(s) : i = k - Readable(b)
      BY <1>2, <2>2, SMTT(60)
    <3>2. c.rp + Readable(b) + i = c.rp + k /\ Len(r) + i = n + k
      BY <1>2, <3>1, SMTT(60)
    <3>3. c.buf[c.rp + Readable(b) + i] = s[i]
      BY DEF Has
    <3>4. QED
      BY <1>1, <3>2, <3>3
  <2>3. QED
    BY <1>2, <2>1, <2>2
<1>5. BufferOK(c)
  BY DEF Has
<1>6. Holds(c, q, n)
  BY <1>2, <1>3, <1>4, <1>5 DEF Holds
<1>7. QED
  BY <1>1, <1>6

LEMMA HoldsLess ==
    ASSUME NEW b, NEW r, NEW n, Holds(b, r, n), NEW m \in Nat
    PROVE  Holds(Retrieved(b, m), r, n + m)
<1>1. PICK x \in Seq(Item), p \in Nat, q \in Nat : b = [buf |-> x, rp |-> p, wp |-> q]
  BY DEF Holds, BufferOK
<1>2. PICK c : c = Retrieved(b, m)
  OBVIOUS
<1>3. c = [buf |-> x, rp |-> p + m, wp |-> q]
  BY <1>1, <1>2 DEF Retrieved
<1>4. /\ q <= Len(x) /\ n \in Nat /\ n + (q - p) = Len(r)
      /\ \A k \in 1 .. q - p : x[p + k] = r[n + k]
  BY <1>1 DEF Holds, BufferOK, Readable
<1>5. BufferOK(c) /\ n + m \in Nat /\ n + m + Readable(c) = Len(r)
  BY <1>3, <1>4, LenProperties DEF BufferOK, Readable
<1>6. ASSUME NEW k \in 1 .. Readable(c)
      PROVE  c.buf[c.rp + k] = r[n + m + k]
  <2>1. m + k \in 1 .. q - p
    BY <1>3 DEF Readable
  <2>2. x[p + (m + k)] = r[n + (m + k)]
    BY <1>4, <2>1
  <2>3. p + (m + k) = c.rp + k /\ n + (m + k) = n + m + k
    BY <1>3, <1>4
  <2>4. QED
    BY <1>3, <2>2, <2>3
<1>7. r \in Seq(Item)
  BY DEF Holds
<1>8. Holds(c, r, n + m)
  BY <1>5, <1>6, <1>7 DEF Holds
<1>9. QED
  BY <1>2, <1>8

LEMMA LeastNatural ==
    ASSUME NEW T \in SUBSET Nat, T # {}
    PROVE  \E p \in T : \A q \in T : p <= q
<1>1. PICK R : R = OpToRel(<, Nat)
  OBVIOUS
<1>2. PICK p \in T : \A q \in T : ~ (<<q, p>> \in R)
  BY <1>1, NatLessThanWellFounded, WFMin
<1>3. ASSUME NEW q \in T, q < p
      PROVE  <<q, p>> \in R
  BY <1>1, <1>3 DEF OpToRel
<1>4. ASSUME NEW q \in T
      PROVE  p <= q
  <2>1. ~ (q < p)
    BY <1>2, <1>3, Zenon
  <2>2. q \in Nat /\ p \in Nat
    OBVIOUS
  <2>3. QED
    BY <2>1, <2>2
<1>5. QED
  BY <1>4, Zenon

(* The parser goes forward, and finds the end of a line in what is there.  *)
LEMMA LineEndAhead ==
    ASSUME read_buf.rp \in Nat, read_buf.wp \in Nat, read_buf.rp <= read_buf.wp
    PROVE  LineEnd \in Nat /\ read_buf.rp <= LineEnd /\ LineEnd <= read_buf.wp
<1> DEFINE b == read_buf
           found == {p \in b.rp .. b.wp - 2 : b.buf[p + 1] = CR /\ b.buf[p + 2] = LF}
           first == CHOOSE p \in found : \A q \in found : p <= q
<1>1. LineEnd = IF found = {} THEN b.wp ELSE first
  BY DEF LineEnd
<1>2. CASE found = {}
  BY <1>1, <1>2
<1>3. CASE found # {}
  <2>1. found \subseteq Nat /\ \A p \in found : b.rp <= p /\ p <= b.wp
    OBVIOUS
  <2>2. \E p \in found : \A q \in found : p <= q
    BY <1>3, <2>1, LeastNatural
  <2>3. first \in found
    BY <2>2
  <2>4. QED
    BY <1>1, <1>3, <2>1, <2>3
<1>4. QED
  BY <1>2, <1>3

LEMMA BytesInit == Init => BytesInv
<1>1. SUFFICES ASSUME Init PROVE BytesInv
  OBVIOUS
<1>2. PICK z \in Seq(Item) : z = Blank(InitSize) /\ Len(z) = InitSize
  <2>1. InitSize \in Nat
    BY ConnAssumption
  <2>2. Blank(InitSize) \in [1 .. InitSize -> Item]
    BY DEF Blank, Item, Byte
  <2>3. Blank(InitSize) \in Seq(Item) /\ Len(Blank(InitSize)) = InitSize
    BY <2>1, <2>2
  <2>4. QED
    BY <2>3, Zenon
<1>3. read_buf = [buf |-> z, rp |-> 0, wp |-> 0]
  BY <1>1, <1>2 DEF Init, NewBuffer
<1>4. BufferOK(read_buf) /\ read_buf.rp = 0 /\ read_buf.wp = 0
  BY <1>2, <1>3, ConnAssumption DEF BufferOK
<1>5. Holds(read_buf, received, taken)
  BY <1>1, <1>4, HoldsNothing DEF Init
<1>6. /\ to_send \in Seq(Item) /\ in_data \in Seq(Item)
      /\ received \in Seq(Item) /\ taken \in Nat
  BY <1>1 DEF Init
<1>7. read_buf \in [buf : Seq(Item), rp : Nat, wp : Nat] /\ ~Stale
  BY <1>4 DEF BufferOK, Stale
<1>8. QED
  BY <1>4, <1>5, <1>6, <1>7 DEF BytesInv

(* No step but those below touches the buffer, the stream or the network,  *)
(* except to lose what is on its way to a closed descriptor.               *)
BytesKeptBy ==
    /\ UNCHANGED <<read_buf, received, taken>>
    /\ \/ UNCHANGED <<to_send, in_data>>
       \/ to_send' = <<>> /\ in_data' = <<>>
    /\ \/ pc' \notin {"in", "read"}
       \/ pc \in {"in", "read"}
       \/ Readable(read_buf) = 0

LEMMA BytesKeptByStep == BytesInv /\ ~Stale /\ BytesKeptBy => BytesInv'
<1>1. SUFFICES ASSUME BytesInv, ~Stale, BytesKeptBy PROVE BytesInv'
  OBVIOUS
<1>2. /\ Holds(read_buf', received', taken') /\ read_buf' = read_buf
      /\ received' \in Seq(Item) /\ taken' \in Nat
  <2>1. /\ read_buf' = read_buf /\ received' = received /\ taken' = taken
        /\ received \in Seq(Item) /\ taken \in Nat
        /\ Holds(read_buf, received, taken)
    BY <1>1 DEF BytesInv, BytesKeptBy
  <2>2. QED
    BY <2>1, Zenon
<1>3. to_send' \in Seq(Item) /\ in_data' \in Seq(Item)
  <2>1. /\ to_send \in Seq(Item) /\ in_data \in Seq(Item)
        /\ \/ to_send' = to_send /\ in_data' = in_data
           \/ to_send' = <<>> /\ in_data' = <<>>
    BY <1>1 DEF BytesInv, BytesKeptBy
  <2>2. <<>> \in Seq(Item)
    OBVIOUS
  <2>3. QED
    BY <2>1, <2>2, Zenon
<1>4. (pc \in {"in", "read"} => read_buf.rp <= read_buf.wp)'
  <2>1. read_buf.rp \in Nat /\ read_buf.wp \in Nat
    BY <1>1 DEF BytesInv, Holds, BufferOK
  <2>2. QED
    BY <1>1, <2>1 DEF BytesInv, BytesKeptBy, Readable
<1>5. ~Stale' /\ read_buf' \in [buf : Seq(Item), rp : Nat, wp : Nat]
  BY <1>1, <1>2 DEF Stale, BytesInv
<1>6. QED
  BY <1>2, <1>3, <1>4, <1>5 DEF BytesInv

(* A new client gets an empty Buffer, or a stale one. *)
LEMMA ConnectBytes == BytesInv /\ Connect => BytesInv'
<1>1. SUFFICES ASSUME BytesInv, Connect PROVE BytesInv'
  OBVIOUS
<1>2. /\ read_buf' = RetrievedAll(read_buf)
      /\ received' = <<>> /\ taken' = 0 /\ answers' = 0 /\ pc' = "in"
      /\ UNCHANGED <<to_send, in_data>>
  BY <1>1 DEF Connect, netVars
<1>3. read_buf' \in [buf : Seq(Item), rp : Nat, wp : Nat] /\ read_buf'.buf = <<>>
  BY <1>1, <1>2, RetrievedAllIs DEF BytesInv
<1> <<>> \in Seq(Item)
  OBVIOUS
<1>4. CASE Stale'
  BY <1>1, <1>2, <1>3, <1>4 DEF BytesInv, StaleWaits
<1>5. CASE ~Stale'
  <2>1. read_buf'.rp = 0 /\ read_buf'.wp = 0
    BY <1>3, <1>5 DEF Stale
  <2>2. BufferOK(read_buf')
    BY <1>3, <2>1 DEF BufferOK
  <2>3. Holds(read_buf', received', taken')
    BY <1>2, <2>1, <2>2, HoldsNothing
  <2>4. QED
    BY <1>1, <1>2, <1>3, <1>5, <2>1, <2>3 DEF BytesInv
<1>6. QED
  BY <1>4, <1>5

(* A stale Buffer has no room that a read could use. *)
LEMMA StaleReads == BytesInv /\ Stale => ~ReadSome /\ ~ReadNothing
<1>1. SUFFICES ASSUME BytesInv, Stale PROVE ~ReadSome /\ ~ReadNothing
  OBVIOUS
<1>2. ~ReadNothing
  BY <1>1 DEF BytesInv, StaleWaits, ReadNothing, Readv
<1>3. ASSUME ReadSome
      PROVE  FALSE
  <2>1. /\ read_buf.rp \in Nat /\ read_buf.wp \in Nat /\ read_buf.rp <= read_buf.wp
        /\ in_data \in Seq(Item)
    BY <1>1, <1>3 DEF BytesInv, ReadSome, Overshot
  <2>2. Direct(in_data) \in Nat
    BY <2>1, LenProperties DEF Direct, Room, Readable
  <2>3. Writable(read_buf) = 0 - read_buf.wp
    BY <1>1, EmptySeq DEF Stale, Writable
  <2>4. read_buf.wp = 0 /\ read_buf.rp = 0
    BY <1>3, <2>1, <2>2, <2>3 DEF ReadSome
  <2>5. QED
    BY <1>1, <2>4 DEF Stale
<1>4. QED
  BY <1>2, <1>3

(* With it a connection is read in vain and closed. *)
LEMMA StaleBytes == BytesInv /\ Stale /\ [Next]_vars /\ ~Connect => BytesInv'
<1>1. SUFFICES ASSUME BytesInv, Stale, [Next]_vars, ~Connect PROVE BytesInv'
  OBVIOUS
<1> DEFINE Still == UNCHANGED <<read_buf, received, taken, answers>>
<1>2. /\ pc \in {"closed", "in", "read"} /\ (pc = "read" => in_data # <<>>)
      /\ received = <<>> /\ taken = 0 /\ answers = 0
      /\ received \in Seq(Item) /\ taken \in Nat
      /\ to_send \in Seq(Item) /\ in_data \in Seq(Item)
      /\ read_buf \in [buf : Seq(Item), rp : Nat, wp : Nat]
  BY <1>1 DEF BytesInv, StaleWaits
<1>3. ASSUME Still, pc' \in {"closed", "in", "read"},
             pc' = "read" => in_data' # <<>>,
             to_send' \in Seq(Item), in_data' \in Seq(Item)
      PROVE  BytesInv'
  <2>1. Stale' /\ StaleWaits'
    BY <1>1, <1>2, <1>3 DEF Stale, StaleWaits
  <2>2. received' \in Seq(Item) /\ taken' \in Nat
    BY <1>2, <1>3
  <2>3. QED
    BY <1>2, <1>3, <2>1, <2>2 DEF BytesInv
<1>4. CASE \E r \in Requests : Ask(r)
  <2>1. PICK r \in Seq(Item) : to_send' = to_send \o r
    BY <1>4, ConnAssumption, BytesAreItems DEF Ask
  <2>2. to_send' \in Seq(Item)
    BY <1>2, <2>1, ConcatProperties
  <2>3. Still /\ UNCHANGED <<pc, in_data>>
    BY <1>4 DEF Ask, readVars, respVars
  <2>4. QED
    BY <1>2, <1>3, <2>2, <2>3
<1>5. CASE Arrive
  <2>1. Still /\ UNCHANGED pc /\ in_data = <<>>
    BY <1>5 DEF Arrive, readVars, respVars
  <2>2. to_send' \in Seq(Item) /\ in_data' \in Seq(Item)
    BY <1>2, <1>5, ArriveTypes
  <2>3. QED
    BY <1>2, <1>3, <2>1, <2>2
<1>6. CASE ReadPastEnd \/ ReadAsserts
  <2>1. Still /\ UNCHANGED <<pc, to_send, in_data>>
    BY <1>6 DEF ReadPastEnd, ReadAsserts, readVars, netVars, ReadVarsKept, respVars
  <2>2. QED
    BY <1>2, <1>3, <2>1
<1>7. CASE ReadEnds \/ HangUp
  <2>1. Still /\ pc' = "closed" /\ to_send' = <<>> /\ in_data' = <<>>
    BY <1>7 DEF ReadEnds, HangUp, Goto, readVars, ReadVarsKept, respVars
  <2>2. <<>> \in Seq(Item)
    OBVIOUS
  <2>3. QED
    BY <1>3, <2>1, <2>2
<1>8. CASE Ready
  <2>1. /\ Still /\ UNCHANGED <<to_send, in_data>>
        /\ pc = "in" /\ in_data # <<>> /\ pc' = "read"
    BY <1>2, <1>8 DEF Ready, readVars, netVars, respVars
  <2>2. QED
    BY <1>2, <1>3, <2>1
<1>9. CASE Rest \/ UNCHANGED vars
  <2>1. Still /\ UNCHANGED <<pc, to_send, in_data>>
    BY <1>9 DEF Rest, vars, readVars, netVars, respVars
  <2>2. QED
    BY <1>2, <1>3, <2>1
<1>10. ~ (Process \/ ProcessEnds \/ Parse \/ Respond \/ Write)
  BY <1>2 DEF Process, ProcessEnds, Parse, ParseLineFails, ParseLastLine, ParseNextLine,
              ParseOvershot, ParseEnds, ParseDone, Parsing, Respond, Write, WriteSome,
              WriteNothing, WriteAgain, WriteFails, WriteStray
<1>11. ~ (ReadSome \/ ReadNothing)
  BY <1>1, StaleReads
<1>12. QED
  BY <1>1, <1>4, <1>5, <1>6, <1>7, <1>8, <1>9, <1>10, <1>11
     DEF Next, Server, Client, Read

LEMMA BytesStep == BytesInv /\ [Next]_vars => BytesInv'
<1>1. SUFFICES ASSUME BytesInv, [Next]_vars, ~Stale, ~Connect PROVE BytesInv'
  BY StaleBytes, ConnectBytes
<1>2. /\ read_buf \in [buf : Seq(Item), rp : Nat, wp : Nat]
      /\ Holds(read_buf, received, taken)
      /\ pc \in {"in", "read"} => read_buf.rp <= read_buf.wp
  BY <1>1 DEF BytesInv
<1>3. CASE \E r \in Requests : Ask(r)
  <2>1. PICK r \in Seq(Item) : to_send' = to_send \o r
    BY <1>3, ConnAssumption, BytesAreItems DEF Ask
  <2>2. UNCHANGED <<pc, read_buf, received, taken, in_data>>
    BY <1>3 DEF Ask, readVars
  <2>3. to_send' \in Seq(Item)
    BY <1>1, <2>1, ConcatProperties DEF BytesInv
  <2>4. Stale' = Stale
    BY <2>2 DEF Stale
  <2>5. QED
    BY <1>1, <1>2, <2>2, <2>3, <2>4, Zenon DEF BytesInv
<1>4. CASE Arrive
  <2>1. UNCHANGED <<pc, read_buf, received, taken>>
    BY <1>4 DEF Arrive, readVars
  <2>2. to_send' \in Seq(Item) /\ in_data' \in Seq(Item)
    BY <1>1, <1>4, ArriveTypes DEF BytesInv
  <2>3. Stale' = Stale
    BY <2>1 DEF Stale
  <2>4. QED
    BY <1>1, <1>2, <2>1, <2>2, <2>3, Zenon DEF BytesInv
<1>5. CASE ReadSome
  <2>1. /\ BufferOK(read_buf) /\ read_buf.rp <= read_buf.wp
        /\ Holds(read_buf, received, taken)
        /\ in_data \in Seq(Item) /\ to_send \in Seq(Item)
    BY <1>1, <1>2, <1>5 DEF BytesInv, Holds, ReadSome, Readv
  <2>2. /\ Direct(in_data) <= Writable(read_buf)
        /\ read_buf' = Stored(read_buf, in_data)
        /\ received' = received \o in_data
        /\ UNCHANGED <<taken, to_send>> /\ in_data' = <<>>
    BY <1>5 DEF ReadSome
  <2>3. Has(read_buf', read_buf, in_data)
    BY <2>1, <2>2, StoredHas
  <2>4. Holds(read_buf', received', taken')
    BY <2>1, <2>2, <2>3, HoldsMore
  <2>5. BufferOK(read_buf') /\ read_buf'.rp <= read_buf'.wp
    BY <2>3 DEF Has
  <2>6. ~Stale' /\ read_buf' \in [buf : Seq(Item), rp : Nat, wp : Nat]
    BY <2>5, NoBytesNotStale DEF Stale
  <2>7. <<>> \in Seq(Item) /\ received' \in Seq(Item) /\ taken' \in Nat
    BY <2>4 DEF Holds
  <2>8. QED
    BY <2>1, <2>2, <2>4, <2>5, <2>6, <2>7, Zenon DEF BytesInv
<1>6. CASE ParseNextLine
  <2>1. /\ Holds(read_buf, received, taken) /\ taken \in Nat
        /\ read_buf.rp \in Nat /\ read_buf.wp \in Nat
    BY <1>2 DEF Holds, BufferOK
  <2>2. read_buf.rp <= read_buf.wp
    BY <1>6, <2>1 DEF ParseNextLine, Overshot
  <2>3. PICK m \in Nat : m = LineEnd + 2 - read_buf.rp
    <3>1. LineEnd + 2 - read_buf.rp \in Nat
      BY <2>1, <2>2, LineEndAhead
    <3>2. QED
      BY <3>1, Zenon
  <2>4. /\ read_buf' = Retrieved(read_buf, m)
        /\ taken' = taken + (read_buf'.rp - read_buf.rp)
        /\ UNCHANGED <<received, pc, to_send, in_data>>
    BY <1>6, <2>3 DEF ParseNextLine, RetrievedLine, ProcessVarsKept, netVars
  <2>5. Holds(read_buf', received, taken + m)
    BY <2>1, <2>4, HoldsLess
  <2>6. taken' = taken + m
    <3>1. read_buf'.rp = read_buf.rp + m
      BY <2>1, <2>4 DEF Retrieved, Holds, BufferOK
    <3>2. QED
      BY <2>1, <2>4, <3>1
  <2>7. pc = "parse"
    BY <1>6 DEF ParseNextLine, Parsing
  <2>8. ~Stale' /\ read_buf' \in [buf : Seq(Item), rp : Nat, wp : Nat]
    <3>1. read_buf.buf # <<>>
      <4>1. Readable(read_buf) # 0 /\ read_buf.wp <= Len(read_buf.buf)
        BY <1>2, <1>6 DEF ParseNextLine, Parsing, Holds, BufferOK
      <4>2. QED
        BY <2>1, <2>2, <4>1, EmptySeq DEF Readable
    <3>2. read_buf' = [read_buf EXCEPT !.rp = @ + m]
      BY <2>4 DEF Retrieved
    <3>3. QED
      BY <1>2, <2>1, <3>1, <3>2 DEF Stale
  <2>9. received' \in Seq(Item) /\ taken' \in Nat
    BY <2>4, <2>5, <2>6 DEF Holds
  <2>10. QED
    BY <1>1, <2>4, <2>5, <2>6, <2>7, <2>8, <2>9 DEF BytesInv
<1>7. CASE ReadPastEnd \/ ReadAsserts \/ ReadNothing \/ ReadEnds
  <2>1. BytesKeptBy
    BY <1>7 DEF BytesKeptBy, ReadPastEnd, ReadAsserts, ReadNothing, ReadEnds, Goto,
                readVars, netVars, Readv
  <2>2. QED
    BY <1>1, <2>1, BytesKeptByStep
<1>8. CASE Process \/ ProcessEnds
  <2>1. BytesKeptBy
    BY <1>8 DEF BytesKeptBy, Process, ProcessEnds, ProcessVarsKept, readVars, netVars
  <2>2. QED
    BY <1>1, <2>1, BytesKeptByStep
<1>9. CASE ParseLineFails \/ ParseLastLine \/ ParseOvershot \/ ParseEnds \/ ParseDone
  <2>1. BytesKeptBy
    BY <1>9 DEF BytesKeptBy, ParseLineFails, ParseLastLine, ParseOvershot, ParseEnds,
                ParseDone, Parsing, ProcessVarsKept, readVars, netVars
  <2>2. QED
    BY <1>1, <2>1, BytesKeptByStep
<1>10. CASE Respond
  <2>1. UNCHANGED <<readVars, netVars>> /\ pc' = "out"
    BY <1>10, Zenon DEF Respond
  <2>2. BytesKeptBy
    BY <2>1 DEF BytesKeptBy, readVars, netVars
  <2>3. QED
    BY <1>1, <2>2, BytesKeptByStep
<1>11. CASE Write
  <2>1. UNCHANGED readVars
    BY <1>11 DEF Write, WriteSome, WriteNothing, WriteAgain, WriteFails, WriteStray,
                 WriteVarsKept
  <2>2. \/ \E p \in {"write", "process", "closed", "out"} : Goto(p)
        \/ pc = "write" /\ UNCHANGED <<pc, netVars>>
    BY <1>11 DEF Write, WriteSome, WriteNothing, WriteAgain, WriteFails, WriteStray,
                 AfterWrite
  <2>3. BytesKeptBy
    BY <2>1, <2>2 DEF BytesKeptBy, Goto, readVars, netVars
  <2>4. QED
    BY <1>1, <2>3, BytesKeptByStep
<1>12. CASE Ready \/ HangUp \/ Rest \/ UNCHANGED vars
  <2>1. BytesKeptBy
    BY <1>12 DEF BytesKeptBy, Ready, HangUp, Rest, Goto, vars, readVars, netVars
  <2>2. QED
    BY <1>1, <2>1, BytesKeptByStep
<1>13. QED
  BY <1>1, <1>3, <1>4, <1>5, <1>6, <1>7, <1>8, <1>9, <1>10, <1>11, <1>12
     DEF Next, Server, Client, Read, Parse

LEMMA HoldsContent ==
    ASSUME NEW b, NEW r, NEW n, Holds(b, r, n)
    PROVE  Content(b) = SubSeq(r, n + 1, Len(r))
<1>1. PICK x \in Seq(Item), p \in Nat, q \in Nat : b = [buf |-> x, rp |-> p, wp |-> q]
  BY DEF Holds, BufferOK
<1>2. /\ q <= Len(x) /\ n \in Nat /\ r \in Seq(Item) /\ n + (q - p) = Len(r)
      /\ \A k \in 1 .. q - p : x[p + k] = r[n + k]
  BY <1>1 DEF Holds, BufferOK, Readable
<1>3. Content(b) = SubSeq(x, p + 1, q)
  BY <1>1 DEF Content
<1>4. Len(x) \in Nat /\ Len(r) \in Nat
  BY <1>2, LenProperties
<1>5. CASE p <= q
  <2>1. n <= Len(r) /\ Len(r) <= Len(r) /\ Len(r) - n = q - p
    BY <1>2, <1>4, <1>5
  <2>2. PICK u \in Seq(Item) : /\ u = SubSeq(x, p + 1, q)
                               /\ Len(u) = q - p
                               /\ \A i \in 1 .. q - p : u[i] = x[p + i]
    BY <1>2, <1>5, Part, Zenon
  <2>3. PICK v \in Seq(Item) : /\ v = SubSeq(r, n + 1, Len(r))
                               /\ Len(v) = Len(r) - n
                               /\ \A i \in 1 .. Len(r) - n : v[i] = r[n + i]
    BY <1>2, <1>4, <2>1, Part, ZenonT(60)
  <2>4. Len(u) = Len(v) /\ \A i \in 1 .. Len(u) : u[i] = v[i]
    BY <1>2, <2>1, <2>2, <2>3, ZenonT(60)
  <2>5. u = v
    BY <2>4, SeqEqual
  <2>6. QED
    BY <1>3, <2>2, <2>3, <2>5
<1>6. CASE p > q
  <2>1. p + 1 \in Int /\ q \in Int /\ q < p + 1
    BY <1>6
  <2>2. n + 1 \in Int /\ Len(r) \in Int /\ Len(r) < n + 1
    BY <1>2, <1>4, <1>6
  <2>3. SubSeq(x, p + 1, q) = <<>>
    BY <2>1, SubSeqEmpty
  <2>4. SubSeq(r, n + 1, Len(r)) = <<>>
    BY <2>2, SubSeqEmpty
  <2>5. QED
    BY <1>3, <2>3, <2>4
<1>7. QED
  BY <1>5, <1>6

(* The buffer holds what was read and not parsed yet, for vectors of any   *)
(* size, segments of any size and requests of any length, and a client     *)
(* that gets a stale one is closed before a byte of it is looked at        *)
(* (http_conn.cc 147-155, buffer.cc 57-107).                               *)
THEOREM BytesAlwaysKept == Spec => []BytesKept
<1>1. BytesInv => BytesKept
  BY HoldsContent DEF BytesInv, BytesKept, StaleWaits
<1>2. QED
  BY <1>1, BytesInit, BytesStep, PTL DEF Spec

(* With buffers that begin with more than 40 bytes, as the shipped 1024    *)
(* (buffer.h 23), the first retrieveAll of the first client runs past the  *)
(* Buffer: from then on nothing is said of the process (buffer.cc 57-59,   *)
(* http_conn.cc 20).                                                       *)
THEOREM FirstInitStrays ==
    ASSUME InitSize > BufferWords
    PROVE  Spec => [](clients > 0 => ~up)
<1> DEFINE Inv == /\ clients \in Nat
                  /\ IF clients = 0 THEN pc = "closed" /\ read_buf = NewBuffer(InitSize) ELSE ~up
<1>1. Init => Inv
  BY DEF Init
<1>2. Inv /\ [Next]_vars => Inv'
  <2>1. SUFFICES ASSUME Inv, [Next]_vars PROVE Inv'
    OBVIOUS
  <2>2. CASE clients > 0
    <3>1. ~up
      BY <2>1, <2>2
    <3>2. UNCHANGED <<up, clients>>
      BY <2>1, <3>1 DEF Next, Rest, vars, boundVars
    <3>3. QED
      BY <2>1, <2>2, <3>1, <3>2
  <2>3. CASE clients = 0
    <3>1. pc = "closed" /\ read_buf = NewBuffer(InitSize)
      BY <2>1, <2>3
    <3>2. RetrievesAstray(read_buf)
      <4>1. InitSize \in Nat
        BY ConnAssumption
      <4>2. Blank(InitSize) \in [1 .. InitSize -> {Zero}]
        BY DEF Blank
      <4>3. Len(read_buf.buf) = InitSize
        BY <3>1, <4>1, <4>2 DEF NewBuffer
      <4>4. QED
        BY <4>1, <4>3 DEF RetrievesAstray, BufferWords
    <3>3. CASE Connect
      <4>1. ~up'
        BY <3>2, <3>3, Zenon DEF Connect
      <4>2. clients' = 1
        BY <2>3, <3>3 DEF Connect
      <4>3. QED
        BY <4>1, <4>2
    <3>4. CASE UNCHANGED vars
      BY <2>1, <3>4 DEF vars, boundVars, readVars
    <3>5. ~(Server \/ Arrive \/ (\E r \in Requests : Ask(r)) \/ Ready \/ HangUp)
      BY <3>1 DEF Server, Read, ReadSome, ReadPastEnd, ReadAsserts, ReadNothing, ReadEnds,
                  Readv, Process, ProcessEnds, Parse, ParseLineFails, ParseLastLine,
                  ParseNextLine, ParseOvershot, ParseEnds, ParseDone, Parsing, Respond,
                  Write, WriteSome, WriteNothing, WriteAgain, WriteFails, WriteStray,
                  Arrive, Ask, Looked, Ready, HangUp
    <3>6. QED
      BY <2>1, <3>3, <3>4, <3>5 DEF Next, Client, Rest
  <2>4. QED
    BY <2>1, <2>2, <2>3
<1>3. Inv => (clients > 0 => ~up)
  OBVIOUS
<1>4. QED
  BY <1>1, <1>2, <1>3, PTL DEF Spec
=============================================================================

------------------------- MODULE HttpConnWireProofs -------------------------
(***************************************************************************)
(* More about HttpConn: its type invariant, that what is sent is what was  *)
(* answered, and how many answers there are, on the facts about the Buffer *)
(* and the response that HttpConnProofs has.                               *)
(***************************************************************************)
EXTENDS HttpConnProofs

(* While a response is on its way the two elements of _iov are what is     *)
(* left of it: the first of the buffer, the second of the file.            *)
Sending == pc \in {"out", "write"}
FileLeft == IF HasFile(response) THEN iov1.len ELSE 0

(* _iov_count only grows, and iov1 is set with it: it points to a file     *)
(* since the first response that had one.  Both lengths, and the sum that  *)
(* getBytesToWrite makes of them, are what an int holds.                   *)
IovInv ==
    /\ iov_count \in Nat
    /\ iov0 \in [off : Nat, len : Nat]
    /\ iov1 \in [file : Nat, off : Nat, len : Nat]
    /\ iov0.len <= 4 /\ iov1.len < IntLimit
    /\ iov1.file # NoFile => iov_count >= 2
    /\ Sending /\ HasFile(response) => iov_count >= 2
    /\ Sending /\ ~HasFile(response) /\ iov_count = 2 => iov1.file = NoFile

Begins(s, t) == /\ s \in Seq(Item) /\ t \in Seq(Item)
                /\ Len(s) <= Len(t)
                /\ \A i \in 1 .. Len(s) : s[i] = t[i]

(* What has been sent begins the answer; what the buffer and the file      *)
(* still have is the rest of it.                                           *)
RestIs == /\ Readable(write_buf) = iov0.len
          /\ iov0.len > 0 => iov0.off = write_buf.rp
          /\ Len(answer) = Len(wire) + iov0.len + FileLeft
          /\ \A i \in 1 .. iov0.len :
                 write_buf.buf[iov0.off + i] = answer[Len(wire) + i]
          /\ HasFile(response) =>
                 \A i \in 1 .. iov1.len :
                     answer[Len(wire) + iov0.len + i] = Cell("file", iov1.off + i)

Done == /\ Readable(write_buf) = 0
        /\ answers > 0 => Len(wire) = Len(answer)

WireInv ==
    /\ BufferOK(write_buf) /\ write_buf.rp <= write_buf.wp
    /\ Begins(wire, answer)
    /\ answers \in Nat
    /\ Sending => RestIs
    /\ pc \in {"in", "read", "process", "parse", "respond"} => Done

SendInv == ResponseInv /\ IovInv /\ WireInv

-----------------------------------------------------------------------------
(* What Respond makes of the head a, b, the rest c of what is in the       *)
(* buffer, and the file.                                                   *)
Made(a, b, c) ==
    /\ write_buf' = Appended(Appended(Appended(write_buf, <<a>>), <<b>>), c)
    /\ answer' = IF HasFile(response')
                 THEN <<a>> \o <<b>> \o c \o FileCells(FileLen(response'))
                 ELSE <<a>> \o <<b>> \o c
    /\ IF HasFile(response')
       THEN /\ iov1' = [file |-> response'.file, off |-> 0, len |-> FileLen(response')]
            /\ iov_count' = iov_count + 2
       ELSE /\ iov1' = iov1
            /\ iov_count' = iov_count + 1

LEMMA ContentCells ==
    ASSUME NEW r \in Response, r.file = NoFile, NEW out \in AddContent(r, {})
    PROVE  out.content \in Seq(AnyCell) /\ Len(out.content) <= 2
<1>1. out.response \in Response
  BY ContentExact
<1>2. out.response.size \in Nat
  BY <1>1, ConnAssumption DEF Response
<1>3. CASE out.content = <<Cell("length", 1), Cell("error", 1)>>
  <2>1. Cell("length", 1) \in AnyCell /\ Cell("error", 1) \in AnyCell
    BY CellInAnyCell DEF Parts
  <2>2. QED
    BY <1>3, <2>1
<1>4. CASE out.content = <<Cell("length", out.response.size)>>
  <2>1. Cell("length", out.response.size) \in AnyCell
    BY <1>2, CellInAnyCell DEF Parts
  <2>2. QED
    BY <1>4, <2>1
<1>5. QED
  BY <1>3, <1>4, ContentExact

LEMMA RespondShape ==
    ASSUME ResponseInv, Respond
    PROVE  \E a \in AnyCell, b \in AnyCell, c \in Seq(AnyCell) : Made(a, b, c) /\ Len(c) <= 2
<1> DEFINE Outcome(st, out) ==
        LET head == <<StateLine(st.ok), Header(parsed /\ IsKeepAlive(request))>> IN
        /\ write_buf' = Appended(Appended(Appended(write_buf, head[1]), head[2]), out.content)
        /\ response' = out.response
        /\ IF HasFile(out.response)
           THEN /\ iov1' = [file |-> out.response.file, off |-> 0, len |-> FileLen(out.response)]
                /\ iov_count' = iov_count + 2
                /\ answer' = head[1] \o head[2] \o out.content \o FileCells(iov1'.len)
           ELSE /\ iov_count' = iov_count + 1
                /\ answer' = head[1] \o head[2] \o out.content
                /\ iov1' = iov1
<1>1. PICK s \in StatusAndSize(response, HasPath(request)) : \E st \in ErrorHtml(s) :
      \E out \in AddContent([InitResponse(response) EXCEPT !.size = st.size],
                            Released(response, mappings)) : Outcome(st, out)
  BY ZenonT(60) DEF Respond
<1>2. PICK st \in ErrorHtml(s) :
      \E out \in AddContent([InitResponse(response) EXCEPT !.size = st.size],
                            Released(response, mappings)) : Outcome(st, out)
  BY <1>1
<1> DEFINE r == [InitResponse(response) EXCEPT !.size = st.size]
<1>3. Released(response, mappings) = {}
  BY ReleasedAll DEF ResponseInv, MapsAre
<1>4. PICK out \in AddContent(r, {}) : Outcome(st, out)
  BY <1>2, <1>3
<1>5. r \in Response /\ r.file = NoFile
  <2>1. HasPath(request) \in BOOLEAN /\ response \in Response
    BY DEF HasPath, ResponseInv
  <2>2. st \in [ok : BOOLEAN, size : Size]
    BY <2>1, StatusSize
  <2>3. response \in [file : Nat, size : Size]
    BY <2>1 DEF Response
  <2>4. QED
    BY <2>2, <2>3 DEF InitResponse, Response, NoFile
<1>6. out.content \in Seq(AnyCell) /\ Len(out.content) <= 2
  BY <1>5, ContentCells
<1>7. PICK a \in AnyCell : StateLine(st.ok) = <<a>>
  BY CellInAnyCell DEF StateLine, Parts
<1>8. PICK b \in AnyCell : Header(parsed /\ IsKeepAlive(request)) = <<b>>
  BY CellInAnyCell DEF Header, Parts
<1>9. PICK c \in Seq(AnyCell) : c = out.content /\ Len(c) <= 2
  BY <1>6
<1>10. /\ write_buf' = Appended(Appended(Appended(write_buf, <<a>>), <<b>>), c)
       /\ response' = out.response
       /\ IF HasFile(out.response)
          THEN /\ iov1' = [file |-> out.response.file, off |-> 0, len |-> FileLen(out.response)]
               /\ iov_count' = iov_count + 2
               /\ answer' = <<a>> \o <<b>> \o c \o FileCells(iov1'.len)
          ELSE /\ iov_count' = iov_count + 1
               /\ answer' = <<a>> \o <<b>> \o c
               /\ iov1' = iov1
  BY <1>4, <1>7, <1>8, <1>9
<1> HIDE DEF r, Outcome
<1>11. Made(a, b, c)
  <2>1. CASE HasFile(out.response)
    <3>1. iov1'.len = FileLen(out.response)
      BY <1>10, <2>1
    <3>2. QED
      BY <1>10, <2>1, <3>1, Zenon DEF Made
  <2>2. CASE ~HasFile(out.response)
    BY <1>10, <2>2, Zenon DEF Made
  <2>3. QED
    BY <2>1, <2>2
<1>12. QED
  BY <1>9, <1>11

(* The head, and the rest of what is written to the buffer. *)
LEMMA InBuffer ==
    ASSUME NEW w, BufferOK(w), w.rp <= w.wp, Readable(w) = 0,
           NEW a \in AnyCell, NEW b \in AnyCell, NEW c \in Seq(AnyCell)
    PROVE  \E t \in Seq(Item) :
               /\ t = <<a>> \o <<b>> \o c
               /\ Holds(Appended(Appended(Appended(w, <<a>>), <<b>>), c), t, 0)
               /\ LET v == Appended(Appended(Appended(w, <<a>>), <<b>>), c)
                  IN  v.rp <= v.wp
<1>1. <<a>> \in Seq(Item) /\ <<b>> \in Seq(Item) /\ c \in Seq(Item)
  BY DEF Item
<1>2. Holds(w, <<>>, 0)
  <2>1. <<>> \in Seq(Item) /\ Len(<<>>) = 0
    OBVIOUS
  <2>2. QED
    BY <2>1 DEF Holds
<1>3. PICK x : x = Appended(w, <<a>>)
  OBVIOUS
<1>4. Has(x, w, <<a>>)
  BY <1>1, <1>3, AppendedHas
<1>5. PICK y : y = Appended(x, <<b>>)
  OBVIOUS
<1>6. Has(y, x, <<b>>)
  <2>1. BufferOK(x) /\ x.rp <= x.wp
    BY <1>4, Zenon DEF Has
  <2>2. QED
    BY <1>1, <1>5, <2>1, AppendedHas, Zenon
<1>7. PICK z : z = Appended(y, c)
  OBVIOUS
<1>8. Has(z, y, c)
  <2>1. BufferOK(y) /\ y.rp <= y.wp
    BY <1>6, Zenon DEF Has
  <2>2. QED
    BY <1>1, <1>7, <2>1, AppendedHas, Zenon
<1>9. Holds(x, <<>> \o <<a>>, 0)
  BY <1>1, <1>2, <1>4, HoldsMore
<1>10. <<>> \o <<a>> = <<a>>
  OBVIOUS
<1>11. Holds(y, <<a>> \o <<b>>, 0)
  <2>1. x.rp <= x.wp
    BY <1>4, Zenon DEF Has
  <2>2. QED
    BY <1>1, <1>6, <1>9, <1>10, <2>1, HoldsMore, Zenon
<1>12. Holds(z, <<a>> \o <<b>> \o c, 0)
  <2>1. y.rp <= y.wp
    BY <1>6, Zenon DEF Has
  <2>2. QED
    BY <1>1, <1>8, <1>11, <2>1, HoldsMore, Zenon
<1>13. PICK t : t = <<a>> \o <<b>> \o c
  OBVIOUS
<1>14. t \in Seq(Item)
  BY <1>12, <1>13 DEF Holds
<1>15. z.rp <= z.wp
  BY <1>8 DEF Has
<1>16. QED
  BY <1>3, <1>5, <1>7, <1>12, <1>13, <1>14, <1>15, Zenon

LEMMA FileCellsItems ==
    ASSUME NEW n \in Nat
    PROVE  /\ FileCells(n) \in Seq(Item) /\ Len(FileCells(n)) = n
           /\ \A i \in 1 .. n : FileCells(n)[i] = Cell("file", i)
<1>1. FileCells(n) \in Seq(AnyCell) /\ Len(FileCells(n)) = n
  BY FileCellsAre
<1>2. FileCells(n) \in Seq(Item)
  BY <1>1 DEF Item
<1>3. QED
  BY <1>1, <1>2 DEF FileCells

LEMMA NothingBegins ==
    ASSUME NEW t \in Seq(Item)
    PROVE  Begins(<<>>, t)
<1>1. <<>> \in Seq(Item) /\ Len(<<>>) = 0 /\ Len(t) \in Nat
  BY LenProperties
<1>2. QED
  BY <1>1 DEF Begins

LEMMA RespondSends == SendInv /\ Respond /\ ResponseInv' => IovInv' /\ WireInv'
<1>1. SUFFICES ASSUME SendInv, Respond, ResponseInv' PROVE IovInv' /\ WireInv'
  OBVIOUS
<1>2. PICK a \in AnyCell, b \in AnyCell, c \in Seq(AnyCell) : Made(a, b, c) /\ Len(c) <= 2
  BY <1>1, RespondShape DEF SendInv
<1>3. /\ pc = "respond" /\ pc' = "out" /\ wire' = <<>> /\ answers' = answers + 1
      /\ iov0' = [off |-> write_buf'.rp, len |-> Readable(write_buf')]
  BY <1>1, Zenon DEF Respond
<1>4. /\ BufferOK(write_buf) /\ write_buf.rp <= write_buf.wp /\ Readable(write_buf) = 0
      /\ answers \in Nat
  BY <1>1, <1>3 DEF SendInv, WireInv, Done
<1>5. PICK t \in Seq(Item) : /\ t = <<a>> \o <<b>> \o c
                             /\ Holds(write_buf', t, 0)
                             /\ write_buf'.rp <= write_buf'.wp
  BY <1>2, <1>4, InBuffer DEF Made
<1>6. /\ BufferOK(write_buf') /\ Readable(write_buf') = Len(t) /\ Len(t) \in Nat
      /\ write_buf'.rp \in Nat
      /\ \A k \in 1 .. Len(t) : write_buf'.buf[write_buf'.rp + k] = t[k]
  <2>1. BufferOK(write_buf') /\ 0 + Readable(write_buf') = Len(t) /\ Len(t) \in Nat
    BY <1>5, LenProperties DEF Holds
  <2>2. Readable(write_buf') \in Int /\ write_buf'.rp \in Nat
    BY <2>1 DEF BufferOK, Readable
  <2>3. Readable(write_buf') = Len(t)
    BY <2>1, <2>2
  <2>4. ASSUME NEW k \in 1 .. Len(t)
        PROVE  write_buf'.buf[write_buf'.rp + k] = t[k]
    <3>1. k \in 1 .. Readable(write_buf')
      BY <2>3
    <3>2. write_buf'.buf[write_buf'.rp + k] = t[0 + k]
      BY <1>5, <3>1 DEF Holds
    <3>3. 0 + k = k
      OBVIOUS
    <3>4. QED
      BY <3>2, <3>3
  <2>5. QED
    BY <2>1, <2>2, <2>3, <2>4
<1>7. /\ iov0' \in [off : Nat, len : Nat] /\ iov0'.off = write_buf'.rp /\ iov0'.len = Len(t)
      /\ Len(t) <= 4
  <2>1. Len(t) = Len(c) + 2 /\ Len(c) \in Nat
    BY <1>5, AfterHead, LenProperties
  <2>2. QED
    BY <1>2, <1>3, <1>6, <2>1
<1>8. /\ iov_count \in Nat /\ iov1 \in [file : Nat, off : Nat, len : Nat]
      /\ iov1.file # NoFile => iov_count >= 2
      /\ iov1.len < IntLimit
  BY <1>1 DEF SendInv, IovInv
<1>9. response' \in Response /\ response'.file \in Nat
  BY <1>1 DEF ResponseInv, Response
<1>10. CASE HasFile(response')
  <2> PICK k \in Nat : k = FileLen(response') /\ k < IntLimit
    BY <1>9, <1>10, FileLenIs DEF HasFile
  <2>1. /\ iov1' = [file |-> response'.file, off |-> 0, len |-> k]
        /\ iov_count' = iov_count + 2
        /\ answer' = t \o FileCells(k)
    BY <1>2, <1>5, <1>10, Zenon DEF Made
  <2>2. IovInv'
    BY <1>7, <1>8, <1>9, <1>10, <2>1 DEF IovInv
  <2>3. PICK f \in Seq(Item) :
            /\ f = FileCells(k) /\ Len(f) = k
            /\ \A i \in 1 .. k : f[i] = Cell("file", i)
    BY <1>9, FileCellsItems
  <2>4. PICK l \in Seq(Item) :
            /\ l = t \o f
            /\ Len(l) = Len(t) + Len(f)
            /\ \A i \in 1 .. Len(t) : l[i] = t[i]
            /\ \A i \in 1 .. Len(f) : l[Len(t) + i] = f[i]
    BY Joined
  <2>5. answer' = l
    BY <2>1, <2>3, <2>4
  <2>6. Len(wire') = 0
    BY <1>3
  <2>7. FileLeft' = k /\ iov1'.len = k /\ iov1'.off = 0
    BY <1>10, <2>1 DEF FileLeft
  <2>8. RestIs'
    <3>1. Len(l) = 0 + Len(t) + k
      BY <1>6, <1>9, <2>3, <2>4
    <3>2. \A i \in 1 .. Len(t) : write_buf'.buf[write_buf'.rp + i] = l[0 + i]
      BY <1>6, <2>4
    <3>3. ASSUME NEW i \in 1 .. k
          PROVE  l[0 + Len(t) + i] = Cell("file", 0 + i)
      <4>1. 0 + Len(t) + i = Len(t) + i /\ 0 + i = i
        BY <1>6
      <4>2. QED
        BY <2>3, <2>4, <4>1
    <3>4. QED
      BY <1>6, <1>7, <2>5, <2>6, <2>7, <3>1, <3>2, <3>3 DEF RestIs
  <2>9. Begins(wire', answer')
    BY <1>3, <2>5, NothingBegins
  <2>10. WireInv'
    BY <1>3, <1>4, <1>5, <1>6, <2>8, <2>9 DEF WireInv
  <2>11. QED
    BY <2>2, <2>10
<1>11. CASE ~HasFile(response')
  <2>1. iov1' = iov1 /\ iov_count' = iov_count + 1 /\ answer' = t
    BY <1>2, <1>5, <1>11, Zenon DEF Made
  <2>2. IovInv'
    BY <1>7, <1>8, <1>11, <2>1 DEF IovInv
  <2>3. Len(wire') = 0
    BY <1>3
  <2>4. FileLeft' = 0
    BY <1>11 DEF FileLeft
  <2>5. RestIs'
    <3>1. \A i \in 1 .. Len(t) : write_buf'.buf[write_buf'.rp + i] = t[0 + i]
      BY <1>6
    <3>2. Len(t) = 0 + Len(t) + 0
      BY <1>6
    <3>3. QED
      BY <1>6, <1>7, <1>11, <2>1, <2>3, <2>4, <3>1, <3>2 DEF RestIs
  <2>6. Begins(wire', answer')
    BY <1>3, <2>1, NothingBegins
  <2>7. WireInv'
    BY <1>3, <1>4, <1>5, <1>6, <2>5, <2>6 DEF WireInv
  <2>8. QED
    BY <2>2, <2>7
<1>12. QED
  BY <1>10, <1>11

-----------------------------------------------------------------------------
(* What writev is given. *)

LEMMA FirstPart ==
    ASSUME SendInv, pc = "write"
    PROVE  \E u \in Seq(Item) :
               /\ u = Part0 /\ Len(u) = iov0.len
               /\ \A i \in 1 .. iov0.len : u[i] = answer[Len(wire) + i]
<1>1. /\ iov0.len \in Nat /\ iov0.off \in Nat
      /\ BufferOK(write_buf) /\ write_buf.rp <= write_buf.wp
      /\ Readable(write_buf) = iov0.len
      /\ iov0.len > 0 => iov0.off = write_buf.rp
      /\ \A i \in 1 .. iov0.len : write_buf.buf[iov0.off + i] = answer[Len(wire) + i]
  BY DEF SendInv, IovInv, WireInv, RestIs, Sending
<1>2. PICK x \in Seq(Item) : x = write_buf.buf
  BY <1>1 DEF BufferOK
<1>3. CASE iov0.len = 0
  <2>1. iov0.off + 1 \in Int /\ iov0.off + iov0.len \in Int
        /\ iov0.off + iov0.len < iov0.off + 1
    BY <1>1, <1>3
  <2>2. SubSeq(x, iov0.off + 1, iov0.off + iov0.len) = <<>>
    BY <2>1, SubSeqEmpty
  <2>3. Part0 = <<>>
    BY <1>2, <2>2 DEF Part0
  <2>4. <<>> \in Seq(Item) /\ Len(<<>>) = 0
    OBVIOUS
  <2>5. \A i \in 1 .. iov0.len : (<<>>)[i] = answer[Len(wire) + i]
    BY <1>3
  <2>6. QED
    BY <1>3, <2>3, <2>4, <2>5, Zenon
<1>4. CASE iov0.len > 0
  <2>1. PICK n \in Nat : n = iov0.off + iov0.len
    BY <1>1
  <2>2. iov0.off <= n /\ n <= Len(x) /\ n - iov0.off = iov0.len
    <3>1. write_buf.rp \in Nat /\ write_buf.wp \in Nat /\ write_buf.wp <= Len(x)
      BY <1>1, <1>2 DEF BufferOK
    <3>2. n = write_buf.wp
      BY <1>1, <1>4, <2>1, <3>1 DEF Readable
    <3>3. QED
      BY <1>1, <2>1, <3>1, <3>2
  <2>3. PICK u \in Seq(Item) : /\ u = SubSeq(x, iov0.off + 1, n)
                               /\ Len(u) = n - iov0.off
                               /\ \A i \in 1 .. n - iov0.off : u[i] = x[iov0.off + i]
    BY <1>1, <2>2, Part, Zenon
  <2>4. u = Part0
    BY <1>2, <2>1, <2>3 DEF Part0
  <2>5. \A i \in 1 .. iov0.len : u[i] = answer[Len(wire) + i]
    BY <1>1, <1>2, <2>2, <2>3
  <2>6. QED
    BY <2>2, <2>3, <2>4, <2>5
<1>5. QED
  BY <1>1, <1>3, <1>4

LEMMA SecondPart ==
    ASSUME SendInv, pc = "write", ~Stray
    PROVE  \E v \in Seq(Item) :
               /\ v = Part1 /\ Len(v) = FileLeft
               /\ \A i \in 1 .. FileLeft : v[i] = Cell("file", iov1.off + i)
<1>1. /\ iov_count \in Nat /\ iov1.len \in Nat /\ iov1.off \in Nat
      /\ HasFile(response) => iov_count >= 2
      /\ ~HasFile(response) /\ iov_count = 2 => iov1.file = NoFile
  BY DEF SendInv, IovInv, Sending
<1>2. iov_count < 2 \/ iov_count = 2
  BY <1>1 DEF Stray
<1>3. <<>> \in Seq(Item) /\ Len(<<>>) = 0
  OBVIOUS
<1>4. CASE ~HasFile(response)
  <2>1. FileLeft = 0
    BY <1>4 DEF FileLeft
  <2>2. Part1 = <<>>
    <3>1. CASE iov_count < 2
      BY <3>1 DEF Part1
    <3>2. CASE iov_count = 2
      <4>1. iov1.file = NoFile
        BY <1>1, <1>4, <3>2
      <4>2. \A m \in mappings : m.file # NoFile
        BY DEF SendInv, ResponseInv, MapsAre
      <4>3. iov1.len = 0
        BY <1>1, <3>2, <4>1, <4>2 DEF Stray
      <4>4. PICK k \in Nat : k = iov1.off /\ iov1.off + iov1.len = k
        BY <1>1, <4>3
      <4>5. k + 1 \in Int /\ k \in Int /\ k < k + 1
        OBVIOUS
      <4>6. SubSeq(FileCells(k), k + 1, k) = <<>>
        BY <4>5, SubSeqEmpty
      <4>7. QED
        BY <3>2, <4>4, <4>6, Zenon DEF Part1
    <3>3. QED
      BY <1>2, <3>1, <3>2
  <2>3. \A i \in 1 .. FileLeft : (<<>>)[i] = Cell("file", iov1.off + i)
    BY <2>1
  <2>4. QED
    BY <1>3, <2>1, <2>2, <2>3, Zenon
<1>5. CASE HasFile(response)
  <2>1. iov_count = 2 /\ ~(iov_count < 2)
    BY <1>1, <1>2, <1>5
  <2>2. PICK n \in Nat : n = iov1.off + iov1.len
    BY <1>1
  <2>3. PICK f \in Seq(Item) : /\ f = FileCells(n) /\ Len(f) = n
                               /\ \A i \in 1 .. n : f[i] = Cell("file", i)
    BY FileCellsItems
  <2>4. iov1.off <= n /\ n <= Len(f) /\ n - iov1.off = iov1.len
    BY <1>1, <2>2, <2>3
  <2>5. PICK v \in Seq(Item) : /\ v = SubSeq(f, iov1.off + 1, n)
                               /\ Len(v) = n - iov1.off
                               /\ \A i \in 1 .. n - iov1.off : v[i] = f[iov1.off + i]
    BY <1>1, <2>4, Part, Zenon
  <2>6. v = Part1
    BY <2>1, <2>2, <2>3, <2>5, Zenon DEF Part1
  <2>7. FileLeft = iov1.len
    BY <1>5 DEF FileLeft
  <2>8. ASSUME NEW i \in 1 .. iov1.len
        PROVE  v[i] = Cell("file", iov1.off + i)
    <3>1. i \in 1 .. n - iov1.off /\ iov1.off + i \in 1 .. n
      BY <1>1, <2>2
    <3>2. QED
      BY <2>3, <2>5, <3>1
  <2>9. QED
    BY <2>4, <2>5, <2>6, <2>7, <2>8
<1>6. QED
  BY <1>4, <1>5

(* writev is given what the client has not been sent yet. *)
LEMMA PendingIs ==
    ASSUME SendInv, pc = "write", ~Stray
    PROVE  \E q \in Seq(Item) :
               /\ q = Part0 \o Part1
               /\ Len(q) = iov0.len + FileLeft
               /\ Len(answer) = Len(wire) + Len(q)
               /\ \A i \in 1 .. Len(q) : q[i] = answer[Len(wire) + i]
<1>1. PICK u \in Seq(Item) : /\ u = Part0 /\ Len(u) = iov0.len
                             /\ \A i \in 1 .. iov0.len : u[i] = answer[Len(wire) + i]
  BY FirstPart
<1>2. PICK v \in Seq(Item) : /\ v = Part1 /\ Len(v) = FileLeft
                             /\ \A i \in 1 .. FileLeft : v[i] = Cell("file", iov1.off + i)
  BY SecondPart
<1>3. PICK q \in Seq(Item) : /\ q = u \o v
                             /\ Len(q) = Len(u) + Len(v)
                             /\ \A i \in 1 .. Len(u) : q[i] = u[i]
                             /\ \A i \in 1 .. Len(v) : q[Len(u) + i] = v[i]
  BY Joined
<1>4. /\ iov0.len \in Nat /\ iov1.len \in Nat /\ iov1.off \in Nat
      /\ FileLeft \in Nat /\ Len(wire) \in Nat /\ Len(answer) \in Nat
  BY LenProperties DEF SendInv, IovInv, WireInv, Begins, FileLeft
<1>5. Len(answer) = Len(wire) + iov0.len + FileLeft
  BY DEF SendInv, WireInv, RestIs, Sending
<1>6. FileLeft > 0 => HasFile(response) /\ FileLeft = iov1.len
  BY DEF FileLeft
<1>7. ASSUME NEW i \in 1 .. FileLeft
      PROVE  answer[Len(wire) + iov0.len + i] = Cell("file", iov1.off + i)
  <2>1. HasFile(response) /\ i \in 1 .. iov1.len
    BY <1>4, <1>6
  <2>2. QED
    BY <2>1 DEF SendInv, WireInv, RestIs, Sending
<1>8. ASSUME NEW i \in 1 .. Len(q)
      PROVE  q[i] = answer[Len(wire) + i]
  <2>1. CASE i <= iov0.len
    BY <1>1, <1>3, <1>4, <2>1
  <2>2. CASE i > iov0.len
    <3>1. PICK j \in 1 .. FileLeft : i = iov0.len + j
      <4>1. Len(q) = iov0.len + FileLeft
        BY <1>1, <1>2, <1>3, Zenon
      <4>2. i - iov0.len \in 1 .. FileLeft /\ i = iov0.len + (i - iov0.len)
        BY <1>4, <2>2, <4>1, SMTT(60)
      <4>3. QED
        BY <4>2, Zenon
    <3>2. q[i] = v[j]
      BY <1>1, <1>2, <1>3, <3>1
    <3>3. Len(wire) + i = Len(wire) + iov0.len + j
      BY <1>4, <3>1, SMTT(60)
    <3>4. QED
      BY <1>2, <1>7, <3>2, <3>3
  <2>3. QED
    BY <1>4, <2>1, <2>2
<1>9. q = Part0 \o Part1
  BY <1>1, <1>2, <1>3, Zenon
<1>10. Len(q) = iov0.len + FileLeft
  BY <1>1, <1>2, <1>3, Zenon
<1>11. Len(answer) = Len(wire) + Len(q)
  BY <1>4, <1>5, <1>10
<1>12. QED
  BY <1>8, <1>9, <1>10, <1>11, Zenon

(* The first n cells of the rest are sent. *)
LEMMA SentBegins ==
    ASSUME NEW w, NEW t, Begins(w, t), NEW q \in Seq(Item),
           Len(t) = Len(w) + Len(q), \A i \in 1 .. Len(q) : q[i] = t[Len(w) + i],
           NEW n \in 1 .. Len(q)
    PROVE  Begins(w \o SubSeq(q, 1, n), t) /\ Len(w \o SubSeq(q, 1, n)) = Len(w) + n
<1>1. /\ w \in Seq(Item) /\ t \in Seq(Item)
      /\ Len(w) \in Nat /\ Len(q) \in Nat /\ n \in Nat /\ n <= Len(q)
      /\ \A i \in 1 .. Len(w) : w[i] = t[i]
  BY LenProperties DEF Begins
<1>2. PICK u \in Seq(Item) :
          u = SubSeq(q, 1, n) /\ Len(u) = n /\ \A i \in 1 .. n : u[i] = q[i]
  <2>1. 0 \in Nat /\ 0 <= n
    BY <1>1
  <2>2. PICK u \in Seq(Item) : /\ u = SubSeq(q, 0 + 1, n)
                               /\ Len(u) = n - 0
                               /\ \A i \in 1 .. n - 0 : u[i] = q[0 + i]
    BY <1>1, <2>1, Part, Zenon
  <2>3. n - 0 = n /\ n \in Nat
    BY <1>1
  <2>4. u = SubSeq(q, 1, n) /\ Len(u) = n
    BY <2>2, <2>3
  <2>5. \A i \in 1 .. n : u[i] = q[i]
    BY <2>2, <2>3
  <2>6. QED
    BY <2>4, <2>5, Zenon
<1>3. PICK l \in Seq(Item) : /\ l = w \o u
                             /\ Len(l) = Len(w) + Len(u)
                             /\ \A i \in 1 .. Len(w) : l[i] = w[i]
                             /\ \A i \in 1 .. Len(u) : l[Len(w) + i] = u[i]
  BY <1>1, Joined, Zenon
<1>4. Len(l) = Len(w) + n /\ Len(l) <= Len(t)
  <2>1. Len(l) = Len(w) + n
    BY <1>2, <1>3, Zenon
  <2>2. QED
    BY <1>1, <2>1
<1>5. ASSUME NEW i \in 1 .. Len(l)
      PROVE  l[i] = t[i]
  <2>1. CASE i <= Len(w)
    BY <1>1, <1>3, <1>4, <2>1
  <2>2. CASE i > Len(w)
    <3>1. PICK j \in 1 .. n : i = Len(w) + j
      <4>1. i - Len(w) \in 1 .. n /\ i = Len(w) + (i - Len(w))
        BY <1>1, <1>4, <2>2
      <4>2. QED
        BY <4>1, Zenon
    <3>2. j \in 1 .. Len(u) /\ j \in 1 .. Len(q)
      BY <1>1, <1>2, <3>1
    <3>3. QED
      BY <1>2, <1>3, <3>1, <3>2
  <2>3. QED
    BY <1>1, <1>4, <2>1, <2>2
<1>6. Begins(l, t)
  BY <1>1, <1>4, <1>5 DEF Begins
<1>7. QED
  BY <1>2, <1>3, <1>4, <1>6, Zenon

(* writev stops inside the buffer's part ... *)
SentHead(n) ==
    /\ n <= iov0.len
    /\ iov0' = [off |-> iov0.off + n, len |-> iov0.len - n]
    /\ write_buf' = Retrieved(write_buf, n)
    /\ iov1' = iov1

(* ... or inside the file. *)
SentFile(n) ==
    /\ n > iov0.len
    /\ iov1' = Advanced(n)
    /\ iov0' = [iov0 EXCEPT !.len = 0]
    /\ write_buf' = NewBuffer(0)

RestLeft(n) ==
    /\ BufferOK(write_buf') /\ write_buf'.rp <= write_buf'.wp
    /\ RestIs'
    /\ iov0' \in [off : Nat, len : Nat]
    /\ iov1' \in [file : Nat, off : Nat, len : Nat] /\ iov1'.file = iov1.file
    /\ iov0'.len <= iov0.len /\ iov1'.len <= iov1.len

LEMMA NewBufferOfNone == NewBuffer(0) = [buf |-> <<>>, rp |-> 0, wp |-> 0]
<1>1. Blank(0) = <<>>
  BY DEF Blank
<1>2. QED
  BY <1>1 DEF NewBuffer

LEMMA HeadLeft ==
    ASSUME SendInv, pc = "write", NEW n \in Nat \ {0}, SentHead(n),
           Len(wire') = Len(wire) + n, answer' = answer, response' = response
    PROVE  RestLeft(n)
<1>1. /\ iov0 \in [off : Nat, len : Nat] /\ iov1 \in [file : Nat, off : Nat, len : Nat]
      /\ BufferOK(write_buf) /\ write_buf.rp <= write_buf.wp
      /\ Begins(wire, answer) /\ RestIs
  BY DEF SendInv, IovInv, WireInv, Sending
<1>2. /\ n \in Nat /\ n > 0 /\ n <= iov0.len /\ iov0.off = write_buf.rp
      /\ iov0.len \in Nat /\ iov0.off \in Nat /\ iov1.len \in Nat
  BY <1>1 DEF SentHead, RestIs
<1>3. PICK x \in Seq(Item), p \in Nat, z \in Nat : write_buf = [buf |-> x, rp |-> p, wp |-> z]
  BY <1>1 DEF BufferOK
<1>4. p <= z /\ z <= Len(x) /\ z - p = iov0.len /\ p = iov0.off
  BY <1>1, <1>2, <1>3 DEF BufferOK, RestIs, Readable
<1>5. write_buf' = [buf |-> x, rp |-> p + n, wp |-> z]
  BY <1>3 DEF SentHead, Retrieved
<1>6. p + n <= z /\ z - (p + n) = iov0.len - n
  BY <1>2, <1>4
<1>7. BufferOK(write_buf') /\ write_buf'.rp <= write_buf'.wp
  BY <1>4, <1>5, <1>6 DEF BufferOK
<1>8. iov0'.off = p + n /\ iov0'.len = iov0.len - n /\ iov0' \in [off : Nat, len : Nat]
  <2>1. iov0' = [off |-> iov0.off + n, len |-> iov0.len - n]
    BY DEF SentHead
  <2>2. iov0.off + n = p + n /\ iov0.off + n \in Nat /\ iov0.len - n \in Nat
    BY <1>2, <1>4, SMTT(60)
  <2>3. QED
    BY <2>1, <2>2
<1>9. iov1' = iov1 /\ FileLeft' = FileLeft
  BY DEF SentHead, FileLeft, HasFile
<1>10. Len(wire) \in Nat /\ Len(answer) \in Nat /\ FileLeft \in Nat
  BY <1>1, <1>2, LenProperties DEF Begins, FileLeft
<1>11. Len(answer) = Len(wire) + n + (iov0.len - n) + FileLeft
  BY <1>1, <1>2, <1>10 DEF RestIs
<1>12. ASSUME NEW i \in 1 .. iov0.len - n
       PROVE  x[p + n + i] = answer[Len(wire) + n + i]
  <2>1. n + i \in 1 .. iov0.len
    BY <1>2
  <2>2. write_buf.buf[iov0.off + (n + i)] = answer[Len(wire) + (n + i)]
    BY <1>1, <2>1 DEF RestIs
  <2>3. iov0.off + (n + i) = p + n + i /\ Len(wire) + (n + i) = Len(wire) + n + i
    BY <1>2, <1>4, <1>10
  <2>4. QED
    BY <1>3, <2>2, <2>3
<1>13. ASSUME HasFile(response), NEW i \in 1 .. iov1.len
       PROVE  answer[Len(wire) + n + (iov0.len - n) + i] = Cell("file", iov1.off + i)
  <2>1. answer[Len(wire) + iov0.len + i] = Cell("file", iov1.off + i)
    BY <1>1, <1>13 DEF RestIs
  <2>2. Len(wire) + n + (iov0.len - n) + i = Len(wire) + iov0.len + i
    BY <1>2, <1>10
  <2>3. QED
    BY <2>1, <2>2
<1>14. RestIs'
  <2>1. Readable(write_buf') = iov0'.len /\ iov0'.off = write_buf'.rp
    BY <1>5, <1>6, <1>8 DEF Readable
  <2>2. Len(answer') = Len(wire') + iov0'.len + FileLeft'
    BY <1>8, <1>9, <1>11
  <2>3. \A i \in 1 .. iov0'.len : write_buf'.buf[iov0'.off + i] = answer'[Len(wire') + i]
    BY <1>5, <1>8, <1>12
  <2>4. HasFile(response') =>
            \A i \in 1 .. iov1'.len :
                answer'[Len(wire') + iov0'.len + i] = Cell("file", iov1'.off + i)
    BY <1>8, <1>9, <1>13
  <2>5. QED
    BY <2>1, <2>2, <2>3, <2>4 DEF RestIs
<1>15. iov0'.len <= iov0.len /\ iov1'.len <= iov1.len
  BY <1>2, <1>8, <1>9
<1>16. QED
  BY <1>1, <1>7, <1>8, <1>9, <1>14, <1>15 DEF RestLeft

LEMMA FileLeftOver ==
    ASSUME SendInv, pc = "write", NEW n \in Nat, n <= iov0.len + FileLeft, SentFile(n),
           Len(wire') = Len(wire) + n, answer' = answer, response' = response
    PROVE  RestLeft(n)
<1>1. /\ iov0 \in [off : Nat, len : Nat] /\ iov1 \in [file : Nat, off : Nat, len : Nat]
      /\ Begins(wire, answer) /\ RestIs
  BY DEF SendInv, IovInv, WireInv, Sending
<1>2. PICK g \in Nat, o \in Nat, z \in Nat : iov1 = [file |-> g, off |-> o, len |-> z]
  BY <1>1
<1>3. iov0.len \in Nat /\ iov0.off \in Nat /\ n > iov0.len
  BY <1>1 DEF SentFile
<1>4. HasFile(response) /\ FileLeft = z
  BY <1>2, <1>3 DEF FileLeft
<1>5. PICK d \in Nat : d = n - iov0.len /\ d <= z
  BY <1>3, <1>4
<1>6. iov1' = [file |-> g, off |-> o + d, len |-> z - d]
  BY <1>2, <1>5 DEF SentFile, Advanced
<1>7. iov1' \in [file : Nat, off : Nat, len : Nat] /\ iov1'.file = iov1.file
  BY <1>2, <1>5, <1>6
<1>8. iov0'.len = 0 /\ iov0' \in [off : Nat, len : Nat]
  BY <1>1 DEF SentFile
<1>9. write_buf' = [buf |-> <<>>, rp |-> 0, wp |-> 0]
  BY NewBufferOfNone DEF SentFile
<1>10. BufferOK(write_buf') /\ write_buf'.rp <= write_buf'.wp /\ Readable(write_buf') = 0
  BY <1>9, EmptyBufferOK DEF Readable
<1>11. Len(wire) \in Nat /\ Len(answer) \in Nat
  BY <1>1, LenProperties DEF Begins
<1>12. FileLeft' = z - d
  BY <1>4, <1>6 DEF FileLeft
<1>13. Len(answer) = Len(wire) + n + 0 + (z - d)
  <2>1. Len(answer) = Len(wire) + iov0.len + z
    BY <1>1, <1>4, Zenon DEF RestIs
  <2>2. QED
    BY <1>3, <1>5, <1>11, <2>1, SMTT(60)
<1>14. ASSUME NEW i \in 1 .. z - d
       PROVE  answer[Len(wire) + n + 0 + i] = Cell("file", o + d + i)
  <2>1. d + i \in 1 .. iov1.len
    BY <1>2, <1>5, SMTT(60)
  <2>2. answer[Len(wire) + iov0.len + (d + i)] = Cell("file", iov1.off + (d + i))
    BY <1>1, <1>4, <2>1 DEF RestIs
  <2>3. /\ Len(wire) + iov0.len + (d + i) = Len(wire) + n + 0 + i
        /\ iov1.off + (d + i) = o + d + i
    BY <1>2, <1>3, <1>5, <1>11, SMTT(60)
  <2>4. QED
    BY <2>2, <2>3
<1>15. RestIs'
  <2>1. Len(answer') = Len(wire') + iov0'.len + FileLeft'
    BY <1>8, <1>12, <1>13
  <2>2. \A i \in 1 .. iov1'.len :
            answer'[Len(wire') + iov0'.len + i] = Cell("file", iov1'.off + i)
    BY <1>6, <1>8, <1>14
  <2>3. QED
    BY <1>8, <1>10, <2>1, <2>2 DEF RestIs
<1>16. iov0'.len <= iov0.len /\ iov1'.len <= iov1.len
  BY <1>2, <1>3, <1>5, <1>6, <1>8
<1>17. QED
  BY <1>7, <1>8, <1>10, <1>15, <1>16 DEF RestLeft

(* The int that getBytesToWrite returns is 0 for lengths of 0 only. *)
LEMMA TotalOfNone ==
    ASSUME NEW a \in Nat, NEW b \in Nat, a <= 4, b < IntLimit, AsInt(a + b) = 0
    PROVE  a = 0 /\ b = 0
<1>1. PICK n \in Nat : n = a + b
  OBVIOUS
<1>2. IntLimit \in Nat /\ IntLimit > 4
  BY ConnAssumption
<1>3. n < 2 * IntLimit
  BY <1>1, <1>2
<1>4. n = 0
  BY <1>1, <1>3, AsIntIs
<1>5. QED
  BY <1>1, <1>4

(* Nothing left to write is all written. *)
LEMMA AllSent ==
    ASSUME IovInv, Begins(wire, answer), RestIs, Total = 0
    PROVE  Len(wire) = Len(answer) /\ Readable(write_buf) = 0
<1>1. /\ iov0.len \in Nat /\ iov1.len \in Nat /\ Len(wire) \in Nat
      /\ iov0.len <= 4 /\ iov1.len < IntLimit
  BY LenProperties DEF IovInv, Begins
<1>2. iov0.len = 0 /\ iov1.len = 0 /\ FileLeft = 0
  BY <1>1, TotalOfNone DEF Total, FileLeft
<1>3. Len(answer) = Len(wire) + 0 + 0
  BY <1>2, Zenon DEF RestIs
<1>4. Readable(write_buf) = 0
  BY <1>2 DEF RestIs
<1>5. QED
  BY <1>1, <1>3, <1>4

LEMMA WriteSomeSends == SendInv /\ WriteSome => IovInv' /\ WireInv'
<1>1. SUFFICES ASSUME SendInv, WriteSome PROVE IovInv' /\ WireInv'
  OBVIOUS
<1>2. /\ pc = "write" /\ ~Stray
      /\ UNCHANGED <<response, answer, answers, iov_count>>
  BY <1>1 DEF WriteSome, WriteVarsKept
<1>3. PICK q \in Seq(Item) : /\ q = Part0 \o Part1
                             /\ Len(q) = iov0.len + FileLeft
                             /\ Len(answer) = Len(wire) + Len(q)
                             /\ \A i \in 1 .. Len(q) : q[i] = answer[Len(wire) + i]
  BY <1>1, <1>2, PendingIs
<1>4. PICK n \in 1 .. Len(q) : /\ wire' = wire \o SubSeq(q, 1, n)
                               /\ SentFile(n) \/ (~(n > iov0.len) /\ SentHead(n))
  <2>1. PICK n \in 1 .. Len(q) :
            /\ wire' = wire \o SubSeq(q, 1, n)
            /\ IF n > iov0.len
               THEN /\ iov1' = Advanced(n)
                    /\ iov0' = [iov0 EXCEPT !.len = 0]
                    /\ write_buf' = NewBuffer(0)
               ELSE /\ iov0' = [off |-> iov0.off + n, len |-> iov0.len - n]
                    /\ write_buf' = Retrieved(write_buf, n)
                    /\ UNCHANGED iov1
    BY <1>1, <1>3, Zenon DEF WriteSome, RetrieveAllOfWriteBuf
  <2>2. CASE n > iov0.len
    BY <2>1, <2>2 DEF SentFile
  <2>3. CASE ~(n > iov0.len)
    <3>1. iov0.len \in Nat /\ Len(q) \in Nat
      BY <1>1, LenProperties DEF SendInv, IovInv
    <3>2. n <= iov0.len
      BY <2>3, <3>1
    <3>3. SentHead(n)
      BY <2>1, <2>3, <3>2, Zenon DEF SentHead
    <3>4. QED
      BY <2>1, <2>3, <3>3, Zenon
  <2>4. QED
    BY <2>2, <2>3
<1>5. Begins(wire, answer) /\ answers \in Nat
  BY <1>1 DEF SendInv, WireInv
<1>6. Begins(wire', answer') /\ Len(wire') = Len(wire) + n
  <2>1. /\ Begins(wire \o SubSeq(q, 1, n), answer)
        /\ Len(wire \o SubSeq(q, 1, n)) = Len(wire) + n
    BY <1>3, <1>5, SentBegins, ZenonT(60)
  <2>2. QED
    BY <1>2, <1>4, <2>1, Zenon
<1>7. Len(q) \in Nat /\ n \in Nat /\ n > 0 /\ n <= iov0.len + FileLeft
  BY <1>3, LenProperties
<1>8. RestLeft(n)
  <2>1. CASE SentFile(n)
    BY <1>1, <1>2, <1>6, <1>7, <2>1, FileLeftOver
  <2>2. CASE SentHead(n)
    BY <1>1, <1>2, <1>6, <1>7, <2>2, HeadLeft
  <2>3. QED
    BY <1>4, <2>1, <2>2
<1>9. IovInv'
  <2>1. iov0'.len <= 4 /\ iov1'.len < IntLimit
    <3>1. /\ iov0.len \in Nat /\ iov1.len \in Nat /\ iov0.len <= 4 /\ iov1.len < IntLimit
          /\ iov0'.len \in Nat /\ iov1'.len \in Nat
          /\ iov0'.len <= iov0.len /\ iov1'.len <= iov1.len
      BY <1>1, <1>8 DEF SendInv, IovInv, RestLeft
    <3>2. QED
      BY <3>1, ConnAssumption
  <2>2. QED
    BY <1>1, <1>2, <1>8, <2>1 DEF SendInv, IovInv, RestLeft, Sending, HasFile
<1>10. PICK p : /\ pc' = p
                /\ p = IF is_ET \/ Total' > LTRest THEN "write"
                       ELSE AfterWrite(request', Total', FALSE)
  BY <1>1, Zenon DEF WriteSome, Goto, Total
<1>11. /\ pc' \in {"write", "process", "closed", "out"}
       /\ pc' = "process" => Total' = 0
  BY <1>10 DEF AfterWrite
<1>12. pc' = "process" => Done'
  <2>1. SUFFICES ASSUME pc' = "process" PROVE Done'
    OBVIOUS
  <2>2. /\ iov0'.len \in Nat /\ iov1'.len \in Nat /\ iov0'.len <= 4 /\ iov1'.len < IntLimit
        /\ AsInt(iov0'.len + iov1'.len) = 0
    BY <1>9, <1>11, <2>1 DEF IovInv, Total
  <2>3. iov0'.len = 0 /\ FileLeft' = 0
    BY <2>2, TotalOfNone DEF FileLeft
  <2>4. Len(answer') = Len(wire') + 0 + 0 /\ Readable(write_buf') = 0
    BY <1>8, <2>3 DEF RestLeft, RestIs
  <2>5. Len(wire') \in Nat
    BY <1>6, LenProperties DEF Begins
  <2>6. QED
    BY <2>4, <2>5 DEF Done
<1>13. WireInv'
  BY <1>2, <1>5, <1>6, <1>8, <1>11, <1>12 DEF WireInv, RestLeft
<1>14. QED
  BY <1>9, <1>13

(* Steps that leave the response as it is, and go on with it or away from  *)
(* it.                                                                     *)
SendKept == /\ UNCHANGED <<write_buf, response, mappings, iov_count, iov0, iov1,
                           answer, answers, wire>>
            /\ Sending' => Sending
            /\ pc' \in {"in", "read", "process", "parse", "respond"} =>
                  \/ pc \in {"in", "read", "process", "parse", "respond"}
                  \/ Sending /\ Total = 0

LEMMA SendKeptStep == SendInv /\ SendKept => IovInv' /\ WireInv'
<1>1. SUFFICES ASSUME SendInv, SendKept PROVE IovInv' /\ WireInv'
  OBVIOUS
<1>2. IovInv'
  BY <1>1 DEF SendInv, IovInv, SendKept, HasFile
<1>3. Sending' => RestIs'
  <2>1. SUFFICES ASSUME Sending' PROVE RestIs'
    OBVIOUS
  <2>2. RestIs
    BY <1>1, <2>1 DEF SendInv, WireInv, SendKept
  <2>3. QED
    BY <1>1, <2>2 DEF SendKept, RestIs, FileLeft, HasFile
<1>4. ASSUME pc' \in {"in", "read", "process", "parse", "respond"}
      PROVE  Done'
  <2>1. Done
    <3>1. CASE pc \in {"in", "read", "process", "parse", "respond"}
      BY <1>1, <3>1 DEF SendInv, WireInv
    <3>2. CASE Sending /\ Total = 0
      BY <1>1, <3>2, AllSent DEF SendInv, WireInv, Done
    <3>3. QED
      BY <1>1, <1>4, <3>1, <3>2 DEF SendKept
  <2>2. QED
    BY <1>1, <2>1 DEF SendKept, Done
<1>5. WireInv'
  BY <1>1, <1>3, <1>4 DEF SendInv, WireInv, SendKept
<1>6. QED
  BY <1>2, <1>5

LEMMA EmptyAnswer == Begins(<<>>, <<>>)
<1>1. <<>> \in Seq(Item)
  OBVIOUS
<1>2. QED
  BY <1>1, NothingBegins

LEMMA SendInit == Init => SendInv
<1>1. SUFFICES ASSUME Init PROVE SendInv
  OBVIOUS
<1>2. ResponseInv
  BY <1>1, ResponseInit
<1>3. IovInv
  BY <1>1, ConnAssumption DEF Init, IovInv, Sending, NoFile
<1>4. PICK z \in Seq(Item) : z = Blank(InitSize) /\ Len(z) \in Nat
  <2>1. InitSize \in Nat
    BY ConnAssumption
  <2>2. Blank(InitSize) \in [1 .. InitSize -> Item]
    BY DEF Blank, Item, Byte
  <2>3. Blank(InitSize) \in Seq(Item)
    BY <2>1, <2>2
  <2>4. QED
    BY <2>3, LenProperties, Zenon
<1>5. write_buf = [buf |-> z, rp |-> 0, wp |-> 0]
  BY <1>1, <1>4 DEF Init, NewBuffer
<1>6. BufferOK(write_buf) /\ write_buf.rp <= write_buf.wp
  BY <1>4, <1>5 DEF BufferOK
<1>7. Begins(wire, answer)
  BY <1>1, EmptyAnswer DEF Init
<1>8. WireInv
  BY <1>1, <1>6, <1>7 DEF Init, WireInv, Sending
<1>9. QED
  BY <1>2, <1>3, <1>8 DEF SendInv

LEMMA SendStep == SendInv /\ [Next]_vars => SendInv'
<1>1. SUFFICES ASSUME SendInv, [Next]_vars PROVE SendInv'
  OBVIOUS
<1>2. ResponseInv'
  BY <1>1, ResponseStep DEF SendInv
<1>3. CASE Connect
  <2>1. /\ write_buf' = [buf |-> <<>>, rp |-> 0, wp |-> 0]
        /\ answers' = 0 /\ answer' = <<>> /\ wire' = <<>> /\ pc' = "in"
        /\ UNCHANGED <<iov_count, iov0, iov1, response>>
    BY <1>3, NewBufferOfNone DEF Connect, RetrieveAllOfWriteBuf, iovVars
  <2>2. BufferOK(write_buf') /\ write_buf'.rp <= write_buf'.wp /\ Readable(write_buf') = 0
    BY <2>1, EmptyBufferOK DEF Readable
  <2>3. Begins(wire', answer')
    BY <2>1, EmptyAnswer
  <2>4. IovInv'
    BY <1>1, <2>1 DEF SendInv, IovInv, Sending
  <2>5. WireInv'
    BY <2>1, <2>2, <2>3 DEF WireInv, Done, Sending
  <2>6. QED
    BY <1>2, <2>4, <2>5 DEF SendInv
<1>4. CASE Respond
  BY <1>1, <1>2, <1>4, RespondSends DEF SendInv
<1>5. CASE WriteSome
  BY <1>1, <1>2, <1>5, WriteSomeSends DEF SendInv
<1>6. CASE WriteNothing
  <2>1. /\ pc = "write"
        /\ pc' \in {"process", "closed", "out"} /\ (pc' = "process" => Total = 0)
    BY <1>6 DEF WriteNothing, Goto, AfterWrite
  <2>2. SendKept
    BY <1>6, <2>1 DEF SendKept, Sending, WriteNothing, NothingSent, WriteVarsKept
  <2>3. QED
    BY <1>1, <1>2, <2>2, SendKeptStep DEF SendInv
<1>7. CASE WriteAgain
  <2>1. /\ pc = "write"
        /\ pc' \in {"process", "closed", "out"} /\ (pc' = "process" => Total = 0)
    BY <1>7 DEF WriteAgain, Goto, AfterWrite
  <2>2. SendKept
    BY <1>7, <2>1 DEF SendKept, Sending, WriteAgain, NothingSent, WriteVarsKept
  <2>3. QED
    BY <1>1, <1>2, <2>2, SendKeptStep DEF SendInv
<1>8. CASE WriteFails
  <2>1. /\ pc = "write"
        /\ pc' \in {"process", "closed", "out"} /\ (pc' = "process" => Total = 0)
    BY <1>8 DEF WriteFails, Goto, AfterWrite
  <2>2. SendKept
    BY <1>8, <2>1 DEF SendKept, Sending, WriteFails, NothingSent, WriteVarsKept
  <2>3. QED
    BY <1>1, <1>2, <2>2, SendKeptStep DEF SendInv
<1>9. CASE WriteStray
  <2>1. SendKept
    BY <1>9 DEF SendKept, Sending, WriteStray, NothingSent, WriteVarsKept
  <2>2. QED
    BY <1>1, <1>2, <2>1, SendKeptStep DEF SendInv
<1>10. CASE Read
  <2>1. /\ pc = "read" /\ pc' \in {"read", "process", "closed"}
        /\ ReadVarsKept
    BY <1>10 DEF Read, ReadSome, ReadPastEnd, ReadAsserts, ReadNothing, ReadEnds, Readv, Goto
  <2>2. SendKept
    BY <2>1 DEF SendKept, Sending, ReadVarsKept, iovVars, respVars
  <2>3. QED
    BY <1>1, <1>2, <2>2, SendKeptStep DEF SendInv
<1>11. CASE Process \/ ProcessEnds \/ Parse
  <2>1. /\ pc \in {"process", "parse"} /\ pc' \in {"in", "process", "parse", "respond"}
        /\ UNCHANGED <<write_buf, iovVars, respVars>> /\ wire' = wire
    BY <1>11 DEF Process, ProcessEnds, Parse, ParseLineFails, ParseLastLine, ParseNextLine,
                 ParseOvershot, ParseEnds, ParseDone, Parsing, ProcessVarsKept
  <2>2. SendKept
    BY <2>1 DEF SendKept, Sending, iovVars, respVars
  <2>3. QED
    BY <1>1, <1>2, <2>2, SendKeptStep DEF SendInv
<1>12. CASE Arrive \/ (\E r \in Requests : Ask(r)) \/ Ready \/ HangUp
  <2>1. /\ UNCHANGED <<write_buf, iovVars, respVars>> /\ wire' = wire
        /\ \/ pc' = pc
           \/ pc \in {"in", "out"} /\ pc' = "closed"
           \/ pc = "in" /\ pc' = "read"
           \/ pc = "out" /\ pc' = "write"
    BY <1>12 DEF Arrive, Ask, Ready, HangUp, Goto
  <2>2. SendKept
    BY <2>1 DEF SendKept, Sending, iovVars, respVars
  <2>3. QED
    BY <1>1, <1>2, <2>2, SendKeptStep DEF SendInv
<1>13. CASE UNCHANGED vars
  <2>1. SendKept
    BY <1>13 DEF SendKept, Sending, vars, iovVars, respVars
  <2>2. QED
    BY <1>1, <1>2, <2>1, SendKeptStep DEF SendInv
<1>14. QED
  BY <1>1, <1>3, <1>4, <1>5, <1>6, <1>7, <1>8, <1>9, <1>10, <1>11, <1>12, <1>13
     DEF Next, Server, Client, Write, Rest

LEMMA SendAlways == Spec => []SendInv
<1>1. QED
  BY SendInit, SendStep, PTL DEF Spec

LEMMA BeginsIsPrefix ==
    ASSUME NEW s, NEW t, Begins(s, t)
    PROVE  IsPrefix(s, t) /\ (Len(s) = Len(t) => s = t)
<1>1. /\ s \in Seq(Item) /\ t \in Seq(Item) /\ Len(s) \in Nat /\ Len(t) \in Nat
      /\ Len(s) <= Len(t) /\ \A i \in 1 .. Len(s) : s[i] = t[i]
  BY LenProperties DEF Begins
<1>2. PICK m \in Nat : m = Len(s) /\ m <= Len(s) /\ m <= Len(t) /\ 0 <= m /\ 0 \in Nat
  BY <1>1
<1>3. PICK u \in Seq(Item) : /\ u = SubSeq(s, 0 + 1, m)
                             /\ Len(u) = m - 0
                             /\ \A i \in 1 .. m - 0 : u[i] = s[0 + i]
  BY <1>1, <1>2, Part, ZenonT(60)
<1>4. PICK v \in Seq(Item) : /\ v = SubSeq(t, 0 + 1, m)
                             /\ Len(v) = m - 0
                             /\ \A i \in 1 .. m - 0 : v[i] = t[0 + i]
  BY <1>1, <1>2, Part, ZenonT(60)
<1>5. u = v
  <2>1. Len(u) = Len(v)
    BY <1>3, <1>4
  <2>2. \A i \in 1 .. Len(u) : u[i] = v[i]
    BY <1>1, <1>2, <1>3, <1>4
  <2>3. QED
    BY <2>1, <2>2, SeqEqual
<1>6. u = SubSeq(s, 1, Len(s)) /\ v = SubSeq(t, 1, Len(s))
  BY <1>2, <1>3, <1>4
<1>7. IsPrefix(s, t)
  BY <1>1, <1>5, <1>6 DEF IsPrefix
<1>8. ASSUME Len(s) = Len(t)
      PROVE  s = t
  BY <1>1, <1>8, SeqEqual
<1>9. QED
  BY <1>7, <1>8

(* What is sent is a beginning of the answer, and all of it where the code *)
(* takes it to be, for files of any size and writev stopping anywhere, in  *)
(* an object that any number of clients have used                          *)
(* (http_conn.cc 58-74, 94-109, server.cc 271).                            *)
THEOREM WireAlwaysAnswer == Spec => []WireIsAnswer
<1>1. SendInv => WireIsAnswer
  <2>1. SUFFICES ASSUME SendInv PROVE WireIsAnswer
    OBVIOUS
  <2>2. Begins(wire, answer)
    BY <2>1 DEF SendInv, WireInv
  <2>3. IsPrefix(wire, answer) /\ (Len(wire) = Len(answer) => wire = answer)
    BY <2>2, BeginsIsPrefix
  <2>4. pc \in {"out", "write"} /\ Total = 0 => Len(wire) = Len(answer)
    BY <2>1, AllSent DEF SendInv, WireInv, Sending
  <2>5. pc \in {"process", "parse", "respond"} /\ answers > 0 => Len(wire) = Len(answer)
    BY <2>1 DEF SendInv, WireInv, Done
  <2>6. QED
    BY <2>3, <2>4, <2>5 DEF WireIsAnswer
<1>2. QED
  BY <1>1, SendAlways, PTL

-----------------------------------------------------------------------------
(* The rest of the type invariant. *)
TypeInv ==
    /\ up \in BOOLEAN /\ asserts \in BOOLEAN /\ is_ET \in BOOLEAN
    /\ pc \in {"closed", "in", "out"} \cup Working
    /\ ~Stale => read_buf.rp <= read_buf.wp + 2
    /\ request \in Request /\ parsed \in BOOLEAN
    /\ clients \in 0 .. MaxClients /\ requests \in 0 .. MaxRequests

Begun(r) == r.state # "REQUEST_LINE"

(* What a line makes of a request: a request line that is none leaves it   *)
(* as it was, and nothing takes it back to the request line.               *)
LEMMA LineMakes ==
    ASSUME NEW r \in Request, r.state # "FINISH", NEW line,
           NEW res \in ParseLine(r, line)
    PROVE  /\ res.req \in Request
           /\ Begun(r) => Begun(res.req)
           /\ ~Begun(r) =>
                 /\ res.req.headers = r.headers
                 /\ res.ok => IsRequestLine(line)
                 /\ ~res.ok => res.req = r
<1>1. r.state \in {"REQUEST_LINE", "HEADERS", "BODY"}
  BY DEF Request
<1>2. CASE r.state = "REQUEST_LINE"
  <2>1. res \in ParseRequestLine(r, line)
    BY <1>2 DEF ParseLine
  <2>2. CASE IsRequestLine(line)
    <3>1. PICK m : m = Method(line)
      OBVIOUS
    <3>2. PICK v : v = Version(line)
      OBVIOUS
    <3>3. m \in {"GET", "POST", "other"} /\ v \in {"1.1", "other"}
      BY <3>1, <3>2 DEF Method, Version
    <3>4. PICK e : e = [r EXCEPT !.state = "HEADERS", !.method = m, !.version = v]
      OBVIOUS
    <3>5. res = [ok |-> TRUE, req |-> e]
      BY <2>1, <2>2, <3>1, <3>2, <3>4 DEF ParseRequestLine, Passed
    <3>6. e \in Request /\ e.state = "HEADERS" /\ e.headers = r.headers
      BY <3>3, <3>4 DEF Request
    <3>7. QED
      BY <1>2, <2>2, <3>5, <3>6 DEF Begun
  <2>3. CASE ~IsRequestLine(line)
    <3>1. res = [ok |-> FALSE, req |-> r]
      BY <2>1, <2>3 DEF ParseRequestLine, Failed
    <3>2. QED
      BY <1>2, <3>1 DEF Begun
  <2>4. QED
    BY <2>2, <2>3
<1>3. CASE r.state = "HEADERS"
  <2>1. res \in ParseHeaders(r, line)
    BY <1>3 DEF ParseLine
  <2>2. CASE line = <<>>
    <3>1. res = [ok |-> TRUE, req |-> [r EXCEPT !.state = "BODY"]]
      BY <2>1, <2>2 DEF ParseHeaders, Passed
    <3>2. [r EXCEPT !.state = "BODY"] \in Request /\ [r EXCEPT !.state = "BODY"].state = "BODY"
      BY DEF Request
    <3>3. QED
      BY <1>3, <3>1, <3>2 DEF Begun
  <2>3. CASE line # <<>> /\ IsHeader(line)
    <3>1. PICK h : h = WithHeader(r.headers, line)
      OBVIOUS
    <3>2. h \in SUBSET {KeepAlive, FormType}
      <4>1. r.headers \in SUBSET {KeepAlive, FormType}
        BY DEF Request
      <4>2. Len(line) = 1 => line[1] \in {KeepAlive, FormType}
        BY <2>3 DEF IsHeader
      <4>3. QED
        BY <3>1, <4>1, <4>2 DEF WithHeader
    <3>3. res = [ok |-> TRUE, req |-> [r EXCEPT !.headers = h]]
      BY <2>1, <2>3, <3>1 DEF ParseHeaders, Passed
    <3>4. [r EXCEPT !.headers = h] \in Request /\ [r EXCEPT !.headers = h].state = r.state
      BY <3>2 DEF Request
    <3>5. QED
      BY <1>3, <3>3, <3>4 DEF Begun
  <2>4. CASE line # <<>> /\ ~IsHeader(line)
    <3>1. res = [ok |-> FALSE, req |-> r]
      BY <2>1, <2>4 DEF ParseHeaders, Failed
    <3>2. QED
      BY <1>3, <3>1 DEF Begun
  <2>5. QED
    BY <2>2, <2>3, <2>4
<1>4. CASE r.state = "BODY"
  <2>1. res \in ParseBody(r, line)
    BY <1>4 DEF ParseLine
  <2>2. res.req = r \/ res.req = [r EXCEPT !.state = "FINISH"]
    BY <2>1 DEF ParseBody, ParsePost, Passed, Failed
  <2>3. [r EXCEPT !.state = "FINISH"] \in Request /\ [r EXCEPT !.state = "FINISH"].state = "FINISH"
    BY DEF Request
  <2>4. QED
    BY <1>4, <2>2, <2>3 DEF Begun
<1>5. QED
  BY <1>1, <1>2, <1>3, <1>4

LEMMA TypeInit == Init => TypeInv
<1>1. SUFFICES ASSUME Init PROVE TypeInv
  OBVIOUS
<1>2. read_buf.rp = 0 /\ read_buf.wp = 0
  BY <1>1 DEF Init, NewBuffer
<1>3. request \in Request
  BY <1>1 DEF Init, NewRequest, Request
<1>4. clients \in 0 .. MaxClients /\ requests \in 0 .. MaxRequests
  BY <1>1, ConnAssumption DEF Init
<1>5. up \in BOOLEAN /\ asserts \in BOOLEAN /\ is_ET \in BOOLEAN /\ parsed \in BOOLEAN
  BY <1>1, Zenon DEF Init
<1>6. /\ pc \in {"closed", "in", "out"} \cup Working
      /\ ~Stale => read_buf.rp <= read_buf.wp + 2
  BY <1>1, <1>2 DEF Init
<1>7. QED
  BY <1>3, <1>4, <1>5, <1>6, Zenon DEF TypeInv

(* The parser's steps: the request stays one. *)
LEMMA ParsedType == TypeInv /\ Parse => request' \in Request /\ parsed' \in BOOLEAN
<1>1. SUFFICES ASSUME TypeInv, Parse PROVE request' \in Request /\ parsed' \in BOOLEAN
  OBVIOUS
<1>2. CASE ParseLineFails \/ ParseLastLine \/ ParseNextLine
  <2>1. /\ request.state # "FINISH" /\ request \in Request
        /\ \E res \in ParseLine(request, Line) : request' = res.req
    BY <1>1, <1>2 DEF TypeInv, ParseLineFails, ParseLastLine, ParseNextLine, Parsing
  <2>2. request' \in Request
    BY <2>1, LineMakes
  <2>3. parsed' \in BOOLEAN
    BY <1>1, <1>2 DEF TypeInv, ParseLineFails, ParseLastLine, ParseNextLine
  <2>4. QED
    BY <2>2, <2>3
<1>3. CASE ParseOvershot \/ ParseEnds \/ ParseDone
  BY <1>1, <1>3 DEF TypeInv, ParseOvershot, ParseEnds, ParseDone, reqVars
<1>4. QED
  BY <1>1, <1>2, <1>3 DEF Parse

(* Only a connection that waits to be read has a stale Buffer. *)
LEMMA NotStale ==
    ASSUME BytesInv, pc \notin {"closed", "in", "read"} \/ ~Stale
    PROVE  ~Stale /\ Holds(read_buf, received, taken)
<1>1. QED
  BY DEF BytesInv, StaleWaits

(* What a memset leaves of a request is still one. *)
LEMMA ClearedType ==
    ASSUME NEW r \in Request, NEW q \in Cleared(r)
    PROVE  q \in Request /\ (IsKeepAlive(q) => IsKeepAlive(r))
<1>1. PICK v \in {r.version, "other"} : q = [r EXCEPT !.whole = FALSE, !.version = v]
  BY DEF Cleared
<1>2. v \in {"1.1", "other"}
  BY <1>1 DEF Request
<1>3. q \in Request /\ q.headers = r.headers /\ q.version = v
  BY <1>1, <1>2 DEF Request
<1>4. QED
  BY <1>1, <1>3 DEF IsKeepAlive

LEMMA RequestCleared ==
    ASSUME request \in Request, RetrieveAllOfWriteBuf
    PROVE  request' \in Request /\ (IsKeepAlive(request') => IsKeepAlive(request))
<1>1. request' = request \/ request' \in Cleared(request)
  BY DEF RetrieveAllOfWriteBuf
<1>2. CASE request' = request
  BY <1>2 DEF IsKeepAlive
<1>3. CASE request' \in Cleared(request)
  BY <1>3, ClearedType
<1>4. QED
  BY <1>1, <1>2, <1>3

(* What a step of writing makes of the request. *)
LEMMA WrittenRequest ==
    ASSUME request \in Request, Write
    PROVE  request' \in Request /\ (IsKeepAlive(request') => IsKeepAlive(request))
<1>1. CASE request' = request
  BY <1>1 DEF IsKeepAlive
<1>2. CASE WriteSome
  <2>1. request' = request \/ RetrieveAllOfWriteBuf
    BY <1>2, Zenon DEF WriteSome
  <2>2. QED
    BY <1>1, <2>1, RequestCleared
<1>3. WriteNothing \/ WriteAgain \/ WriteFails \/ WriteStray => request' = request
  BY DEF WriteNothing, WriteAgain, WriteFails, WriteStray, NothingSent
<1>4. QED
  BY <1>1, <1>2, <1>3 DEF Write

LEMMA TypeStep == TypeInv /\ BytesInv /\ BytesInv' /\ [Next]_vars => TypeInv'
<1>1. SUFFICES ASSUME TypeInv, BytesInv, BytesInv', [Next]_vars PROVE TypeInv'
  OBVIOUS
<1>2. /\ read_buf.rp \in Nat /\ read_buf.wp \in Nat
      /\ read_buf'.rp \in Nat /\ read_buf'.wp \in Nat
      /\ ~Stale' /\ pc' \in {"in", "read"} => read_buf'.rp <= read_buf'.wp
  BY <1>1 DEF BytesInv
<1> DEFINE Near == ~Stale => read_buf.rp <= read_buf.wp + 2
<1> Near
  BY <1>1 DEF TypeInv
<1> read_buf' = read_buf => Near'
  BY DEF Stale
<1> HIDE DEF Near
<1> USE DEF Working
<1>3. CASE Connect
  <2>1. /\ pc' = "in" /\ clients' \in 0 .. MaxClients
        /\ UNCHANGED <<requests, confVars, parsed>>
    BY <1>1, <1>3, ConnAssumption DEF TypeInv, Connect
  <2>2. up' \in BOOLEAN
    BY <1>3, Zenon DEF Connect
  <2>3. request' \in Request
    BY <1>1, <1>3, RequestCleared DEF TypeInv, Connect
  <2>4. Near'
    BY <1>2, <2>1 DEF Near
  <2>5. QED
    BY <1>1, <2>1, <2>2, <2>3, <2>4 DEF TypeInv, confVars, Near
<1>4. CASE \E r \in Requests : Ask(r)
  <2>1. /\ requests' \in 0 .. MaxRequests
        /\ UNCHANGED <<up, pc, clients, confVars, reqVars, readVars>>
    BY <1>1, <1>4, ConnAssumption DEF TypeInv, Ask
  <2>2. QED
    BY <1>1, <2>1 DEF TypeInv, confVars, reqVars, readVars, Near
<1>5. CASE Arrive \/ Ready \/ HangUp
  <2>1. /\ UNCHANGED <<up, boundVars, confVars, reqVars, readVars>>
        /\ pc' \in {pc, "closed", "read", "write"}
    BY <1>5 DEF Arrive, Ready, HangUp, Goto
  <2>2. QED
    BY <1>1, <2>1 DEF TypeInv, boundVars, confVars, reqVars, readVars, Near
<1>6. CASE Read
  <2>1. /\ up' \in BOOLEAN
        /\ UNCHANGED <<boundVars, confVars, reqVars>>
        /\ pc' \in {"read", "process", "closed"}
    BY <1>1, <1>6 DEF TypeInv, Read, ReadSome, ReadPastEnd, ReadAsserts, ReadNothing,
                      ReadEnds, ReadVarsKept, Goto, Readv
  <2>2. Near'
    <3>1. CASE ReadSome
      <4>1. /\ BufferOK(read_buf) /\ read_buf.rp <= read_buf.wp
            /\ in_data \in Seq(Item) /\ Direct(in_data) <= Writable(read_buf)
            /\ read_buf' = Stored(read_buf, in_data)
        BY <1>1, <3>1, StaleReads DEF BytesInv, Holds, ReadSome, Readv
      <4>2. Has(read_buf', read_buf, in_data)
        BY <4>1, StoredHas
      <4>3. read_buf'.rp <= read_buf'.wp
        BY <4>2 DEF Has
      <4>4. QED
        BY <1>2, <4>3 DEF Near
    <3>2. CASE ReadPastEnd \/ ReadAsserts \/ ReadNothing \/ ReadEnds
      <4>1. read_buf' = read_buf
        BY <3>2 DEF ReadPastEnd, ReadAsserts, ReadNothing, ReadEnds, readVars
      <4>2. QED
        BY <4>1
    <3>3. QED
      BY <1>6, <3>1, <3>2 DEF Read
  <2>3. QED
    BY <1>1, <2>1, <2>2 DEF TypeInv, boundVars, confVars, reqVars, Near
<1>7. CASE ProcessEnds
  <2>1. /\ UNCHANGED <<pc, boundVars, confVars, readVars, reqVars>> /\ up' = FALSE
    BY <1>7 DEF ProcessEnds, ProcessVarsKept
  <2>2. QED
    BY <1>1, <2>1 DEF TypeInv, boundVars, confVars, readVars, reqVars, Near
<1>8. CASE Process
  <2>1. /\ UNCHANGED <<up, boundVars, confVars, readVars, parsed>>
        /\ pc' \in {"in", "parse"} /\ request' = NewRequest
    BY <1>8 DEF Process, ProcessVarsKept, InitRequest
  <2>2. request' \in Request
    BY <2>1 DEF NewRequest, Request
  <2>3. QED
    BY <1>1, <2>1, <2>2 DEF TypeInv, boundVars, confVars, readVars, Near
<1>9. CASE Parse
  <2>1. request' \in Request /\ parsed' \in BOOLEAN
    BY <1>1, <1>9, ParsedType
  <2>2. /\ up' \in BOOLEAN /\ pc' \in {"parse", "respond"}
        /\ UNCHANGED <<boundVars, confVars>>
    BY <1>1, <1>9 DEF TypeInv, Parse, ParseLineFails, ParseLastLine, ParseNextLine,
                      ParseOvershot, ParseEnds, ParseDone, Parsing, ProcessVarsKept
  <2>3. Near'
    <3>1. CASE ParseNextLine
      <4>1. read_buf.rp <= read_buf.wp /\ read_buf' = RetrievedLine
        BY <1>2, <3>1 DEF ParseNextLine, Overshot
      <4>2. LineEnd \in Nat /\ LineEnd <= read_buf.wp
        BY <1>2, <4>1, LineEndAhead
      <4>3. PICK x \in Seq(Item), p \in Nat, q \in Nat :
                read_buf = [buf |-> x, rp |-> p, wp |-> q]
        BY <1>1 DEF BytesInv
      <4>4. read_buf' = [buf |-> x, rp |-> p + (LineEnd + 2 - p), wp |-> q]
        BY <4>1, <4>3 DEF RetrievedLine, Retrieved
      <4>5. QED
        BY <4>2, <4>3, <4>4 DEF Near
    <3>2. CASE ParseLineFails \/ ParseLastLine \/ ParseOvershot \/ ParseEnds \/ ParseDone
      <4>1. read_buf' = read_buf
        BY <3>2 DEF ParseLineFails, ParseLastLine, ParseOvershot, ParseEnds, ParseDone, readVars
      <4>2. QED
        BY <4>1
    <3>3. QED
      BY <1>9, <3>1, <3>2 DEF Parse
  <2>4. QED
    BY <1>1, <2>1, <2>2, <2>3 DEF TypeInv, boundVars, confVars, Near
<1>10. CASE Respond
  <2>1. UNCHANGED <<up, confVars, readVars, request, boundVars>> /\ pc' = "out" /\ parsed' = FALSE
    BY <1>10, Zenon DEF Respond
  <2>2. QED
    BY <1>1, <2>1 DEF TypeInv, boundVars, confVars, readVars, Near
<1>11. CASE Write
  <2>1. WriteVarsKept
    BY <1>11 DEF Write, WriteSome, WriteNothing, WriteAgain, WriteFails, WriteStray
  <2>2. up' \in BOOLEAN
    <3>1. ASSUME WriteSome \/ WriteNothing
          PROVE  \E r, n : up' \in UpAfter(r, n)
      BY <3>1, Zenon DEF WriteSome, WriteNothing
    <3>2. \A r, n : UpAfter(r, n) \subseteq BOOLEAN
      BY DEF UpAfter
    <3>3. WriteAgain \/ WriteFails \/ WriteStray => up' \in BOOLEAN
      BY <1>1 DEF TypeInv, WriteAgain, WriteFails, WriteStray
    <3>4. QED
      BY <1>11, <3>1, <3>2, <3>3 DEF Write
  <2>3. pc' \in {"write", "process", "closed", "out"}
    BY <1>11 DEF Write, WriteSome, WriteNothing, WriteAgain, WriteFails, WriteStray,
                 AfterWrite, Goto
  <2>4. request' \in Request
    BY <1>1, <1>11, WrittenRequest DEF TypeInv
  <2>5. QED
    BY <1>1, <2>1, <2>2, <2>3, <2>4
       DEF TypeInv, WriteVarsKept, boundVars, confVars, readVars, Near
<1>12. CASE UNCHANGED vars
  BY <1>1, <1>12 DEF TypeInv, vars, boundVars, confVars, readVars, reqVars, Near
<1>13. QED
  BY <1>1, <1>3, <1>4, <1>5, <1>6, <1>7, <1>8, <1>9, <1>10, <1>11, <1>12
     DEF Next, Server, Client, Rest

LEMMA BytesAlways == Spec => []BytesInv
<1>1. QED
  BY BytesInit, BytesStep, PTL DEF Spec

LEMMA TypeAlways == Spec => []TypeInv
<1>1. QED
  BY TypeInit, TypeStep, BytesAlways, PTL DEF Spec

(* The type invariant, with the layout of both Buffers: the positions of   *)
(* the one that is written from are in order and inside its vector; in the *)
(* one that is read into the read position is beyond the write position by *)
(* the length of one CRLF at most, and when readv is called only in a      *)
(* Buffer that retrieveAll has left stale (buffer.cc 43-59,                *)
(* http_request.cc 62-65).                                                 *)
THEOREM TypeCorrect == Spec => []TypeOK
<1>1. TypeInv /\ BytesInv /\ SendInv => TypeOK
  <2>1. SUFFICES ASSUME TypeInv, BytesInv, SendInv PROVE TypeOK
    OBVIOUS
  <2>2. read_buf.rp \in Nat /\ read_buf.wp \in Nat /\ taken \in Nat
    BY <2>1 DEF BytesInv
  <2>3. ~Stale => read_buf.rp <= read_buf.wp + 2 /\ read_buf.wp <= Len(read_buf.buf)
    BY <2>1 DEF TypeInv, BytesInv, Holds, BufferOK
  <2>4. pc \in {"in", "read"} /\ Overshot => Stale
    BY <2>1, <2>2 DEF BytesInv, Overshot
  <2>5. /\ write_buf.rp \in Nat /\ write_buf.wp \in Nat
        /\ write_buf.rp <= write_buf.wp /\ write_buf.wp <= Len(write_buf.buf)
        /\ answers \in Nat
    BY <2>1 DEF SendInv, WireInv, BufferOK
  <2>6. response \in Response /\ mappings \subseteq [file : Nat, len : Size]
    <3>1. response \in Response /\ MapsAre(response, mappings)
      BY <2>1 DEF SendInv, ResponseInv
    <3>2. QED
      BY <3>1 DEF MapsAre, Response
  <2>7. QED
    BY <2>1, <2>2, <2>3, <2>4, <2>5, <2>6 DEF TypeInv, SendInv, IovInv, TypeOK
<1>2. QED
  BY <1>1, TypeAlways, BytesAlways, SendAlways, PTL

-----------------------------------------------------------------------------
(* The request lines that the parser has taken from the stream: each pays  *)
(* for one answer.                                                         *)
TakenLines == {i \in 1 .. Len(received) : i <= taken /\ received[i] \in {Get, Post}}
Taken == Cardinality(TakenLines)

(* An answer has been paid for when its request line was taken, and the    *)
(* one that is not closes the connection: a request that keeps the         *)
(* connection has passed its request line, which is left behind as soon as *)
(* a header comes.                                                         *)
AskInv ==
    /\ pc \in {"in", "read", "process"} => answers <= Taken
    /\ pc = "parse" => /\ answers <= Taken
                       /\ Begun(request) => answers + 1 <= Taken
                       /\ ~Begun(request) => request.headers = {}
    /\ pc = "respond" => /\ answers <= Taken
                         /\ IsKeepAlive(request) => answers + 1 <= Taken
    /\ Sending => /\ answers <= Taken + 1
                  /\ IsKeepAlive(request) => answers <= Taken
    /\ pc = "closed" => answers <= Taken + 1

LEMMA SubsetsCount ==
    ASSUME NEW m \in Nat, NEW S, NEW T, S \subseteq T, T \subseteq 1 .. m
    PROVE  /\ Cardinality(S) \in Nat /\ Cardinality(T) \in Nat
           /\ Cardinality(S) <= Cardinality(T)
           /\ \A x \in T \ S : Cardinality(S) + 1 <= Cardinality(T)
<1>1. IsFiniteSet(1 .. m)
  BY FS_Interval
<1>2. IsFiniteSet(T)
  BY <1>1, FS_Subset
<1>3. IsFiniteSet(S) /\ Cardinality(S) <= Cardinality(T)
  BY <1>2, FS_Subset
<1>4. Cardinality(S) \in Nat /\ Cardinality(T) \in Nat
  BY <1>2, <1>3, FS_CardinalityType
<1>5. ASSUME NEW x \in T \ S
      PROVE  Cardinality(S) + 1 <= Cardinality(T)
  <2>1. Cardinality(S \cup {x}) = Cardinality(S) + 1
    BY <1>3, FS_AddElement
  <2>2. S \cup {x} \subseteq T
    BY <1>5
  <2>3. Cardinality(S \cup {x}) <= Cardinality(T)
    BY <1>2, <2>2, FS_Subset
  <2>4. QED
    BY <2>1, <2>3
<1>6. QED
  BY <1>3, <1>4, <1>5

LEMMA LinesInNat ==
    ASSUME NEW r \in Seq(Item), NEW n
    PROVE  Cardinality({i \in 1 .. Len(r) : i <= n /\ r[i] \in {Get, Post}}) \in Nat
<1>1. PICK T : T = {i \in 1 .. Len(r) : i <= n /\ r[i] \in {Get, Post}}
  OBVIOUS
<1>2. Len(r) \in Nat /\ T \subseteq T /\ T \subseteq 1 .. Len(r)
  BY <1>1, LenProperties
<1>3. Cardinality(T) \in Nat
  BY <1>2, SubsetsCount
<1>4. QED
  BY <1>1, <1>3

(* More of the stream, or more of it parsed: no line is given back. *)
LEMMA TakenGrows ==
    ASSUME BytesInv, BytesInv', taken <= taken', Len(received) <= Len(received'),
           \A i \in 1 .. Len(received) : received'[i] = received[i]
    PROVE  /\ Taken <= Taken' /\ TakenLines \subseteq TakenLines'
           /\ \A x \in TakenLines' \ TakenLines : Taken + 1 <= Taken'
<1>1. /\ Len(received) \in Nat /\ Len(received') \in Nat
      /\ taken \in Nat /\ taken' \in Nat
  BY LenProperties DEF BytesInv
<1>2. TakenLines \subseteq TakenLines'
  BY <1>1 DEF TakenLines
<1>3. TakenLines' \subseteq 1 .. Len(received')
  BY DEF TakenLines
<1>4. QED
  BY <1>1, <1>2, <1>3, SubsetsCount DEF Taken

(* A request line has a cell of the stream that was not taken before. *)
LEMMA LineIsTaken ==
    ASSUME Holds(read_buf, received, taken), read_buf.rp <= read_buf.wp, IsRequestLine(Line)
    PROVE  \E k \in Nat : /\ taken < k /\ k <= taken + (LineEnd - read_buf.rp)
                          /\ k <= Len(received) /\ received[k] \in {Get, Post}
<1>2. PICK x \in Seq(Item), p \in Nat, q \in Nat : read_buf = [buf |-> x, rp |-> p, wp |-> q]
  BY DEF Holds, BufferOK
<1>3. /\ p <= q /\ q <= Len(x) /\ Len(x) \in Nat /\ Len(received) \in Nat /\ taken \in Nat
      /\ taken + (q - p) = Len(received)
      /\ \A k \in 1 .. q - p : x[p + k] = received[taken + k]
  BY <1>2, LenProperties DEF Holds, BufferOK, Readable
<1>4. LineEnd \in Nat /\ p <= LineEnd /\ LineEnd <= q
  BY <1>2, <1>3, LineEndAhead
<1>5. PICK e \in Nat : e = LineEnd /\ p <= e /\ e <= q /\ e <= Len(x)
  BY <1>3, <1>4
<1>6. PICK l \in Seq(Item) : /\ l = SubSeq(x, p + 1, e)
                             /\ Len(l) = e - p
                             /\ \A i \in 1 .. e - p : l[i] = x[p + i]
  BY <1>5, Part, ZenonT(60)
<1>7. l = Line
  BY <1>2, <1>5, <1>6 DEF Line
<1>8. PICK i \in 1 .. e - p : l[i] \in {Get, Post}
  <2>1. \E i \in DOMAIN l : l[i] \in {Get, Post}
    BY <1>7, Zenon DEF IsRequestLine
  <2>2. DOMAIN l = 1 .. e - p
    BY <1>6, LenProperties
  <2>3. QED
    BY <2>1, <2>2
<1>9. i \in Nat /\ i > 0 /\ i <= e - p /\ i \in 1 .. q - p
  BY <1>5, <1>8
<1>10. received[taken + i] = l[i]
  BY <1>3, <1>6, <1>8, <1>9
<1>11. /\ taken + i \in Nat /\ taken < taken + i /\ taken + i <= taken + (e - p)
       /\ taken + i <= Len(received)
  BY <1>3, <1>5, <1>9
<1>12. QED
  BY <1>2, <1>5, <1>8, <1>10, <1>11

LEMMA AskInit == Init => AskInv
<1>1. SUFFICES ASSUME Init PROVE AskInv
  OBVIOUS
<1>2. received \in Seq(Item)
  BY <1>1, BytesInit DEF BytesInv
<1>3. Taken \in Nat
  BY <1>2, LinesInNat DEF Taken, TakenLines
<1>4. QED
  BY <1>1, <1>3 DEF Init, AskInv, Sending

(* The steps of the parser. *)
LEMMA ParseAsk ==
    TypeInv /\ BytesInv /\ BytesInv' /\ AskInv /\ answers \in Nat /\ Parse => AskInv'
<1>1. SUFFICES ASSUME TypeInv, BytesInv, BytesInv', AskInv, answers \in Nat, Parse
               PROVE  AskInv'
  OBVIOUS
<1>2. /\ pc = "parse" /\ answers' = answers /\ received' = received
      /\ Taken \in Nat /\ Taken' \in Nat /\ answers \in Nat
  <2>1. pc = "parse" /\ answers' = answers /\ received' = received
    BY <1>1 DEF Parse, ParseLineFails, ParseLastLine, ParseNextLine, ParseOvershot,
                ParseEnds, ParseDone, Parsing, ProcessVarsKept, respVars
  <2>2. received \in Seq(Item) /\ received' \in Seq(Item)
    BY <1>1 DEF BytesInv
  <2>3. Taken \in Nat /\ Taken' \in Nat
    BY <2>2, LinesInNat DEF Taken, TakenLines
  <2>4. QED
    BY <1>1, <2>1, <2>3
<1>3. /\ answers <= Taken
      /\ Begun(request) => answers + 1 <= Taken
      /\ ~Begun(request) => request.headers = {}
  BY <1>1, <1>2 DEF AskInv
<1>4. ~Begun(request) => ~IsKeepAlive(request)
  BY <1>3 DEF IsKeepAlive
<1>5. taken' = taken => Taken' = Taken
  BY <1>2 DEF Taken, TakenLines
<1>6. CASE ParseLineFails \/ ParseLastLine
  <2>1. PICK res \in ParseLine(request, Line) : request' = res.req
    BY <1>6 DEF ParseLineFails, ParseLastLine
  <2>2. request \in Request /\ request.state # "FINISH"
    BY <1>1, <1>6 DEF TypeInv, ParseLineFails, ParseLastLine, Parsing
  <2>3. ~Begun(request) => request'.headers = {}
    BY <1>3, <2>1, <2>2, LineMakes
  <2>4. pc' = "respond" /\ taken' = taken
    BY <1>6 DEF ParseLineFails, ParseLastLine, readVars
  <2>5. IsKeepAlive(request') => answers + 1 <= Taken
    BY <1>3, <2>3 DEF IsKeepAlive
  <2>6. QED
    BY <1>2, <1>3, <1>5, <2>4, <2>5 DEF AskInv, Sending
<1>7. CASE ParseNextLine
  <2>1. PICK res \in ParseLine(request, Line) : res.ok /\ request' = res.req
    BY <1>7 DEF ParseNextLine
  <2>2. request \in Request /\ request.state # "FINISH"
    BY <1>1, <1>7 DEF TypeInv, ParseNextLine, Parsing
  <2>3. /\ Begun(request) => Begun(request')
        /\ ~Begun(request) => /\ request'.headers = {}
                              /\ IsRequestLine(Line)
    BY <1>3, <2>1, <2>2, LineMakes
  <2>4. read_buf.rp \in Nat /\ read_buf.wp \in Nat /\ taken \in Nat /\ Len(received) \in Nat
    BY <1>1, LenProperties DEF BytesInv
  <2>5. read_buf.rp <= read_buf.wp
    BY <1>7, <2>4 DEF ParseNextLine, Overshot
  <2>6. LineEnd \in Nat /\ read_buf.rp <= LineEnd
    BY <2>4, <2>5, LineEndAhead
  <2>7. PICK x \in Seq(Item), p \in Nat, q \in Nat : read_buf = [buf |-> x, rp |-> p, wp |-> q]
    BY <1>1 DEF BytesInv
  <2>8. taken' = taken + (LineEnd + 2 - p)
    <3>1. /\ read_buf' = RetrievedLine
          /\ taken' = taken + (read_buf'.rp - read_buf.rp)
      BY <1>7 DEF ParseNextLine
    <3>2. read_buf' = [buf |-> x, rp |-> p + (LineEnd + 2 - p), wp |-> q]
      BY <2>7, <3>1 DEF RetrievedLine, Retrieved
    <3>3. QED
      BY <2>4, <2>6, <2>7, <3>1, <3>2
  <2>9. taken + 2 <= taken'
    BY <2>4, <2>6, <2>7, <2>8
  <2>10. /\ Taken <= Taken'
         /\ \A y \in TakenLines' \ TakenLines : Taken + 1 <= Taken'
    <3>1. taken <= taken' /\ Len(received) <= Len(received')
      BY <1>2, <2>4, <2>8, <2>9
    <3>2. \A i \in 1 .. Len(received) : received'[i] = received[i]
      BY <1>2
    <3>3. QED
      BY <1>1, <3>1, <3>2, TakenGrows
  <2>11. pc' = "parse"
    BY <1>2, <1>7 DEF ParseNextLine
  <2>12. CASE Begun(request)
    BY <1>2, <1>3, <2>3, <2>10, <2>11, <2>12 DEF AskInv, Sending
  <2>13. CASE ~Begun(request)
    <3>1. PICK k \in Nat : /\ taken < k /\ k <= taken + (LineEnd - read_buf.rp)
                           /\ k <= Len(received) /\ received[k] \in {Get, Post}
      <4>1. Holds(read_buf, received, taken)
        BY <1>1, <1>2, NotStale
      <4>2. QED
        BY <2>3, <2>5, <2>13, <4>1, LineIsTaken
    <3>2. k \in TakenLines' \ TakenLines
      <4>1. k \in 1 .. Len(received) /\ k <= taken'
        BY <2>4, <2>6, <2>7, <2>8, <3>1
      <4>2. ~(k <= taken)
        BY <2>4, <3>1
      <4>3. QED
        BY <1>2, <3>1, <4>1, <4>2, Zenon DEF TakenLines
    <3>3. Taken + 1 <= Taken'
      BY <2>10, <3>2
    <3>4. QED
      BY <1>2, <1>3, <2>3, <2>11, <2>13, <3>3 DEF AskInv, Sending
  <2>14. QED
    BY <2>12, <2>13
<1>8. CASE ParseOvershot \/ ParseEnds
  BY <1>1, <1>2, <1>5, <1>8 DEF ParseOvershot, ParseEnds, AskInv, Sending, readVars,
                                reqVars, Begun, IsKeepAlive
<1>9. CASE ParseDone
  <2>1. pc' = "respond" /\ taken' = taken /\ request' = request
    BY <1>9 DEF ParseDone, readVars
  <2>2. IsKeepAlive(request) => answers + 1 <= Taken
    BY <1>3, <1>4
  <2>3. QED
    BY <1>2, <1>3, <1>5, <2>1, <2>2 DEF AskInv, Sending
<1>10. QED
  BY <1>1, <1>6, <1>7, <1>8, <1>9 DEF Parse

LEMMA AskStep ==
    TypeInv /\ BytesInv /\ BytesInv' /\ AskInv /\ answers \in Nat /\ [Next]_vars => AskInv'
<1>1. SUFFICES ASSUME TypeInv, BytesInv, BytesInv', AskInv, answers \in Nat, [Next]_vars
               PROVE  AskInv'
  OBVIOUS
<1>2. Taken \in Nat /\ Taken' \in Nat
  <2>1. received \in Seq(Item) /\ received' \in Seq(Item)
    BY <1>1 DEF BytesInv
  <2>2. QED
    BY <2>1, LinesInNat DEF Taken, TakenLines
<1>3. received' = received /\ taken' = taken => Taken' = Taken
  BY DEF Taken, TakenLines
<1>4. CASE Connect
  BY <1>2, <1>4 DEF Connect, AskInv, Sending
<1>5. CASE \E r \in Requests : Ask(r)
  BY <1>1, <1>3, <1>5 DEF Ask, AskInv, Sending, readVars, reqVars, respVars, Looked, IsKeepAlive
<1>6. CASE Arrive
  BY <1>1, <1>3, <1>6 DEF Arrive, AskInv, Sending, readVars, reqVars, respVars, Looked, IsKeepAlive
<1>7. CASE Ready
  BY <1>1, <1>3, <1>7 DEF Ready, AskInv, Sending, readVars, reqVars, respVars, IsKeepAlive
<1>8. CASE HangUp
  BY <1>1, <1>2, <1>3, <1>8 DEF HangUp, Goto, AskInv, Sending, readVars, respVars
<1>9. CASE ReadSome
  <2>1. /\ pc = "read" /\ pc' \in {"read", "process"} /\ answers' = answers
        /\ taken' = taken /\ received' = received \o in_data
    BY <1>9 DEF ReadSome, Readv, ReadVarsKept, respVars
  <2>2. received \in Seq(Item) /\ in_data \in Seq(Item) /\ taken \in Nat
    BY <1>1 DEF BytesInv
  <2>3. PICK l \in Seq(Item) : /\ l = received \o in_data
                               /\ Len(l) = Len(received) + Len(in_data)
                               /\ \A i \in 1 .. Len(received) : l[i] = received[i]
    BY <2>2, Joined
  <2>4. taken <= taken' /\ Len(received) <= Len(received')
    BY <2>1, <2>2, <2>3, LenProperties
  <2>5. \A i \in 1 .. Len(received) : received'[i] = received[i]
    BY <2>1, <2>3
  <2>6. Taken <= Taken'
    BY <1>1, <2>4, <2>5, TakenGrows
  <2>7. answers <= Taken
    BY <1>1, <2>1 DEF AskInv
  <2>8. answers' <= Taken'
    BY <1>1, <1>2, <2>1, <2>6, <2>7
  <2>9. QED
    BY <2>1, <2>8 DEF AskInv, Sending
<1>10. CASE ReadPastEnd \/ ReadAsserts \/ ReadNothing \/ ReadEnds
  <2>1. /\ pc = "read" /\ pc' \in {"read", "process", "closed"} /\ answers' = answers
        /\ received' = received /\ taken' = taken
    BY <1>10 DEF ReadPastEnd, ReadAsserts, ReadNothing, ReadEnds, Readv, Goto, ReadVarsKept,
                 readVars, respVars
  <2>2. QED
    BY <1>1, <1>2, <1>3, <2>1 DEF AskInv, Sending
<1>11. CASE ProcessEnds
  BY <1>1, <1>3, <1>11 DEF ProcessEnds, ProcessVarsKept, AskInv, Sending, readVars, respVars
<1>12. CASE Process
  <2>1. /\ pc = "process" /\ pc' \in {"in", "parse"} /\ answers' = answers
        /\ received' = received /\ taken' = taken /\ request' = NewRequest
    BY <1>12 DEF Process, ProcessVarsKept, InitRequest, readVars, respVars
  <2>2. QED
    BY <1>1, <1>2, <1>3, <2>1 DEF AskInv, Sending, Begun, NewRequest
<1>13. CASE Parse
  BY <1>1, <1>13, ParseAsk
<1>14. CASE Respond
  <2>1. UNCHANGED <<readVars, request>> /\ pc = "respond" /\ pc' = "out" /\ answers' = answers + 1
    BY <1>14, Zenon DEF Respond
  <2>2. QED
    BY <1>1, <1>2, <1>3, <2>1 DEF AskInv, Sending, readVars, IsKeepAlive
<1>15. CASE WriteStray
  BY <1>1, <1>3, <1>15 DEF WriteStray, WriteVarsKept, NothingSent, AskInv, Sending, readVars,
                           IsKeepAlive
<1>16. CASE WriteSome \/ WriteNothing \/ WriteAgain \/ WriteFails
  <2>1. pc = "write" /\ UNCHANGED <<readVars, answers>>
    BY <1>16 DEF WriteSome, WriteNothing, WriteAgain, WriteFails, WriteVarsKept
  <2>2. IsKeepAlive(request') => IsKeepAlive(request)
    BY <1>1, <1>16, WrittenRequest DEF TypeInv, Write
  <2>3. /\ pc' \in {"write", "process", "closed", "out"}
        /\ pc' = "process" => IsKeepAlive(request')
    BY <1>16 DEF WriteSome, WriteNothing, WriteAgain, WriteFails, NothingSent, Goto, AfterWrite
  <2>4. IsKeepAlive(request)' = IsKeepAlive(request')
    BY DEF IsKeepAlive
  <2>5. received' = received /\ taken' = taken
    BY <2>1 DEF readVars
  <2>6. QED
    BY <1>1, <1>2, <1>3, <2>1, <2>2, <2>3, <2>4, <2>5 DEF AskInv, Sending
<1>17. CASE UNCHANGED vars
  BY <1>1, <1>3, <1>17 DEF vars, AskInv, Sending, readVars, reqVars, respVars, Begun, IsKeepAlive
<1>18. QED
  BY <1>1, <1>4, <1>5, <1>6, <1>7, <1>8, <1>9, <1>10, <1>11, <1>12, <1>13, <1>14, <1>15, <1>16,
     <1>17 DEF Next, Server, Client, Read, Write, Rest

LEMMA AskAlways == Spec => []AskInv
<1>1. SendInv => answers \in Nat
  BY DEF SendInv, WireInv
<1>2. QED
  BY <1>1, AskInit, AskStep, TypeAlways, BytesAlways, SendAlways, PTL DEF Spec

(* A client gets as many responses at most as the parser has taken request *)
(* lines from its stream, and one more, whatever the client sends: the one *)
(* response that no request line pays for closes the connection            *)
(* (http_conn.cc 80, http_request.cc 62-65, server.cc 271).                *)
AnswersPaid == answers <= Taken + 1

THEOREM AnswersAlwaysPaid == Spec => []AnswersPaid
<1>1. AskInv /\ TypeInv /\ BytesInv /\ SendInv => AnswersPaid
  <2>1. SUFFICES ASSUME AskInv, TypeInv, BytesInv, SendInv PROVE answers <= Taken + 1
    BY DEF AnswersPaid
  <2>2. received \in Seq(Item) /\ answers \in Nat
    BY <2>1 DEF BytesInv, SendInv, WireInv
  <2>3. Taken \in Nat
    BY <2>2, LinesInNat DEF Taken, TakenLines
  <2>4. QED
    BY <2>1, <2>2, <2>3 DEF AskInv, TypeInv, Sending, Working
<1>2. QED
  BY <1>1, AskAlways, TypeAlways, BytesAlways, SendAlways, PTL

-----------------------------------------------------------------------------
(* What comes was sent: every cell is one of a request. *)
SentCell(c) == \E r \in Requests : \E i \in 1 .. Len(r) : c = r[i]
FromRequests(s) == \A i \in 1 .. Len(s) : SentCell(s[i])

CellsInv == FromRequests(to_send) /\ FromRequests(in_data) /\ FromRequests(received)

LEMMA JoinedFrom ==
    ASSUME NEW x \in Seq(Item), NEW y \in Seq(Item), FromRequests(x), FromRequests(y)
    PROVE  FromRequests(x \o y)
<1>1. PICK l \in Seq(Item) : /\ l = x \o y
                             /\ Len(l) = Len(x) + Len(y)
                             /\ \A i \in 1 .. Len(x) : l[i] = x[i]
                             /\ \A i \in 1 .. Len(y) : l[Len(x) + i] = y[i]
  BY Joined
<1>2. Len(x) \in Nat /\ Len(y) \in Nat
  BY LenProperties
<1>3. ASSUME NEW i \in 1 .. Len(l)
      PROVE  SentCell(l[i])
  <2>1. CASE i <= Len(x)
    <3>1. i \in 1 .. Len(x)
      BY <1>2, <2>1
    <3>2. QED
      BY <1>1, <3>1 DEF FromRequests
  <2>2. CASE i > Len(x)
    <3>1. PICK j \in 1 .. Len(y) : i = Len(x) + j
      <4>1. i - Len(x) \in 1 .. Len(y) /\ i = Len(x) + (i - Len(x))
        BY <1>1, <1>2, <2>2
      <4>2. QED
        BY <4>1, Zenon
    <3>2. QED
      BY <1>1, <3>1 DEF FromRequests
  <2>3. QED
    BY <1>2, <2>1, <2>2
<1>4. QED
  BY <1>1, <1>3 DEF FromRequests

LEMMA PartFrom ==
    ASSUME NEW x \in Seq(Item), FromRequests(x), NEW m \in Nat, NEW n \in Nat,
           m <= n, n <= Len(x)
    PROVE  FromRequests(SubSeq(x, m + 1, n))
<1>1. PICK l \in Seq(Item) : /\ l = SubSeq(x, m + 1, n)
                             /\ Len(l) = n - m
                             /\ \A i \in 1 .. n - m : l[i] = x[m + i]
  BY Part, Zenon
<1>2. ASSUME NEW i \in 1 .. Len(l)
      PROVE  SentCell(l[i])
  <2>1. i \in 1 .. n - m /\ m + i \in 1 .. Len(x)
    BY <1>1, LenProperties
  <2>2. SentCell(x[m + i])
    BY <2>1 DEF FromRequests
  <2>3. QED
    BY <1>1, <2>1, <2>2
<1>3. QED
  BY <1>1, <1>2 DEF FromRequests

LEMMA NothingFrom == FromRequests(<<>>)
<1>1. Len(<<>>) = 0
  OBVIOUS
<1>2. QED
  BY <1>1 DEF FromRequests

LEMMA CellsInit == Init => CellsInv
<1>1. QED
  BY NothingFrom DEF Init, CellsInv

LEMMA CellsStep == BytesInv /\ CellsInv /\ [Next]_vars => CellsInv'
<1>1. SUFFICES ASSUME BytesInv, CellsInv, [Next]_vars PROVE CellsInv'
  OBVIOUS
<1>2. /\ to_send \in Seq(Item) /\ in_data \in Seq(Item) /\ received \in Seq(Item)
      /\ FromRequests(to_send) /\ FromRequests(in_data) /\ FromRequests(received)
  BY <1>1 DEF BytesInv, CellsInv
<1>3. CASE Connect
  BY <1>2, <1>3, NothingFrom DEF Connect, netVars, CellsInv
<1>4. CASE \E r \in Requests : Ask(r)
  <2>1. PICK r \in Requests : Ask(r)
    BY <1>4
  <2>2. r \in Seq(Item)
    BY ConnAssumption, BytesAreItems
  <2>3. FromRequests(r)
    BY DEF FromRequests, SentCell
  <2>4. to_send' = to_send \o r /\ UNCHANGED <<in_data, received>>
    BY <2>1 DEF Ask, readVars
  <2>5. QED
    BY <1>2, <2>2, <2>3, <2>4, JoinedFrom DEF CellsInv
<1>5. CASE Arrive
  <2>1. PICK n \in 1 .. Len(to_send) : /\ in_data' = SubSeq(to_send, 1, n)
                                       /\ to_send' = SubSeq(to_send, n + 1, Len(to_send))
    BY <1>5 DEF Arrive
  <2>2. Len(to_send) \in Nat /\ n \in Nat /\ n <= Len(to_send) /\ 0 \in Nat /\ 0 <= n
        /\ Len(to_send) <= Len(to_send) /\ 0 + 1 = 1
    BY <1>2, LenProperties
  <2>3. FromRequests(SubSeq(to_send, 0 + 1, n))
    BY <1>2, <2>2, PartFrom, Zenon
  <2>4. FromRequests(SubSeq(to_send, n + 1, Len(to_send)))
    BY <1>2, <2>2, PartFrom, Zenon
  <2>5. received' = received
    BY <1>5 DEF Arrive, readVars
  <2>6. QED
    BY <1>2, <2>1, <2>2, <2>3, <2>4, <2>5 DEF CellsInv
<1>6. CASE ReadSome
  <2>1. received' = received \o in_data /\ in_data' = <<>> /\ to_send' = to_send
    BY <1>6 DEF ReadSome
  <2>2. QED
    BY <1>2, <2>1, JoinedFrom, NothingFrom DEF CellsInv
<1>7. CASE /\ received' = received
           /\ \/ UNCHANGED netVars
              \/ to_send' = <<>> /\ in_data' = <<>>
  BY <1>2, <1>7, NothingFrom DEF CellsInv, netVars
<1>8. ReadPastEnd \/ ReadAsserts \/ ReadNothing \/ ReadEnds \/ HangUp
        => /\ received' = received
           /\ \/ UNCHANGED netVars
              \/ to_send' = <<>> /\ in_data' = <<>>
  BY DEF ReadPastEnd, ReadAsserts, ReadNothing, ReadEnds, HangUp, Goto, readVars
<1>9. Process \/ ProcessEnds \/ Parse \/ Ready \/ UNCHANGED vars => received' = received /\ UNCHANGED netVars
  BY DEF Process, ProcessEnds, Parse, ParseLineFails, ParseLastLine, ParseNextLine,
         ParseOvershot, ParseEnds, ParseDone, ProcessVarsKept, Ready, readVars, netVars, vars
<1>10. Respond => received' = received /\ UNCHANGED netVars
  <2>1. SUFFICES ASSUME Respond PROVE received' = received /\ UNCHANGED netVars
    OBVIOUS
  <2>2. UNCHANGED <<readVars, netVars>>
    BY <2>1, Zenon DEF Respond
  <2>3. QED
    BY <2>2 DEF readVars, netVars
<1>11. Write => /\ received' = received
                /\ \/ UNCHANGED netVars
                   \/ to_send' = <<>> /\ in_data' = <<>>
  <2>1. SUFFICES ASSUME Write PROVE /\ received' = received
                                    /\ \/ UNCHANGED netVars
                                       \/ to_send' = <<>> /\ in_data' = <<>>
    OBVIOUS
  <2>2. received' = received
    BY <2>1 DEF Write, WriteSome, WriteNothing, WriteAgain, WriteFails, WriteStray,
                WriteVarsKept, readVars
  <2>3. (\E p \in {"write", "process", "closed", "out"} : Goto(p)) \/ UNCHANGED netVars
    BY <2>1 DEF Write, WriteSome, WriteNothing, WriteAgain, WriteFails, WriteStray,
                AfterWrite, netVars
  <2>4. QED
    BY <2>2, <2>3 DEF Goto
<1>12. QED
  BY <1>1, <1>3, <1>4, <1>5, <1>6, <1>7, <1>8, <1>9, <1>10, <1>11
     DEF Next, Server, Client, Read, Rest

LEMMA CellsAlways == Spec => []CellsInv
<1>1. QED
  BY CellsInit, CellsStep, BytesAlways, PTL DEF Spec

(* A request line is where a request begins, and nowhere else in one. *)
LinesBegin ==
    \A r \in Requests : \A i \in 1 .. Len(r) :
        r[i] \in {Get, Post} => \E q \in Requests : r[i] = q[1]

LEMMA TakenAsked == LinesBegin /\ CellsInv /\ BytesInv => Taken <= Asked /\ Asked \in Nat
<1>1. SUFFICES ASSUME LinesBegin, CellsInv, BytesInv PROVE Taken <= Asked /\ Asked \in Nat
  OBVIOUS
<1> DEFINE begins == {i \in 1 .. Len(received) : \E r \in Requests : received[i] = r[1]}
<1>2. Len(received) \in Nat
  BY <1>1, LenProperties DEF BytesInv
<1>3. TakenLines \subseteq begins
  <2>1. SUFFICES ASSUME NEW i \in 1 .. Len(received), received[i] \in {Get, Post}
                 PROVE  \E r \in Requests : received[i] = r[1]
    BY DEF TakenLines
  <2>2. PICK r \in Requests : \E k \in 1 .. Len(r) : received[i] = r[k]
    BY <1>1 DEF CellsInv, FromRequests, SentCell
  <2>3. PICK k \in 1 .. Len(r) : received[i] = r[k]
    BY <2>2
  <2>4. QED
    BY <1>1, <2>1, <2>3, Zenon DEF LinesBegin
<1>4. begins \subseteq 1 .. Len(received)
  OBVIOUS
<1> HIDE DEF begins
<1>5. Cardinality(TakenLines) <= Cardinality(begins) /\ Cardinality(begins) \in Nat
  BY <1>2, <1>3, <1>4, SubsetsCount
<1>6. QED
  BY <1>5 DEF Taken, Asked, begins

(* A client gets one response at most that it did not ask for, however its *)
(* requests are cut in segments and however long they are, if what looks   *)
(* like a request line begins a request, as it does in MCRequests          *)
(* (http_conn.cc 80, http_request.cc 62-65, server.cc 271).                *)
THEOREM UnaskedAlwaysAtMostOne == LinesBegin => (Spec => []UnaskedAtMostOne)
<1>1. SUFFICES ASSUME LinesBegin PROVE Spec => []UnaskedAtMostOne
  OBVIOUS
<1>2. AnswersPaid /\ BytesInv /\ SendInv /\ CellsInv => UnaskedAtMostOne
  <2>1. SUFFICES ASSUME AnswersPaid, BytesInv, SendInv, CellsInv PROVE UnaskedAtMostOne
    OBVIOUS
  <2>2. Taken <= Asked /\ Asked \in Nat
    BY <1>1, <2>1, TakenAsked
  <2>3. received \in Seq(Item) /\ answers \in Nat
    BY <2>1 DEF BytesInv, SendInv, WireInv
  <2>4. Taken \in Nat
    BY <2>3, LinesInNat DEF Taken, TakenLines
  <2>5. QED
    BY <2>1, <2>2, <2>3, <2>4 DEF AnswersPaid, UnaskedAtMostOne
<1>3. QED
  BY <1>2, AnswersAlwaysPaid, BytesAlways, SendAlways, CellsAlways, PTL
=============================================================================

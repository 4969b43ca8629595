------------------------------ MODULE HttpConn ------------------------------
(***************************************************************************)
(* src/src/http/http_conn.cc with its Buffers, HttpRequest and             *)
(* HttpResponse: the bytes of one HttpConn, the entry of one descriptor in *)
(* Server::_users, which serves one client after the other.  Server.tla    *)
(* shows that one thread at a time has it; here is what that thread does   *)
(* with the bytes, a step for each readv, each line parsed, each response  *)
(* and each writev, and what _onRead, _onWrite and _onProcess of           *)
(* server.cc do with the result.                                           *)
(*                                                                         *)
(*   closed -> in -> read -> process -> parse -> respond -> out -> write   *)
(*                             ^                                     |     *)
(*                             +------- keep-alive ------------------+     *)
(***************************************************************************)
EXTENDS Integers, Sequences, FiniteSets, SequencesExt, Buffer, HttpRequest, HttpResponse

CONSTANTS Requests,      (* what a client may send: sequences of cells *)
          MaxClients,    (* bound: clients that get this descriptor *)
          MaxRequests,   (* bound: requests of all of them *)
          InitSize,      (* the size a Buffer begins with *)
          LTRest         (* 10240 bytes (http_conn.cc 75), in cells *)

Byte == {Zero, CR, LF, Get, Post, KeepAlive, FormType, Form}

ASSUME ConnAssumption ==
    /\ MaxClients \in Nat /\ MaxRequests \in Nat
    /\ Size \subseteq Nat /\ 0 \in Size
    /\ IntLimit \in Nat /\ IntLimit > 4   (* more than a head has *)
    /\ InitSize \in Nat \ {0} /\ LTRest \in Nat
    /\ \A r \in Requests : r \in Seq(Byte) /\ Len(r) > 0

VARIABLES
    up,         (* the process runs, and what it does is defined *)
    asserts,    (* is NDEBUG unset in this build *)
    is_ET,
    pc,         (* what the descriptor's owner does next *)
    read_buf, write_buf,
    request, response,
    iov_count,
    iov0,       (* [off, len]: a part of write_buf's memory *)
    iov1,       (* [file, off, len]: a part of a mapped file *)
    parsed,     (* what parse() returned, until the response is made *)
    to_send,    (* network: sent by the client, not here yet *)
    in_data,    (* network: here, not read yet *)
    mappings,   (* kernel: the files this object has mapped, [file, len] *)
    received,   (* history: what readv has given, of this client *)
    taken,      (* history: how much of it the parser has retrieved *)
    answer,     (* history: the response that was made last ... *)
    wire,       (* ... and what of it has been sent *)
    answers,    (* history: the responses made for this client *)
    clients, requests

confVars == <<asserts, is_ET>>
reqVars == <<request, parsed>>
iovVars == <<iov_count, iov0, iov1>>
respVars == <<response, mappings, answer, answers>>
netVars == <<to_send, in_data>>
readVars == <<read_buf, received, taken>>
boundVars == <<clients, requests>>
vars == <<up, confVars, pc, readVars, write_buf, reqVars, iovVars, respVars,
          netVars, wire, boundVars>>

(* The constructor leaves _iov with whatever was in its memory: a second   *)
(* length of 1 stands for those that are not 0.                            *)
Init ==
    /\ up = TRUE
    /\ asserts \in BOOLEAN /\ is_ET \in BOOLEAN
    /\ pc = "closed"
    /\ read_buf = NewBuffer(InitSize) /\ write_buf = NewBuffer(InitSize)
    /\ request = NewRequest /\ response = NewResponse
    /\ parsed = FALSE
    /\ iov_count = 0
    /\ iov0 = [off |-> 0, len |-> 0]
    /\ iov1 \in [file : {NoFile}, off : {0}, len : {0, 1}]
    /\ to_send = <<>> /\ in_data = <<>>
    /\ mappings = {}
    /\ received = <<>> /\ taken = 0
    /\ answer = <<>> /\ wire = <<>> /\ answers = 0
    /\ clients = 0 /\ requests = 0

-----------------------------------------------------------------------------
(* The client and the network. *)

(* _write_buf.retrieveAll().  What a response has been written to has more *)
(* than 40 bytes (its first three lines alone have 61): it is empty then,  *)
(* and the members after it, request first, are run over.                  *)
RetrieveAllOfWriteBuf ==
    /\ write_buf' = NewBuffer(0)
    /\ IF write_buf.wp = 0 THEN UNCHANGED request ELSE request' \in Cleared(request)

(* _addClient and HttpConn::init: the buffers begin anew, as far as        *)
(* retrieveAll lets them, and nothing else does.                           *)
Connect ==
    /\ pc = "closed"
    /\ clients < MaxClients
    /\ clients' = clients + 1
    /\ up' = ~RetrievesAstray(read_buf)
    /\ read_buf' = RetrievedAll(read_buf)
    /\ RetrieveAllOfWriteBuf
    /\ received' = <<>> /\ taken' = 0
    /\ answers' = 0 /\ answer' = <<>> /\ wire' = <<>>
    /\ pc' = "in"
    /\ UNCHANGED <<requests, confVars, parsed, iovVars, response, mappings, netVars>>

(* What a client sends is looked at by epoll_wait and by readv only: it    *)
(* may as well come then.                                                  *)
Looked == pc \in {"in", "read"}

Ask(r) ==
    /\ Looked
    /\ requests < MaxRequests
    /\ requests' = requests + 1
    /\ to_send' = to_send \o r
    /\ UNCHANGED <<up, confVars, pc, readVars, write_buf, reqVars, iovVars,
                   respVars, in_data, wire, clients>>

(* The stream arrives in segments of any size; two that arrive between two *)
(* looks are one.                                                          *)
Arrive ==
    /\ Looked
    /\ in_data = <<>>
    /\ \E n \in 1 .. Len(to_send) :
           /\ in_data' = SubSeq(to_send, 1, n)
           /\ to_send' = SubSeq(to_send, n + 1, Len(to_send))
    /\ UNCHANGED <<up, confVars, pc, readVars, write_buf, reqVars, iovVars,
                   respVars, wire, boundVars>>

(* pc goes to p; a closed descriptor loses what is still on its way. *)
Goto(p) ==
    /\ pc' = p
    /\ IF p = "closed" THEN to_send' = <<>> /\ in_data' = <<>> ELSE UNCHANGED netVars

(* The event loop: a hang-up of the client, or the descriptor is ready. *)
HangUp ==
    /\ pc \in {"in", "out"}
    /\ Goto("closed")
    /\ UNCHANGED <<up, confVars, readVars, write_buf, reqVars, iovVars, respVars,
                   wire, boundVars>>

Ready ==
    /\ \/ pc = "in" /\ in_data # <<>> /\ pc' = "read"
       \/ pc = "out" /\ pc' = "write"
    /\ UNCHANGED <<up, confVars, readVars, write_buf, reqVars, iovVars, respVars,
                   netVars, wire, boundVars>>

-----------------------------------------------------------------------------
(* _onRead and HttpConn::read. *)

ReadVarsKept == UNCHANGED <<confVars, write_buf, reqVars, iovVars, respVars, wire, boundVars>>

(* What _readToBuf lets readv write to the buffer itself: the iovec is as  *)
(* long as the bytes that are readable.                                    *)
Room == Readable(read_buf)

(* Of s: what goes there, the rest goes to an array on the stack. *)
Direct(s) == IF Len(s) <= Room THEN Len(s) ELSE Room

(* Mutant of Stored: the whole of s is taken from the stack. *)
StoredTwice(b, s) == Appended(Written(b, SubSeq(s, 1, Direct(s))), s)

(* _readToBuf: readv into both, and the array is appended. *)
Stored(b, s) == Appended(Written(b, SubSeq(s, 1, Direct(s))), SubSeq(s, Direct(s) + 1, Len(s)))

(* Positions are unsigned: a read position beyond the write position is    *)
(* taken for a great many readable bytes.                                  *)
Overshot == read_buf.rp > read_buf.wp

(* init has found a vector so small that a position was not reset. *)
Stale == read_buf.buf = <<>> /\ (read_buf.rp # 0 \/ read_buf.wp # 0)

(* readv is called: getWritePos asserts that the vector is not empty,      *)
(* which it is after retrieveAll.                                          *)
Readv == pc = "read" /\ ~(asserts /\ read_buf.buf = <<>>)

(* readv gives what is there.  An edge-triggered connection is read again. *)
ReadSome ==
    /\ Readv /\ ~Overshot
    /\ in_data # <<>>
    /\ Direct(in_data) <= Writable(read_buf)
    /\ read_buf' = Stored(read_buf, in_data)
    /\ received' = received \o in_data
    /\ in_data' = <<>>
    /\ pc' = IF is_ET THEN "read" ELSE "process"
    /\ UNCHANGED <<up, taken, to_send>> /\ ReadVarsKept

(* readv writes past the end of the vector; where there is none it gives   *)
(* EFAULT.                                                                 *)
ReadPastEnd ==
    /\ Readv /\ ~Overshot
    /\ in_data # <<>>
    /\ Direct(in_data) > Writable(read_buf)
    /\ read_buf.buf # <<>> \/ Direct(in_data) = 0
    /\ up' = FALSE
    /\ UNCHANGED <<pc, readVars, netVars>> /\ ReadVarsKept

(* The assertion fails. *)
ReadAsserts ==
    /\ pc = "read" /\ ~Readv
    /\ up' = FALSE
    /\ UNCHANGED <<pc, readVars, netVars>> /\ ReadVarsKept

(* EAGAIN. *)
ReadNothing ==
    /\ Readv /\ ~Overshot
    /\ in_data = <<>>
    /\ pc' = "process"
    /\ UNCHANGED <<up, readVars, netVars>> /\ ReadVarsKept

(* The end of the stream, or an error: EFAULT, and EINVAL for a length of  *)
(* more than SSIZE_MAX, are all that a stale Buffer gets.                  *)
ReadEnds ==
    /\ Readv
    /\ Goto("closed")
    /\ UNCHANGED <<up, readVars>> /\ ReadVarsKept

Read == ReadSome \/ ReadPastEnd \/ ReadAsserts \/ ReadNothing \/ ReadEnds

-----------------------------------------------------------------------------
(* _onProcess and HttpConn::process. *)

ProcessVarsKept == UNCHANGED <<confVars, netVars, received, wire, boundVars>>

(* Mutant of Process: the number of bytes is taken for a signed one. *)
ProcessSigned ==
    /\ pc = "process" /\ request.whole
    /\ request' = InitRequest(request)
    /\ pc' = IF Readable(read_buf) <= 0 THEN "in" ELSE "parse"
    /\ UNCHANGED <<up, readVars, write_buf, parsed, iovVars, respVars>> /\ ProcessVarsKept

Process ==
    /\ pc = "process" /\ request.whole
    /\ request' = InitRequest(request)
    /\ pc' = IF Readable(read_buf) = 0 THEN "in" ELSE "parse"
    /\ UNCHANGED <<up, readVars, write_buf, parsed, iovVars, respVars>> /\ ProcessVarsKept

(* _request.init() writes through the null pointer of a string that was    *)
(* cleared.                                                                *)
ProcessEnds ==
    /\ pc = "process" /\ ~request.whole
    /\ up' = FALSE
    /\ UNCHANGED <<pc, readVars, write_buf, reqVars, iovVars, respVars>> /\ ProcessVarsKept

Parsing == pc = "parse" /\ Readable(read_buf) # 0 /\ request.state # "FINISH"

(* std::search from the read to the write position: the first CRLF, or     *)
(* the write position.                                                     *)
LineEnd ==
    LET b == read_buf
        found == {p \in b.rp .. b.wp - 2 : b.buf[p + 1] = CR /\ b.buf[p + 2] = LF}
    IN  IF found = {} THEN b.wp ELSE CHOOSE p \in found : \A q \in found : p <= q

Line == SubSeq(read_buf.buf, read_buf.rp + 1, LineEnd)

(* retrieveUntil(line_end + 2). *)
RetrievedLine == Retrieved(read_buf, LineEnd + 2 - read_buf.rp)

ParseLineFails ==
    /\ Parsing /\ ~Overshot
    /\ \E res \in ParseLine(request, Line) : ~res.ok /\ request' = res.req
    /\ pc' = "respond"
    /\ UNCHANGED <<up, readVars, write_buf, parsed, iovVars, respVars>> /\ ProcessVarsKept

(* The last line stays in the buffer, with its CRLF. *)
ParseLastLine ==
    /\ Parsing /\ ~Overshot
    /\ LineEnd + 2 = read_buf.wp
    /\ \E res \in ParseLine(request, Line) : res.ok /\ request' = res.req
    /\ parsed' = TRUE
    /\ pc' = "respond"
    /\ UNCHANGED <<up, readVars, write_buf, iovVars, respVars>> /\ ProcessVarsKept

(* A line without CRLF takes the read position past the write position     *)
(* (retrieve asserts that it does not, but a process with assertions has   *)
(* ended in ReadAsserts before it parses anything).                        *)
ParseNextLine ==
    /\ Parsing /\ ~Overshot
    /\ LineEnd + 2 # read_buf.wp
    /\ \E res \in ParseLine(request, Line) : res.ok /\ request' = res.req
    /\ read_buf' = RetrievedLine
    /\ taken' = taken + (read_buf'.rp - read_buf.rp)
    /\ UNCHANGED <<up, pc, write_buf, parsed, iovVars, respVars>> /\ ProcessVarsKept

(* std::search over a range that ends before it begins. *)
ParseOvershot ==
    /\ Parsing /\ Overshot
    /\ up' = FALSE
    /\ UNCHANGED <<pc, readVars, write_buf, reqVars, iovVars, respVars>> /\ ProcessVarsKept

ParseDone ==
    /\ pc = "parse" /\ ~Parsing
    /\ parsed' = TRUE
    /\ pc' = "respond"
    /\ UNCHANGED <<up, readVars, write_buf, request, iovVars, respVars>> /\ ProcessVarsKept

(* A line that ends the process. *)
ParseEnds ==
    /\ Parsing /\ ~Overshot
    /\ MayEnd(request, Line)
    /\ up' = FALSE
    /\ UNCHANGED <<pc, readVars, write_buf, reqVars, iovVars, respVars>> /\ ProcessVarsKept

Parse == \/ ParseLineFails \/ ParseLastLine \/ ParseNextLine
         \/ ParseOvershot \/ ParseEnds \/ ParseDone

(* Mutant of HasFile: the pointer is not tested. *)
HasFileBySize(r) == FileLen(r) > 0

HasFile(r) == FileLen(r) > 0 /\ r.file # NoFile

(* The rest of process: the response is made and _iov is pointed at it.    *)
(* _iov_count only ever grows.                                             *)
Respond ==
    /\ pc = "respond"
    /\ \E s \in StatusAndSize(response, HasPath(request)) : \E st \in ErrorHtml(s) :
       LET head == <<StateLine(st.ok), Header(parsed /\ IsKeepAlive(request))>> IN
       \E out \in AddContent([InitResponse(response) EXCEPT !.size = st.size],
                             Released(response, mappings)) :
       \E b \in {Appended(Appended(write_buf, head[1]), head[2])} :
           /\ write_buf' = Appended(b, out.content)
           /\ response' = out.response
           /\ mappings' = out.mappings
           /\ IF HasFile(out.response)
              THEN /\ iov1' = [file |-> out.response.file, off |-> 0, len |-> FileLen(out.response)]
                   /\ iov_count' = iov_count + 2
                   /\ answer' = head[1] \o head[2] \o out.content \o FileCells(iov1'.len)
              ELSE /\ iov_count' = iov_count + 1
                   /\ answer' = head[1] \o head[2] \o out.content
                   /\ UNCHANGED iov1
    /\ iov0' = [off |-> write_buf'.rp, len |-> Readable(write_buf')]
    /\ parsed' = FALSE
    /\ answers' = answers + 1
    /\ wire' = <<>>
    /\ pc' = "out"
    /\ UNCHANGED <<up, confVars, readVars, request, netVars, boundVars>>

-----------------------------------------------------------------------------
(* _onWrite and HttpConn::write. *)

WriteVarsKept == UNCHANGED <<confVars, readVars, parsed, response, mappings,
                             answer, answers, iov_count, boundVars>>
NothingSent == UNCHANGED <<write_buf, iov0, iov1, wire, request>>

(* _iov has more elements than two, or its second one points to where      *)
(* nothing is mapped.                                                      *)
Stray == \/ iov_count > 2
         \/ /\ iov_count = 2 /\ iov1.len > 0
            /\ \A m \in mappings : m.file # iov1.file

Part0 == SubSeq(write_buf.buf, iov0.off + 1, iov0.off + iov0.len)
Part1 == IF iov_count < 2 THEN <<>>
         ELSE SubSeq(FileCells(iov1.off + iov1.len), iov1.off + 1, iov1.off + iov1.len)

(* getBytesToWrite, an int, of an iov1 that was not set for this response  *)
(* too.                                                                    *)
Total == AsInt(iov0.len + iov1.len)

(* _onWrite, once HttpConn::write has returned: again if it was with       *)
(* EAGAIN, of the request r.                                               *)
AfterWrite(r, total, again) ==
    IF total = 0 THEN IF IsKeepAlive(r) THEN "process" ELSE "closed"
    ELSE IF again THEN "out" ELSE "closed"

(* isKeepAlive() looks for a header: if the memset has run over the table  *)
(* of the headers too, that may end the process.                           *)
UpAfter(r, total) == IF total = 0 /\ ~r.whole THEN BOOLEAN ELSE {TRUE}

(* Mutant of Advanced: iov1 is advanced by all that was sent. *)
AdvancedByAll(n) == [iov1 EXCEPT !.off = @ + n, !.len = @ - (n - iov0.len)]

Advanced(n) == [iov1 EXCEPT !.off = @ + (n - iov0.len), !.len = @ - (n - iov0.len)]

WriteSome ==
    /\ pc = "write" /\ ~Stray
    /\ \E n \in 1 .. Len(Part0 \o Part1) :
           /\ wire' = wire \o SubSeq(Part0 \o Part1, 1, n)
           /\ IF n > iov0.len
              THEN /\ iov1' = Advanced(n)
                   /\ iov0' = [iov0 EXCEPT !.len = 0]
                   /\ RetrieveAllOfWriteBuf
              ELSE /\ iov0' = [off |-> iov0.off + n, len |-> iov0.len - n]
                   /\ write_buf' = Retrieved(write_buf, n)
                   /\ UNCHANGED <<iov1, request>>
    /\ up' \in UpAfter(request', Total')
    /\ Goto(IF is_ET \/ Total' > LTRest THEN "write" ELSE AfterWrite(request', Total', FALSE))
    /\ WriteVarsKept

(* Mutant of WriteNothing: only a negative length ends the loop. *)
WriteNothingAgain ==
    /\ pc = "write" /\ ~Stray
    /\ Part0 \o Part1 = <<>>
    /\ up' \in UpAfter(request, Total)
    /\ Goto(IF is_ET THEN "write" ELSE AfterWrite(request, Total, FALSE))
    /\ NothingSent /\ WriteVarsKept

(* writev has nothing to write and returns 0. *)
WriteNothing ==
    /\ pc = "write" /\ ~Stray
    /\ Part0 \o Part1 = <<>>
    /\ up' \in UpAfter(request, Total)
    /\ Goto(AfterWrite(request, Total, FALSE))
    /\ NothingSent /\ WriteVarsKept

WriteAgain ==
    /\ pc = "write" /\ ~Stray
    /\ Part0 \o Part1 # <<>>
    /\ Goto(AfterWrite(request, Total, TRUE))
    /\ UNCHANGED up /\ NothingSent /\ WriteVarsKept

(* Another error: of the socket, or EFAULT.  Either leaves bytes to write. *)
WriteFails ==
    /\ pc = "write"
    /\ Stray \/ Part0 \o Part1 # <<>>
    /\ Goto(AfterWrite(request, Total, FALSE))
    /\ UNCHANGED up /\ NothingSent /\ WriteVarsKept

(* What lies beyond _iov, or where iov1 points, may be memory. *)
WriteStray ==
    /\ pc = "write" /\ Stray
    /\ up' = FALSE
    /\ UNCHANGED <<pc, netVars>> /\ NothingSent /\ WriteVarsKept

Write == WriteSome \/ WriteNothing \/ WriteAgain \/ WriteFails \/ WriteStray

-----------------------------------------------------------------------------
Server == Read \/ Process \/ ProcessEnds \/ Parse \/ Respond \/ Write

Client == Connect \/ Arrive \/ \E r \in Requests : Ask(r)

(* The process has ended, or nobody comes. *)
Rest == (~up \/ pc = "closed" \/ pc = "in") /\ UNCHANGED vars

Next == \/ up /\ Server
        \/ up /\ Client
        \/ up /\ Ready
        \/ up /\ HangUp
        \/ Rest

(* The worker that has the connection runs. *)
Spec == Init /\ [][Next]_vars /\ WF_vars(up /\ Server)

-----------------------------------------------------------------------------
Working == {"read", "process", "parse", "respond", "write"}

(* Type invariant.  The read position is beyond the write position from a  *)
(* line without CRLF to the end of the response, and in a stale Buffer:    *)
(* readv is called with such positions in the latter only.                 *)
TypeOK ==
    /\ up \in BOOLEAN /\ asserts \in BOOLEAN /\ is_ET \in BOOLEAN
    /\ pc \in {"closed", "in", "out"} \cup Working
    /\ \A b \in {read_buf, write_buf} : b.rp \in Nat /\ b.wp \in Nat
    /\ write_buf.rp <= write_buf.wp /\ write_buf.wp <= Len(write_buf.buf)
    /\ ~Stale => read_buf.rp <= read_buf.wp + 2 /\ read_buf.wp <= Len(read_buf.buf)
    /\ pc \in {"in", "read"} /\ Overshot => Stale
    /\ request \in Request /\ parsed \in BOOLEAN
    /\ response \in Response
    /\ iov_count \in Nat
    /\ iov0 \in [off : Nat, len : Nat]
    /\ iov1 \in [file : Nat, off : Nat, len : Nat]
    /\ mappings \subseteq [file : Nat, len : Size]
    /\ taken \in Nat /\ answers \in Nat
    /\ clients \in 0 .. MaxClients /\ requests \in 0 .. MaxRequests

(* The buffer is the stream that readv has given, less what the parser has *)
(* retrieved: no byte is lost, doubled or moved by the two parts of a      *)
(* scattered read, by growth or by compaction (http_conn.cc 147-155,       *)
(* buffer.cc 59-95), as long as readv stays inside the vector and the      *)
(* memset inside the Buffer.  A client that gets a Buffer with the         *)
(* positions of the one before it (buffer.cc 57-59) is closed before a     *)
(* byte of either is taken for its own.                                    *)
BytesKept ==
    up /\ pc # "closed" =>
        IF Stale THEN received = <<>> /\ answers = 0 /\ pc \in {"in", "read"}
        ELSE Content(read_buf) = SubSeq(received, taken + 1, Len(received))

(* What a client gets of a response is a beginning of it, in order, head   *)
(* and file, however writev cuts it (http_conn.cc 58-74); it is all of it  *)
(* when _iov says so, and before the connection goes on to the next        *)
(* process().                                                              *)
WireIsAnswer ==
    up => /\ IsPrefix(wire, answer)
          /\ pc \in {"out", "write"} /\ Total = 0 => wire = answer
          /\ pc \in {"process", "parse", "respond"} /\ answers > 0 => wire = answer

(* The body that follows is never longer than the length that a response   *)
(* declares, and as long for every file of less than 2 GiB, whatever stat, *)
(* open and mmap have answered (http_response.cc 106-128 and the test in   *)
(* http_conn.cc 100).  From there on getFileLen, an int, is not the size   *)
(* (http_response.cc 78-80): less of the file is sent, or none of it.      *)
LengthDeclared ==
    \A i \in 1 .. Len(answer) :
        answer[i].part = "length" =>
            /\ Len(answer) - i <= answer[i].n
            /\ answer[i].n < IntLimit => Len(answer) - i = answer[i].n

(* An HttpConn maps one file at most, for as much as _file_stat says when  *)
(* it will unmap it: nothing stays mapped from one response, or one        *)
(* client, to the next (http_response.cc 54-57, 168-173), as long as       *)
(* retrieveAll has not run over the members (buffer.cc 57-59), the pointer *)
(* to the file among them.                                                 *)
MappingExact ==
    up /\ request.whole =>
        mappings = IF response.file = NoFile THEN {}
                   ELSE {[file |-> response.file, len |-> response.size]}

(* Requests whose first line has come.                                     *)
Asked == Cardinality({i \in 1 .. Len(received) : \E r \in Requests : received[i] = r[1]})

(* parse leaves its last line in the buffer and a request may come in      *)
(* pieces, so that process() finds something which is no request; but a    *)
(* client gets one response at most that it did not ask for: the answer to *)
(* what is left over closes the connection (http_conn.cc 80,               *)
(* http_request.cc 62-64, server.cc 271).                                  *)
UnaskedAtMostOne == answers <= Asked + 1

(* A task ends, or is reading what its client goes on to send: neither the *)
(* loops of parse and write nor the way back from _onWrite to _onProcess   *)
(* keeps a worker for ever.  The loop of an edge-triggered read            *)
(* (http_conn.cc 41-46) ends when the client pauses, and not before.       *)
TaskEnds ==
    pc \in Working ~> (pc \notin Working \/ ~up \/ (pc = "read" /\ in_data # <<>>))
=============================================================================

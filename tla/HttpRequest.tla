---------------------------- MODULE HttpRequest ----------------------------
(***************************************************************************)
(* src/src/http/http_request.cc: the state machine that parse() drives     *)
(* with one line after the other.  A line is a sequence of cells; the      *)
(* regular expressions tell apart a request line for each method, the two  *)
(* headers that matter, and everything else.  What is no space, or no      *)
(* colon, matches the halves of a CRLF too; what is any character does     *)
(* not.                                                                    *)
(*                                                                         *)
(* Each operator gives the set of results [ok, req] a line may have: what  *)
(* the database answers to a login is a choice.                            *)
(***************************************************************************)
EXTENDS Integers, Sequences

CONSTANTS CR, LF,      (* the cells of a line's end *)
          Get, Post,   (* request lines, of HTTP/1.1 *)
          KeepAlive,   (* "Connection: keep-alive" *)
          FormType,    (* "Content-Type: application/x-www-form-urlencoded" *)
          Form         (* a line of a form, which is no header *)

(* whole: the strings are strings.  _version is "1.1" or not. *)
NewRequest == [state |-> "REQUEST_LINE", method |-> "none", version |-> "other",
               headers |-> {}, whole |-> TRUE]

(* Mutant of InitRequest: only the state is reset. *)
InitRequestStateOnly(r) == [r EXCEPT !.state = "REQUEST_LINE"]

InitRequest(r) == NewRequest

(* What is left of a request when a memset has run over it: of the strings *)
(* some are no more, with them maybe the version.                          *)
Cleared(r) == {[r EXCEPT !.whole = FALSE, !.version = v] : v \in {r.version, "other"}}

Passed(r) == {[ok |-> TRUE, req |-> r]}
Failed(r) == {[ok |-> FALSE, req |-> r]}

(* One request line and no other space: what comes before it is of the     *)
(* method, what comes after it of the version.                             *)
IsRequestLine(line) ==
    \E i \in DOMAIN line :
        /\ line[i] \in {Get, Post}
        /\ \A j \in DOMAIN line \ {i} : line[j] \notin {Get, Post, KeepAlive, FormType}

Method(line) == CASE line[1] = Get  -> "GET"
                  [] line[1] = Post -> "POST"
                  [] OTHER          -> "other"

Version(line) == IF line[Len(line)] \in {Get, Post} THEN "1.1" ELSE "other"

(* The path is set together with the method. *)
ParseRequestLine(r, line) ==
    IF IsRequestLine(line)
    THEN Passed([r EXCEPT !.state = "HEADERS", !.method = Method(line),
                          !.version = Version(line)])
    ELSE Failed(r)

(* A colon, and no half of a CRLF after the first one. *)
IsHeader(line) ==
    \E i \in DOMAIN line :
        /\ line[i] \in {KeepAlive, FormType}
        /\ \A j \in 1 .. i - 1 : line[j] \notin {KeepAlive, FormType}
        /\ \A j \in i + 1 .. Len(line) : line[j] \notin {CR, LF}

(* A name that begins with something else is another one, a value that     *)
(* goes on takes the place of the one that matters.                        *)
WithHeader(headers, line) ==
    IF Len(line) = 1 THEN headers \cup {line[1]} ELSE headers \ {line[1]}

ParseHeaders(r, line) ==
    IF line = <<>> THEN Passed([r EXCEPT !.state = "BODY"])
    ELSE IF IsHeader(line) THEN Passed([r EXCEPT !.headers = WithHeader(@, line)])
    ELSE Failed(r)

(* A form on the way to a page, a login that is right or wrong, or a       *)
(* registration, which may fail.                                           *)
ParsePost(r) == IF FormType \notin r.headers
                THEN Failed(r)
                ELSE Passed([r EXCEPT !.state = "FINISH"]) \cup Failed(r)

(* A form to log in with may end the process: SqlConn asserts that it has  *)
(* got a connection, and the row of a user that there is not is read.      *)
MayEnd(r, line) == /\ r.state = "BODY" /\ r.method = "POST" /\ line # <<>>
                   /\ FormType \in r.headers

ParseBody(r, line) == IF r.method # "POST" \/ line = <<>> THEN Passed(r) ELSE ParsePost(r)

ParseLine(r, line) == CASE r.state = "REQUEST_LINE" -> ParseRequestLine(r, line)
                        [] r.state = "HEADERS"      -> ParseHeaders(r, line)
                        [] r.state = "BODY"         -> ParseBody(r, line)

HasPath(r) == r.method # "none"
IsKeepAlive(r) == KeepAlive \in r.headers /\ r.version = "1.1"

Request == [state : {"REQUEST_LINE", "HEADERS", "BODY", "FINISH"},
            method : {"none", "GET", "POST", "other"},
            version : {"1.1", "other"},
            headers : SUBSET {KeepAlive, FormType},
            whole : BOOLEAN]
=============================================================================
